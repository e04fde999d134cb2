--------------------------- MODULE AdvanceLoopProofs ---------------------------
(***************************************************************************)
(* That the closed form the live queue is written with is what the loop of *)
(* advanceLiveQueue computes, for any queue and any number of cars; and    *)
(* that the queue of the patient driver is the live queue.                 *)
(***************************************************************************)
EXTENDS AdvanceLoop, QueueProgress, LiveQueueProofs

\* What the closed form makes of the rows it found.
Closed == Advanced(row, ahead)

\* The rows the loop goes through, those it has been to, and those it has kept.
Selected == InQueue(Expired(row))
Visited == Selected \ todo
Kept == {v \in Visited : Closed[v].status \in LiveStatus}

\* The loop has done to the rows before the first one left what the closed form
\* says of them, and counted those that stay.
LoopInv ==
    /\ row \in Rows /\ OrderOn(row, ahead)
    /\ todo \subseteq Selected
    /\ \A u \in todo, v \in Selected : u \in ahead[v] => v \in todo
    /\ rows = [u \in Users |-> IF u \in todo THEN row[u] ELSE Closed[u]]
    /\ kept = Cardinality(Kept)
    /\ again => Closed = row

\* Selected is who queues and has not let the lease run out.
LEMMA SelectedRows ==
    ASSUME NEW r \in Rows, NEW u \in Users
    PROVE  /\ u \in InQueue(Expired(r)) <=> u \in InQueue(r) /\ ~LeaseOver(r, u)
           /\ u \in InQueue(Expired(r)) => Expired(r)[u] = r[u]
<1>1. r[u] \in [status: RowStatus, ttl: Nat]
  BY DEF Rows
<1>2. CASE LeaseOver(r, u)
  BY <1>1, <1>2 DEF Expired, InQueue, LeaseOver, LiveStatus
<1>3. CASE ~LeaseOver(r, u)
  BY <1>1, <1>3 DEF Expired, InQueue
<1>. QED  BY <1>2, <1>3

\* What the loop never comes to, the first update has already settled.
LEMMA UnselectedRows ==
    ASSUME NEW r \in Rows, NEW a, NEW u \in Users, u \notin InQueue(Expired(r))
    PROVE  Expired(r)[u] = Advanced(r, a)[u]
<1>1. CASE u \notin InQueue(r)
  <2>1. ~LeaseOver(r, u)
    BY <1>1 DEF LeaseOver, InQueue, LiveStatus
  <2>. QED  BY <1>1, <2>1, AdvancedRow DEF Expired
<1>2. CASE u \in InQueue(r)
  <2>1. LeaseOver(r, u)
    BY <1>2, SelectedRows
  <2>2. Expired(r)[u] = [r[u] EXCEPT !.status = "expired"]
    BY <2>1 DEF Expired
  <2>3. Advanced(r, a)[u] = [r[u] EXCEPT !.status = "expired"]
    BY <1>2, <2>1 DEF Advanced, LeaseOver, Lapsed, Withdrawn, Rows
  <2>. QED  BY <2>2, <2>3
<1>. QED  BY <1>1, <1>2

\* At the first row, nothing has been done yet but the first update.
LoopStart ==
    /\ row \in Rows /\ OrderOn(row, ahead)
    /\ rows = Expired(row) /\ todo = InQueue(rows) /\ kept = 0
    /\ again => Closed = row

LEMMA LoopStarts == LoopStart => LoopInv
<1>. SUFFICES ASSUME LoopStart PROVE LoopInv
  OBVIOUS
<1>. USE DEF LoopStart
<1>1. todo = Selected /\ Kept = {}
  BY DEF Selected, Visited, Kept
<1>2. kept = Cardinality(Kept)
  BY <1>1, FS_EmptySet
<1>3. \A u \in Users : rows[u] = IF u \in todo THEN row[u] ELSE Closed[u]
  BY SelectedRows, UnselectedRows DEF Closed
<1>4. rows = [u \in Users |-> rows[u]]
  BY DEF Expired
<1>5. rows = [u \in Users |-> IF u \in todo THEN row[u] ELSE Closed[u]]
  BY <1>3, <1>4
<1>. QED  BY <1>1, <1>2, <1>5 DEF LoopInv

LEMMA LoopInitInv == LoopInit => LoopInv
<1>. SUFFICES ASSUME LoopInit PROVE LoopInv
  OBVIOUS
<1>1. row \in Rows
  BY QueueAssumption DEF LoopInit, Rows, RowStatus
<1>2. OrderOn(row, ahead)
  <2>. DEFINE a == [u \in Users |-> {v \in Users : Place[v] < Place[u]}]
  <2>1. ahead = Among(a, InQueue(row)) /\ InQueue(row) \subseteq Users
    BY DEF LoopInit, InQueue
  <2>2. \A u \in Users : ahead[u] = IF u \in InQueue(row) THEN {v \in InQueue(row) : Place[v] < Place[u]} ELSE {}
    BY <2>1 DEF Among
  <2>3. \A u \in Users : Place[u] \in Nat
    BY PlaceAssumption
  <2>4. \A u, v \in InQueue(row) : u \in ahead[v] <=> Place[u] < Place[v]
    BY <2>1, <2>2
  <2>5. ASSUME NEW u \in Users
        PROVE  ahead[u] \subseteq InQueue(row) \ {u}
    <3>1. ~(Place[u] < Place[u])
      BY <2>3
    <3>. QED  BY <2>2, <3>1
  <2>6. \A u, v \in InQueue(row) : u # v => (u \in ahead[v] <=> v \notin ahead[u])
    BY <2>1, <2>3, <2>4, PlaceAssumption
  <2>7. \A u, v, w \in InQueue(row) : u \in ahead[v] /\ v \in ahead[w] => u \in ahead[w]
    BY <2>1, <2>3, <2>4
  <2>. QED  BY <2>5, <2>6, <2>7 DEF OrderOn
<1>. QED  BY <1>1, <1>2, LoopStarts DEF LoopInit, LoopStart

\* The row the loop comes to comes after exactly those it has visited, and is
\* eligible by the rows it kept iff it is by the rows that count.
LEMMA FirstLeft ==
    ASSUME LoopInv, NEW u \in todo, ahead[u] \cap todo = {}
    PROVE  /\ u \in InQueue(row) /\ ~LeaseOver(row, u) /\ rows[u] = row[u]
           /\ kept < Cardinality(AvailableCars) <=> Eligible(row, ahead, u)
<1>1. u \in Users /\ u \in InQueue(row) /\ ~LeaseOver(row, u) /\ rows[u] = row[u] /\ u \in Selected
  BY SelectedRows DEF LoopInv, Selected, InQueue
<1>2. Visited = ahead[u] \cap Selected
  <2>1. \A v \in Selected : v \in InQueue(row)
    BY SelectedRows DEF LoopInv, Selected, InQueue
  <2>2. ASSUME NEW v \in Visited PROVE v \in ahead[u]
    <3>1. v # u /\ u \notin ahead[v]
      BY <2>2 DEF LoopInv, Visited
    <3>. QED  BY <1>1, <2>1, <2>2, <3>1 DEF LoopInv, OrderOn, Visited
  <2>. QED  BY <2>2 DEF Visited
<1>3. Counted(row, ahead, u) = {v \in Visited : ~Lapsed(row, v)}
  BY <1>2, SelectedRows DEF Counted, LoopInv, Selected, InQueue
<1>4. \A v \in Visited : v \in Users /\ v \in InQueue(row) /\ ~LeaseOver(row, v)
  BY SelectedRows DEF LoopInv, Visited, Selected, InQueue
<1>5. Counted(row, ahead, u) \subseteq Kept
  <2>1. ASSUME NEW v \in Visited, ~Lapsed(row, v) PROVE v \in Kept
    <3>1. row[v].ttl # 0
      BY <1>4, <2>1 DEF LeaseOver, Lapsed, InQueue, LiveStatus
    <3>. QED  BY <1>4, <2>1, <3>1, AdvancedLive DEF Kept, Closed, LoopInv
  <2>. QED  BY <1>3, <2>1
<1>6. IsFiniteSet(Kept) /\ kept = Cardinality(Kept) /\ Cardinality(Kept) \in Nat
  <2>1. Kept \subseteq Users
    BY <1>4 DEF Kept
  <2>. QED  BY <2>1, FS_Subset, FS_CardinalityType, TablesAssumption DEF LoopInv
<1>7. ASSUME Eligible(row, ahead, u) PROVE kept < Cardinality(AvailableCars)
  <2>1. \A v \in Visited : Eligible(row, ahead, v)
    BY <1>1, <1>2, <1>4, <1>7, EligibleBefore DEF LoopInv
  <2>2. \A v \in Kept : ~Lapsed(row, v)
    BY <1>4, <2>1, AdvancedLive DEF Kept, Closed, LoopInv
  <2>3. Kept = Counted(row, ahead, u)
    BY <1>3, <1>5, <2>2 DEF Kept
  <2>. QED  BY <1>6, <1>7, <2>3, CountedFinite
<1>8. ASSUME kept < Cardinality(AvailableCars) PROVE Eligible(row, ahead, u)
  <2>1. Cardinality(Counted(row, ahead, u)) <= Cardinality(Kept)
    BY <1>5, <1>6, FS_Subset
  <2>. QED  BY <1>6, <1>8, <2>1, CountedFinite
<1>. QED  BY <1>1, <1>7, <1>8

\* The cars that are available are a matter of the tables.
LEMMA ClosedNext ==
    ASSUME UNCHANGED <<car, device, session>>, NEW r, NEW a, row' = r, ahead' = a
    PROVE  Closed' = Advanced(r, a) /\ Selected' = InQueue(Expired(r))
<1>1. AvailableCars' = AvailableCars
  BY DEF AvailableCars, UnexpiredSessions, LiveSessions, Ready, Fresh
<1>2. \A u : Eligible(row, ahead, u)' <=> Eligible(r, a, u)
  BY <1>1 DEF Eligible, Lapsed, LeaseOver, InQueue
<1>. QED
  BY <1>2 DEF Closed, Selected, Expired, Advanced, Withdrawn, Lapsed, LeaseOver, InQueue

\* A turn does to its row what the closed form does.
LEMMA VisitKeeps ==
    ASSUME LoopInv, NEW u \in Users, Visit(u)
    PROVE  LoopInv'
<1>. DEFINE q == Closed
<1>1. /\ u \in todo /\ ahead[u] \cap todo = {} /\ todo' = todo \ {u}
      /\ UNCHANGED <<row, ahead, again, car, device, session>>
  BY DEF Visit, vars, queueVars, tables
<1>2. /\ u \in InQueue(row) /\ ~LeaseOver(row, u) /\ rows[u] = row[u]
      /\ kept < Cardinality(AvailableCars) <=> Eligible(row, ahead, u)
  BY <1>1, FirstLeft
<1>3. row[u] \in [status: RowStatus, ttl: Nat] /\ row[u].status \in LiveStatus
  BY <1>2 DEF LoopInv, Rows, InQueue
<1>4. /\ rows' = [rows EXCEPT ![u] = q[u]]
      /\ kept' = IF q[u].status \in LiveStatus THEN kept + 1 ELSE kept
  <2>1. CASE Lapsed(row, u) /\ Eligible(row, ahead, u)
    <3>1. q[u] = [row[u] EXCEPT !.status = "missed"]
      BY <1>2, <1>3, <2>1 DEF Closed, Advanced, LeaseOver, Lapsed, Withdrawn
    <3>2. q[u].status = "missed"
      BY <1>3, <3>1
    <3>3. rows' = [rows EXCEPT ![u].status = "missed"] /\ kept' = kept
      BY <1>2, <2>1 DEF Visit, Lapsed
    <3>. QED  BY <1>2, <3>1, <3>2, <3>3 DEF LiveStatus
  <2>2. CASE ~(Lapsed(row, u) /\ Eligible(row, ahead, u))
    <3>1. Turned(u, Eligible(row, ahead, u)) /\ kept' = kept + 1
      <4>1. CASE Eligible(row, ahead, u)
        BY <1>2, <2>2, <4>1 DEF Visit, Lapsed, Turned
      <4>2. CASE ~Eligible(row, ahead, u)
        BY <1>2, <2>2, <4>2 DEF Visit, Lapsed, Turned
      <4>. QED  BY <4>1, <4>2
    <3>2. CASE Eligible(row, ahead, u) /\ row[u].status = "waiting"
      <4>1. q[u] = [status |-> "offered", ttl |-> QUEUE_OFFER]
        BY <1>2, <3>2 DEF Closed, Advanced, Lapsed, Withdrawn
      <4>. QED  BY <1>2, <3>1, <3>2, <4>1 DEF Turned, LiveStatus
    <3>3. CASE ~Eligible(row, ahead, u) /\ row[u].status = "offered"
      <4>1. q[u] = [status |-> "waiting", ttl |-> QUEUE_LEASE]
        BY <1>2, <3>3 DEF Closed, Advanced, Lapsed, Withdrawn
      <4>. QED  BY <1>2, <3>1, <3>3, <4>1 DEF Turned, LiveStatus
    <3>4. CASE Eligible(row, ahead, u) <=> row[u].status = "offered"
      <4>1. q[u] = row[u]
        BY <1>2, <1>3, <2>2, <3>4 DEF Closed, Advanced, Withdrawn, LiveStatus
      <4>2. rows' = rows
        BY <1>2, <1>3, <3>1, <3>4 DEF Turned, LiveStatus
      <4>3. rows = [rows EXCEPT ![u] = q[u]]
        BY <1>2, <4>1 DEF LoopInv
      <4>. QED  BY <1>3, <3>1, <4>1, <4>2, <4>3
    <3>. QED  BY <1>3, <3>2, <3>3, <3>4 DEF LiveStatus
  <2>. QED  BY <2>1, <2>2
<1>5. Closed' = q /\ Selected' = Selected
  BY <1>1, ClosedNext DEF Closed, Selected
<1>6. rows' = [v \in Users |-> IF v \in todo' THEN row'[v] ELSE Closed'[v]]
  <2>1. rows = [v \in Users |-> IF v \in todo THEN row[v] ELSE q[v]]
    BY DEF LoopInv
  <2>2. rows' = [v \in Users |-> IF v \in todo' THEN row[v] ELSE q[v]]
    BY <1>1, <1>4, <2>1
  <2>. QED  BY <1>1, <1>5, <2>2
<1>7. kept' = Cardinality(Kept')
  <2>1. u \in Selected /\ u \notin Visited /\ Visited' = Visited \cup {u}
    BY <1>1, <1>5 DEF LoopInv, Visited
  <2>2. Kept' = {v \in Visited' : q[v].status \in LiveStatus}
    BY <1>5 DEF Kept
  <2>3. Kept \subseteq Users /\ IsFiniteSet(Kept) /\ u \notin Kept
    <3>1. Kept \subseteq Users /\ u \notin Kept
      BY <2>1 DEF Kept, Visited, Selected, InQueue
    <3>. QED  BY <3>1, FS_Subset, TablesAssumption
  <2>4. CASE q[u].status \in LiveStatus
    <3>1. Kept' = Kept \cup {u}
      BY <2>1, <2>2, <2>4 DEF Kept
    <3>. QED  BY <1>4, <2>3, <2>4, <3>1, FS_AddElement DEF LoopInv
  <2>5. CASE q[u].status \notin LiveStatus
    <3>1. Kept' = Kept
      BY <2>1, <2>2, <2>5 DEF Kept
    <3>. QED  BY <1>4, <2>5, <3>1 DEF LoopInv
  <2>. QED  BY <2>4, <2>5
<1>8. todo' \subseteq Selected' /\ \A v \in todo', w \in Selected' : v \in ahead'[w] => w \in todo'
  <2>1. \A v \in todo : v \notin ahead[u]
    BY <1>1
  <2>. QED  BY <1>1, <1>5, <2>1 DEF LoopInv
<1>9. row' \in Rows /\ OrderOn(row', ahead')
  BY <1>1 DEF LoopInv, OrderOn, InQueue
<1>10. again' => Closed' = row'
  BY <1>1, <1>5 DEF LoopInv
<1>. QED  BY <1>6, <1>7, <1>8, <1>9, <1>10 DEF LoopInv

\* Once the loop is through, the rows are those of the closed form.
LEMMA LoopDone ==
    ASSUME LoopInv, todo = {}
    PROVE  rows = Closed
<1>1. rows = [u \in Users |-> Closed[u]]
  BY DEF LoopInv
<1>2. Closed = [u \in Users |-> Closed[u]]
  BY DEF Closed, Advanced
<1>. QED  BY <1>1, <1>2

\* It starts again on rows that are as ordered, and that advancing leaves alone.
LEMMA RerunKeeps ==
    ASSUME LoopInv, Rerun
    PROVE  LoopInv'
<1>1. /\ row' = Closed /\ ahead' = Among(ahead, InQueue(Closed)) /\ again'
      /\ rows' = Expired(rows) /\ rows = Closed /\ todo' = InQueue(rows') /\ kept' = 0
      /\ UNCHANGED <<car, device, session>>
  BY LoopDone DEF Rerun, SetQueue, tables
<1>2. Closed \in Rows /\ InQueue(Closed) \subseteq InQueue(row)
  <2>1. \A u \in Users : Closed[u].status \in LiveStatus => row[u].status \in LiveStatus
    BY AdvancedRows DEF LoopInv, Closed
  <2>. QED  BY <2>1, AdvancedRows DEF LoopInv, InQueue, Closed
<1>3. OrderOn(Closed, Among(ahead, InQueue(Closed)))
  BY <1>2, AmongOrdered DEF LoopInv
<1>4. Advanced(Closed, Among(ahead, InQueue(Closed))) = Closed
  BY AdvancedSettles DEF LoopInv, Closed
<1>5. Closed' = row'
  BY <1>1, <1>4, ClosedNext
<1>6. OrderOn(row, ahead)'
  BY <1>1, <1>3 DEF OrderOn, InQueue
<1>7. Expired(row)' = Expired(Closed)
  BY <1>1 DEF Expired, LeaseOver
<1>8. LoopStart'
  BY <1>1, <1>2, <1>5, <1>6, <1>7 DEF LoopStart, InQueue
<1>9. LoopStart' => LoopInv'
  BY LoopStarts, PTL
<1>. QED  BY <1>8, <1>9

LEMMA LoopSteps == LoopInv /\ [LoopNext]_loopVars => LoopInv'
<1>. SUFFICES ASSUME LoopInv, [LoopNext]_loopVars PROVE LoopInv'
  OBVIOUS
<1>1. CASE Rerun
  BY <1>1, RerunKeeps
<1>2. ASSUME NEW u \in Users, Visit(u) PROVE LoopInv'
  BY <1>2, VisitKeeps
<1>3. CASE UNCHANGED loopVars
  <2>1. UNCHANGED <<rows, todo, kept, again, row, ahead, car, device, session>>
    BY <1>3 DEF loopVars, vars, queueVars, tables
  <2>2. Closed' = Closed /\ Selected' = Selected
    BY <2>1, ClosedNext DEF Closed, Selected
  <2>. QED  BY <2>1, <2>2 DEF LoopInv, Kept, Visited, OrderOn, InQueue
<1>. QED  BY <1>1, <1>2, <1>3 DEF LoopNext

\* The closed form LiveQueue is written with is what the loop of
\* advanceLiveQueue has computed once it is through.
THEOREM AdvancedIsTheLoopHolds == LoopSpec => []AdvancedIsTheLoop
<1>1. LoopInv => AdvancedIsTheLoop
  BY LoopDone DEF AdvancedIsTheLoop, Closed
<1>. QED  BY <1>1, LoopInitInv, LoopSteps, PTL DEF LoopSpec

\* advanceLiveQueue, called again within the instant, leaves the rows as they are.
THEOREM AdvanceSettlesHolds == LoopSpec => []AdvanceSettles
<1>1. LoopInv => AdvanceSettles
  BY LoopDone DEF AdvanceSettles, LoopInv
<1>. QED  BY <1>1, LoopInitInv, LoopSteps, PTL DEF LoopSpec

-----------------------------------------------------------------------------
(* The patient driver's queue.                                             *)

LEMMA PatientStepIsQueueStep == PatientNext => Next
<1>. SUFFICES ASSUME PatientNext PROVE Next
  OBVIOUS
<1>1. ASSUME NEW d \in Devices, HealthyStep(d) PROVE Next
  BY <1>1 DEF HealthyStep, DeviceStep, GatewayStep, Next
<1>2. CASE TimelyTick
  BY <1>2 DEF TimelyTick, Next
<1>3. CASE \E u \in Users : Join(u) \/ Read(u) \/ (u # Patient /\ Leave(u))
  BY <1>3 DEF QueueStep, Next
<1>. QED  BY <1>1, <1>2, <1>3 DEF PatientNext, QueueStep, GatewayStep, Next

\* A healthy fleet and a driver who polls in time only leave steps out, so the
\* order is strict and kept there too.
THEOREM PatientQueueIsOrdered == PatientSpec => []QueueOrder /\ PlacesKept
<1>1. PatientSpec => Spec
  BY PatientStepIsQueueStep, PTL DEF PatientSpec, Spec
<1>. QED  BY <1>1, QueueOrderHolds, PlacesKeptHolds
=============================================================================
