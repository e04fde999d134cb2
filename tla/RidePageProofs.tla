----------------------------- MODULE RidePageProofs -----------------------------
(***************************************************************************)
(* What the ride page shows beside the drive, for any number of pages,     *)
(* moves, edits and requests under way: the steering trim, the spectators' *)
(* count and the volume of the onboard sound.  Each is a component of its  *)
(* own, with an invariant of its own.                                      *)
(***************************************************************************)
EXTENDS SteeringTrim, Viewers, RideAudio, FiniteSetTheorems, TLAPS

-----------------------------------------------------------------------------
(* The steering trim.                                                      *)

Sliders == [value: Nat, revision: Nat, timer: BOOLEAN, status: {"saving", "saved", "not-saved"}]
Saves == [value: Nat, revision: Nat, answer: {"none", "ok", "refused"}]

\* A save is of the move that made it, and of a move there is one: while the timer
\* runs the last move has none yet, once it is called saved it has none any more.
TrimInv ==
    /\ slider \in Sliders /\ saves \subseteq Saves
    /\ \A s \in saves : s.value = s.revision /\ s.revision <= slider.revision
    /\ \A s, t \in saves : s.revision = t.revision => s = t
    /\ slider.timer => slider.revision \in 1 .. SLIDES /\ slider.status = "saving"
                       /\ \A s \in saves : s.revision # slider.revision
    /\ TrimStaysPut

LEMMA TrimStarts == TrimInit => TrimInv
BY TrimAssumption DEF TrimInit, TrimInv, Sliders, TrimStaysPut

\* An answer takes the place of the request, in any order with the others.
LEMMA AnswerDoes ==
    ASSUME TrimInv, NEW s \in saves, NEW answer \in {"ok", "refused"},
           saves' = (saves \ {s}) \cup {[s EXCEPT !.answer = answer]}
    PROVE  /\ saves' \subseteq Saves
           /\ \A a \in saves' : \E b \in saves : a.value = b.value /\ a.revision = b.revision
           /\ \A a, b \in saves' : a.revision = b.revision => a = b
<1>1. PICK new \in Saves : new = [s EXCEPT !.answer = answer]
  BY DEF TrimInv, Saves
<1>2. new.value = s.value /\ new.revision = s.revision
  BY <1>1 DEF TrimInv, Saves
<1>3. saves' = (saves \ {s}) \cup {new}
  BY <1>1
<1>. QED  BY <1>2, <1>3 DEF TrimInv

LEMMA TrimSteps ==
    ASSUME TrimInv, [TrimNext]_trimVars
    PROVE  TrimInv'
<1>. USE TrimAssumption
<1>1. CASE Slide
  <2>1. /\ slider' \in Sliders /\ slider'.value = slider'.revision /\ slider'.revision = slider.revision + 1
        /\ slider'.status = "saving" /\ slider'.revision \in 1 .. SLIDES /\ saves' = saves
    BY <1>1 DEF Slide, TrimInv, Sliders
  <2>2. \A s \in saves : s.revision < slider'.revision /\ s.revision \in Nat
    BY <2>1 DEF TrimInv, Sliders, Saves
  <2>. QED  BY <2>1, <2>2 DEF TrimInv, TrimStaysPut, Sliders
<1>2. CASE SaveStarts
  <2>1. PICK new \in Saves : /\ saves' = saves \cup {new}
                             /\ new.value = slider.value /\ new.revision = slider.revision
    <3>1. slider.value \in Nat /\ slider.revision \in Nat
      BY DEF TrimInv, Sliders
    <3>2. PICK new \in Saves : new = [value |-> slider.value, revision |-> slider.revision, answer |-> "none"]
      BY <3>1 DEF Saves
    <3>. QED  BY <1>2, <3>2 DEF SaveStarts, Saves
  <2>2. /\ slider.timer /\ slider' \in Sliders /\ ~slider'.timer
        /\ slider'.value = slider.value /\ slider'.revision = slider.revision /\ slider'.status = slider.status
    BY <1>2 DEF SaveStarts, TrimInv, Sliders
  <2>. QED  BY <2>1, <2>2 DEF TrimInv, TrimStaysPut, Sliders
<1>3. ASSUME NEW s \in saves, SaveTrim(s)
      PROVE  TrimInv'
  <2>1. PICK answer \in {"ok", "refused"} : saves' = (saves \ {s}) \cup {[s EXCEPT !.answer = answer]}
    BY <1>3 DEF SaveTrim
  <2>2. UNCHANGED slider
    BY <1>3 DEF SaveTrim
  <2>. QED  BY <2>1, <2>2, AnswerDoes DEF TrimInv, TrimStaysPut
<1>4. ASSUME NEW s \in saves, TrimAnswered(s) \/ TrimLost(s)
      PROVE  TrimInv'
  <2>1. saves' = saves \ {s}
    BY <1>4 DEF TrimAnswered, TrimLost
  <2>2. CASE UNCHANGED slider
    BY <2>1, <2>2 DEF TrimInv, TrimStaysPut
  <2>3. CASE s.revision = slider.revision /\ \E status \in {"saved", "not-saved"} :
                slider' \in {[slider EXCEPT !.status = status], [slider EXCEPT !.value = s.value, !.status = status]}
    <3>1. /\ slider' \in Sliders /\ slider'.revision = slider.revision /\ slider'.timer = slider.timer
          /\ slider'.value \in {slider.value, slider.revision}
      BY <2>3 DEF TrimInv, Sliders, Saves
    <3>2. ~slider.timer /\ \A t \in saves' : t.revision # slider.revision
      BY <2>1, <2>3 DEF TrimInv
    <3>. QED  BY <2>1, <3>1, <3>2 DEF TrimInv, TrimStaysPut
  <2>. QED  BY <1>4, <2>2, <2>3 DEF TrimAnswered, TrimLost, Latest
<1>5. CASE TrimLeft
  <2>1. /\ slider' \in Sliders /\ ~slider'.timer /\ slider'.revision = SLIDES + 1 /\ saves' = saves
        /\ slider.revision <= slider'.revision
    <3>1. SLIDES + 1 \in Nat /\ slider.revision <= SLIDES + 1
      BY <1>5 DEF TrimLeft, TrimInv, Sliders
    <3>2. PICK n \in Nat : n = SLIDES + 1
      BY <3>1
    <3>3. slider' = [slider EXCEPT !.timer = FALSE, !.revision = n] /\ saves' = saves
      BY <1>5, <3>2 DEF TrimLeft
    <3>. QED  BY <3>1, <3>2, <3>3 DEF TrimInv, Sliders
  <2>2. \A s \in saves : s.revision <= slider'.revision
    BY <2>1 DEF TrimInv, Sliders, Saves
  <2>. QED  BY <2>1, <2>2 DEF TrimInv, TrimStaysPut
<1>6. CASE TrimSessionEnds \/ UNCHANGED trimVars
  BY <1>6 DEF TrimSessionEnds, trimVars, TrimInv, TrimStaysPut
<1>. QED  BY <1>1, <1>2, <1>3, <1>4, <1>5, <1>6 DEF TrimNext

\* The slider stays at the driver's last move, and is called saved only when no save
\* of that move is under way: the revision in updateSteeringTrim tells every answer
\* that was overtaken, in whatever order answers come.
THEOREM TrimStaysPutHolds == TrimSpec => []TrimStaysPut
<1>1. TrimInv => TrimStaysPut
  BY DEF TrimInv
<1>. QED  BY <1>1, TrimStarts, TrimSteps, PTL DEF TrimSpec

-----------------------------------------------------------------------------
(* The spectators' count.                                                  *)

Sockets == [state: {"free", "open", "cut", "closing"}, of: Watchers \cup {Nobody}, alive: BOOLEAN, told: Nat]

CountInv == present \subseteq Slots /\ socket \in [Slots -> Sockets] /\ CountAnnounced

LEMMA CountStarts == ViewersInit => CountInv
BY DEF ViewersInit, CountInv, Sockets, FreeSlot, CountAnnounced

LEMMA CountIsNatural ==
    ASSUME NEW S \in SUBSET Slots
    PROVE  Cardinality(S) \in Nat
<1>1. IsFiniteSet(Slots)
  BY FS_Interval, ViewerAssumption DEF Slots
<1>. QED  BY <1>1, FS_Subset, FS_CardinalityType

\* Whoever is still counted after a broadcast has taken the message that tells the count.
LEMMA BroadcastDoes ==
    ASSUME NEW m \in SUBSET Slots, NEW k \in [Slots -> Sockets], NEW threw, Broadcast(m, k, threw)
    PROVE  CountInv'
<1>. DEFINE told == {s \in m : Sendable(k, s)} \ threw
            n == Cardinality(told)
<1>1. /\ present' = told
      /\ socket' = [s \in Slots |-> IF s \in told THEN [k[s] EXCEPT !.told = n] ELSE k[s]]
  BY DEF Broadcast, Announced
<1>2. told \subseteq Slots /\ n \in Nat
  BY CountIsNatural
<1>. HIDE DEF n
<1>3. socket' \in [Slots -> Sockets] /\ \A s \in told : socket'[s].told = n
  BY <1>1, <1>2 DEF Sockets
<1>. QED  BY <1>1, <1>2, <1>3 DEF CountInv, CountAnnounced, n

\* Sockets of which none is sent to that was not, or has been told something else.
LEMMA QuietSockets ==
    ASSUME CountInv, UNCHANGED present, socket' \in [Slots -> Sockets],
           \A s \in Slots : Sendable(socket', s) => Sendable(socket, s) /\ socket'[s].told = socket[s].told
    PROVE  CountInv'
BY DEF CountInv, CountAnnounced, Sendable

LEMMA HangsUpDoes ==
    ASSUME CountInv, NEW v \in Watchers, UNCHANGED present, socket' = HangsUp(v)
    PROVE  CountInv'
<1>1. CASE socket' = socket
  BY <1>1 DEF CountInv, CountAnnounced, Sendable
<1>2. ASSUME NEW s \in Slots, socket' = [socket EXCEPT ![s].state = "closing"]
      PROVE  CountInv'
  <2>1. socket' \in [Slots -> Sockets]
    BY <1>2 DEF CountInv, Sockets
  <2>2. \A q \in Slots : Sendable(socket', q) => socket'[q] = socket[q]
    BY <1>2 DEF CountInv, Sockets, Sendable
  <2>. QED  BY <2>1, <2>2, QuietSockets DEF Sendable
<1>. QED  BY <1>1, <1>2 DEF HangsUp, Works

LEMMA CountSteps ==
    ASSUME CountInv, [ViewersNext]_viewerVars
    PROVE  CountInv'
<1>1. CASE UNCHANGED <<socket, present>>
  BY <1>1 DEF CountInv, CountAnnounced, Sendable
<1>2. ASSUME NEW v \in Watchers, NEW s \in Slots, Accept(v, s)
      PROVE  CountInv'
  <2>1. PICK threw : Broadcast(present \cup {s}, [socket EXCEPT ![s] = OpenSocket(v)], threw)
    BY <1>2 DEF Accept
  <2>2. [socket EXCEPT ![s] = OpenSocket(v)] \in [Slots -> Sockets] /\ present \cup {s} \in SUBSET Slots
    BY DEF CountInv, Sockets, OpenSocket
  <2>. QED  BY <2>1, <2>2, BroadcastDoes
<1>3. ASSUME NEW s \in Slots, SocketClosed(s)
      PROVE  CountInv'
  <2>1. PICK k \in [Slots -> Sockets] : k = [socket EXCEPT ![s] = FreeSlot]
    BY DEF CountInv, Sockets, FreeSlot
  <2>2. CASE s \in present
    <3>1. Broadcast(present \ {s}, k, {})
      BY <1>3, <2>1, <2>2 DEF SocketClosed
    <3>. QED  BY <3>1, BroadcastDoes DEF CountInv
  <2>3. CASE s \notin present
    <3>1. socket' = k /\ UNCHANGED present
      BY <1>3, <2>1, <2>3 DEF SocketClosed
    <3>2. \A q \in Slots : Sendable(socket', q) => socket'[q] = socket[q]
      BY <2>1, <3>1 DEF CountInv, Sendable, FreeSlot
    <3>. QED  BY <3>1, <3>2, QuietSockets DEF Sendable
  <2>. QED  BY <2>2, <2>3
<1>4. ASSUME NEW s \in Slots, Pong(s)
      PROVE  CountInv'
  <2>1. socket' \in [Slots -> Sockets] /\ \A q \in Slots : /\ socket'[q].state = socket[q].state
                                                           /\ socket'[q].told = socket[q].told
    BY <1>4 DEF Pong, CountInv, Sockets
  <2>. QED  BY <1>4, <2>1, QuietSockets DEF Pong, Sendable
<1>5. CASE PingSweep
  <2>1. socket' \in [Slots -> Sockets]
    BY <1>5 DEF PingSweep, CountInv, Sockets
  <2>2. \A q \in Slots : Sendable(socket', q) => Sendable(socket, q) /\ socket'[q].told = socket[q].told
    BY <1>5 DEF PingSweep, Sendable, CountInv, Sockets
  <2>. QED  BY <1>5, <2>1, <2>2, QuietSockets DEF PingSweep
<1>6. ASSUME NEW v \in Watchers, FirstCountLate(v) \/ Leave(v)
      PROVE  CountInv'
  BY <1>6, HangsUpDoes DEF FirstCountLate, Leave
<1>7. ASSUME NEW v \in Watchers, Breaking(v)
      PROVE  CountInv'
  <2>1. PICK s \in Slots, state \in {"closing", "cut"} :
            socket[s].state = "open" /\ socket' = [socket EXCEPT ![s].state = state]
    BY <1>7 DEF Breaking, Works
  <2>2. socket' \in [Slots -> Sockets]
    BY <2>1 DEF CountInv, Sockets
  <2>3. \A q \in Slots : Sendable(socket', q) => Sendable(socket, q) /\ socket'[q].told = socket[q].told
    BY <2>1 DEF CountInv, Sockets, Sendable
  <2>. QED  BY <1>7, <2>2, <2>3, QuietSockets DEF Breaking
<1>8. CASE GatewayGoes
  BY <1>8 DEF GatewayGoes, CountInv, CountAnnounced, Sockets, FreeSlot
<1>. QED
  BY <1>1, <1>2, <1>3, <1>4, <1>5, <1>6, <1>7, <1>8
  DEF ViewersNext, Connect, Refuse, CountArrives, viewerVars

\* Whoever the gateway counts and can reach has been told how many it counts: a
\* send that throws in the middle of #broadcast takes a socket out of the count
\* before the others are told it.
THEOREM CountAnnouncedHolds == ViewersInit /\ [][ViewersNext]_viewerVars => []CountAnnounced
<1>1. CountInv => CountAnnounced
  BY DEF CountInv
<1>. QED  BY <1>1, CountStarts, CountSteps, PTL

-----------------------------------------------------------------------------
(* The volume of the onboard sound.                                        *)

Statuses == {"loading", "saving", "saved", "not-saved"}
AudioTabs == [value: Nat, revision: Nat, dirty: BOOLEAN, timer: BOOLEAN, closed: BOOLEAN,
              conflicts: Nat, status: Statuses]
Rows == [value: Nat, by: Tabs \cup {Before}, revision: Nat \ {0}]
Patches == [tab: Tabs, value: Nat, base: Nat]
Calls == [kind: {"none", "get"}] \cup [kind: {"patch"}, req: Patches]
         \cup [kind: {"got", "saved", "conflict"}, row: Rows]

AudioTypes ==
    /\ row \in Rows /\ tab \in [Tabs -> AudioTabs] /\ call \in [Tabs -> Calls]
    /\ stray \subseteq Patches

StraysOf(t) == {p \in stray : p.tab = t}

\* A page knows no revision the row has not had; it loads once, before it saves, and
\* what it has given up was made from a revision it knew by then.
Revisions(t) ==
    /\ tab[t].revision <= row.revision
    /\ Loading(t) => tab[t].revision = Unloaded
    /\ tab[t].revision = Unloaded => row.by # t /\ StraysOf(t) = {} /\ ~Saving(t)
    /\ \A p \in StraysOf(t) : p.base <= tab[t].revision

\* What the request under way carries is what the page shows, unless that is dirty.
Underway(t) ==
    /\ call[t].kind = "patch" =>
         /\ call[t].req.tab = t /\ call[t].req.base = tab[t].revision
         /\ tab[t].dirty \/ call[t].req.value = tab[t].value
    /\ call[t].kind \in {"got", "saved", "conflict"} =>
         /\ tab[t].revision <= call[t].row.revision /\ call[t].row.revision <= row.revision
    /\ call[t].kind = "saved" =>
         /\ tab[t].revision < row.revision
         /\ tab[t].dirty \/ call[t].row.value = tab[t].value
         /\ row.by = t => row.value = call[t].row.value

\* Saved is nothing that waits, or that a request given up could still undo.
SavedForGood(t) == tab[t].status = "saved" =>
    /\ ~tab[t].dirty /\ ~Saving(t)
    /\ row.by = t => row.value = tab[t].value
    /\ \A p \in StraysOf(t) : p.base < row.revision

TabInv(t) == Revisions(t) /\ Underway(t) /\ SavedForGood(t)
AudioInv == AudioTypes /\ \A t \in Tabs : TabInv(t)

LEMMA AudioStarts == AudioInit => AudioInv
BY AudioAssumption
DEF AudioInit, AudioInv, AudioTypes, Rows, AudioTabs, Statuses, Calls, Patches, TabInv, Revisions, Underway,
    SavedForGood, StraysOf, Loading, Saving, Unloaded, Before

\* A page of which neither the row nor a request given up says anything new.
LEMMA UntouchedTab ==
    ASSUME NEW t \in Tabs, TabInv(t), UNCHANGED <<row, stray>>, tab'[t] = tab[t], call'[t] = call[t]
    PROVE  TabInv(t)'
BY DEF TabInv, Revisions, Underway, SavedForGood, StraysOf, Loading, Saving

\* flush and #save's next turn, from the page p: if it sends, the request is what p
\* shows; if a request is under way, p is what the page knew when that left.
LEMMA FlushedDoes ==
    ASSUME AudioInv, NEW t \in Tabs, NEW p \in AudioTabs, NEW idle \in BOOLEAN, Flushed(t, p, idle),
           UNCHANGED <<row, stray>>,
           p.value = tab[t].value, tab[t].revision <= p.revision, p.revision <= row.revision,
           p.status = "saved" => /\ ~p.dirty /\ (row.by = t => row.value = p.value)
                                 /\ \A q \in StraysOf(t) : q.base < row.revision,
           ~idle => p.revision = tab[t].revision /\ p.dirty = tab[t].dirty /\ p.status = tab[t].status
    PROVE  AudioInv'
<1>. USE DEF AudioInv
<1>1. \A u \in Tabs \ {t} : tab'[u] = tab[u] /\ call'[u] = call[u]
  BY DEF Flushed, AudioTypes
<1>2. \A u \in Tabs \ {t} : TabInv(u)'
  BY <1>1, UntouchedTab
<1>3. CASE SendsFrom(t, p, idle)
  <2>1. tab' = [tab EXCEPT ![t] = [p EXCEPT !.dirty = FALSE]]
    BY <1>3 DEF Flushed
  <2>2. PICK q \in AudioTabs : q = [p EXCEPT !.dirty = FALSE]
    BY DEF AudioTabs
  <2>3. q.value = p.value /\ q.revision = p.revision /\ ~q.dirty /\ q.status = p.status
    BY <2>2 DEF AudioTabs
  <2>4. tab' \in [Tabs -> AudioTabs] /\ tab'[t] = q
    BY <2>1, <2>2 DEF AudioTypes
  <2>5. PICK r \in Patches : r = Patch(t, p.value, p.revision)
    BY DEF Patch, Patches, AudioTabs
  <2>6. r.tab = t /\ r.value = p.value /\ r.base = p.revision
    BY <2>5 DEF Patch
  <2>7. call' = [call EXCEPT ![t] = [kind |-> "patch", req |-> r]]
    BY <1>3, <2>5 DEF Flushed
  <2>8. call' \in [Tabs -> Calls] /\ call'[t].kind = "patch" /\ call'[t].req = r
    BY <2>7 DEF AudioTypes, Calls
  <2>9. p.dirty /\ p.revision # Unloaded
    BY <1>3 DEF SendsFrom
  <2>10. Revisions(t)'
    BY <2>3, <2>4, <2>8, <2>9 DEF TabInv, Revisions, StraysOf, Loading, Saving, AudioTypes, AudioTabs, Rows, Patches
  <2>11. Underway(t)' /\ SavedForGood(t)'
    BY <2>3, <2>4, <2>6, <2>8, <2>9 DEF Underway, SavedForGood
  <2>. QED  BY <1>2, <2>4, <2>8, <2>10, <2>11 DEF AudioTypes, TabInv
<1>4. CASE ~SendsFrom(t, p, idle)
  <2>1. tab' \in [Tabs -> AudioTabs] /\ tab'[t] = p
    BY <1>4 DEF Flushed, AudioTypes
  <2>2. call' \in [Tabs -> Calls] /\ call'[t] = IF idle THEN NoCall ELSE call[t]
    BY <1>4 DEF Flushed, AudioTypes, Calls, NoCall
  <2>3. Revisions(t)'
    <3>1. tab[t].revision \in Nat /\ p.revision \in Nat /\ row.revision \in Nat /\ \A q \in stray : q.base \in Nat
      BY DEF AudioTypes, AudioTabs, Rows, Patches
    <3>. QED  BY <2>1, <2>2, <3>1 DEF TabInv, Revisions, StraysOf, Loading, Saving, NoCall, Unloaded
  <2>4. Underway(t)' /\ SavedForGood(t)'
    BY <2>1, <2>2 DEF TabInv, Underway, SavedForGood, StraysOf, Saving, NoCall
  <2>. QED  BY <1>2, <2>1, <2>2, <2>3, <2>4 DEF AudioTypes, TabInv
<1>. QED  BY <1>3, <1>4

\* A page that changes alone, with its request.
LEMMA OneTab ==
    ASSUME AudioInv, NEW t \in Tabs, NEW p \in AudioTabs, NEW c \in Calls, UNCHANGED <<row, stray>>,
           tab' = [tab EXCEPT ![t] = p], call' = [call EXCEPT ![t] = c], TabInv(t)'
    PROVE  AudioInv'
<1>1. tab' \in [Tabs -> AudioTabs] /\ call' \in [Tabs -> Calls]
  BY DEF AudioInv, AudioTypes
<1>2. \A u \in Tabs \ {t} : TabInv(u)'
  BY UntouchedTab DEF AudioInv, AudioTypes
<1>. QED  BY <1>1, <1>2 DEF AudioInv, AudioTypes

\* The server carries out a request: the row is as the request wants it, or stays.
LEMMA StoredDoes ==
    ASSUME AudioInv, NEW t \in Tabs, NEW p \in Patches, p \in stray \/ p.tab # t,
           row' = Stored(p), UNCHANGED <<tab[t], call[t]>>, stray' \subseteq stray
    PROVE  row' \in Rows /\ TabInv(t)'
<1>. USE DEF AudioInv, AudioTypes
<1>1. row.revision \in Nat \ {0} /\ tab[t].revision \in Nat /\ \A q \in stray : q.base \in Nat
  BY DEF Rows, AudioTabs, Patches
<1>2. CASE ~Current(p)
  <2>1. row' = row
    BY <1>2 DEF Stored
  <2>. QED  BY <1>1, <2>1 DEF TabInv, Revisions, Underway, SavedForGood, StraysOf, Loading, Saving
<1>3. CASE Current(p)
  <2>1. row' \in Rows /\ row'.by = p.tab /\ row'.revision = row.revision + 1 /\ p.base = row.revision
    BY <1>1, <1>3 DEF Stored, Current, Rows, Patches
  <2>2. CASE p.tab # t
    <3>1. Revisions(t)'
      BY <1>1, <2>1, <2>2 DEF TabInv, Revisions, StraysOf, Loading, Saving
    <3>2. Underway(t)'
      <4>1. call[t] \in Calls
        OBVIOUS
      <4>2. call[t].kind \in {"got", "saved", "conflict"} => call[t].row.revision \in Nat
        BY <4>1 DEF Calls, Rows
      <4>. QED  BY <1>1, <2>1, <2>2, <4>2 DEF TabInv, Underway
    <3>3. SavedForGood(t)'
      BY <1>1, <2>1, <2>2 DEF TabInv, SavedForGood, StraysOf, Saving
    <3>. QED  BY <2>1, <3>1, <3>2, <3>3 DEF TabInv
  <2>3. CASE p \in StraysOf(t)
    <3>1. p.base <= tab[t].revision /\ tab[t].status # "saved" /\ call[t].kind # "saved" /\ tab[t].revision # Unloaded
      BY <1>1, <2>1, <2>3 DEF TabInv, Revisions, Underway, SavedForGood, StraysOf
    <3>2. Revisions(t)'
      BY <1>1, <2>1, <3>1 DEF TabInv, Revisions, StraysOf, Loading, Saving
    <3>3. Underway(t)'
      <4>1. call[t] \in Calls
        OBVIOUS
      <4>2. call[t].kind \in {"got", "saved", "conflict"} => call[t].row.revision \in Nat
        BY <4>1 DEF Calls, Rows
      <4>. QED  BY <1>1, <2>1, <3>1, <4>2 DEF TabInv, Underway
    <3>4. SavedForGood(t)'
      BY <3>1 DEF SavedForGood
    <3>. QED  BY <2>1, <3>2, <3>3, <3>4 DEF TabInv
  <2>. QED  BY <2>2, <2>3 DEF StraysOf
<1>. QED  BY <1>2, <1>3

LEMMA AudioSteps ==
    ASSUME AudioInv, [AudioNext]_audioVars
    PROVE  AudioInv'
<1>. USE AudioAssumption
<1>1. ASSUME NEW t \in Tabs, Edit(t)
      PROVE  AudioInv'
  <2>1. PICK p \in AudioTabs : p = [tab[t] EXCEPT !.value = @ + 1, !.dirty = TRUE, !.timer = TRUE, !.status = "saving"]
    <3>1. PICK n \in Nat : n = tab[t].value + 1
      BY DEF AudioInv, AudioTypes, AudioTabs
    <3>2. [tab[t] EXCEPT !.value = n, !.dirty = TRUE, !.timer = TRUE, !.status = "saving"] \in AudioTabs
      BY DEF AudioInv, AudioTypes, AudioTabs, Statuses
    <3>. QED  BY <3>1, <3>2
  <2>2. p.revision = tab[t].revision /\ p.dirty /\ p.status = "saving"
    BY <2>1 DEF AudioInv, AudioTypes, AudioTabs
  <2>3. tab' = [tab EXCEPT ![t] = p] /\ call' = [call EXCEPT ![t] = call[t]] /\ UNCHANGED <<row, stray>>
    BY <1>1, <2>1 DEF Edit, AudioInv, AudioTypes
  <2>4. tab'[t] = p /\ call'[t] = call[t]
    BY <2>3 DEF AudioInv, AudioTypes
  <2>5. TabInv(t)'
    BY <2>2, <2>3, <2>4 DEF AudioInv, TabInv, Revisions, Underway, SavedForGood, StraysOf, Loading, Saving
  <2>. QED  BY <2>3, <2>5, OneTab DEF AudioInv, AudioTypes
<1>2. ASSUME NEW t \in Tabs, TimerFires(t)
      PROVE  AudioInv'
  <2>1. PICK p \in AudioTabs : p = [tab[t] EXCEPT !.timer = FALSE]
    BY DEF AudioInv, AudioTypes, AudioTabs
  <2>2. p.value = tab[t].value /\ p.revision = tab[t].revision /\ p.dirty = tab[t].dirty /\ p.status = tab[t].status
    BY <2>1 DEF AudioInv, AudioTypes, AudioTabs
  <2>3. UNCHANGED <<row, stray>>
    BY <1>2 DEF TimerFires
  <2>4. CASE p.revision # Unloaded
    <3>1. PICK idle \in BOOLEAN : idle = ~Saving(t)
      BY DEF Saving
    <3>2. Flushed(t, p, idle)
      BY <1>2, <2>1, <2>4, <3>1 DEF TimerFires
    <3>. QED  BY <2>2, <2>3, <3>2, FlushedDoes DEF AudioInv, AudioTypes, AudioTabs, TabInv, Revisions, SavedForGood
  <2>5. CASE p.revision = Unloaded
    <3>1. PICK c \in Calls : c = IF Loading(t) THEN call[t] ELSE [kind |-> "get"]
      BY DEF AudioInv, AudioTypes, Calls
    <3>2. tab' = [tab EXCEPT ![t] = p] /\ call' = [call EXCEPT ![t] = c]
      BY <1>2, <2>1, <2>5, <3>1 DEF TimerFires, AudioInv, AudioTypes
    <3>3. tab'[t] = p /\ call'[t] = c
      BY <3>2 DEF AudioInv, AudioTypes
    <3>4. Revisions(t)'
      <4>1. c.kind \in {"get", "got"}
        BY <3>1 DEF Loading
      <4>. QED  BY <2>2, <2>3, <2>5, <3>3, <4>1 DEF AudioInv, TabInv, Revisions, StraysOf, Saving
    <3>5. Underway(t)' /\ SavedForGood(t)'
      BY <2>2, <2>3, <3>1, <3>3 DEF AudioInv, TabInv, Underway, SavedForGood, StraysOf, Loading, Saving
    <3>. QED  BY <2>3, <3>2, <3>4, <3>5, OneTab DEF TabInv
  <2>. QED  BY <2>4, <2>5
<1>3. ASSUME NEW t \in Tabs, Flush(t)
      PROVE  AudioInv'
  <2>1. PICK closes \in BOOLEAN : Flushed(t, [tab[t] EXCEPT !.timer = FALSE, !.closed = @ \/ closes], ~Saving(t) /\ ~Loading(t))
    BY <1>3 DEF Flush
  <2>2. PICK b \in BOOLEAN : b = (tab[t].closed \/ closes)
    BY DEF AudioInv, AudioTypes, AudioTabs
  <2>3. PICK p \in AudioTabs : p = [tab[t] EXCEPT !.timer = FALSE, !.closed = b]
    BY DEF AudioInv, AudioTypes, AudioTabs
  <2>4. p.value = tab[t].value /\ p.revision = tab[t].revision /\ p.dirty = tab[t].dirty /\ p.status = tab[t].status
    BY <2>3 DEF AudioInv, AudioTypes, AudioTabs
  <2>5. PICK idle \in BOOLEAN : idle = (~Saving(t) /\ ~Loading(t))
    BY DEF Saving, Loading
  <2>6. Flushed(t, p, idle) /\ UNCHANGED <<row, stray>>
    BY <1>3, <2>1, <2>2, <2>3, <2>5 DEF Flush
  <2>. QED  BY <2>4, <2>6, FlushedDoes DEF AudioInv, AudioTypes, AudioTabs, TabInv, Revisions, SavedForGood
<1>4. ASSUME NEW t \in Tabs, ReadRow(t)
      PROVE  AudioInv'
  <2>1. PICK c \in Calls : c = [kind |-> "got", row |-> row]
    BY DEF AudioInv, AudioTypes, Calls
  <2>2. call' = [call EXCEPT ![t] = c] /\ UNCHANGED <<row, stray>> /\ tab' = [tab EXCEPT ![t] = tab[t]] /\ call[t].kind = "get"
    BY <1>4, <2>1 DEF ReadRow, AudioInv, AudioTypes
  <2>3. tab'[t] = tab[t] /\ call'[t] = c /\ c.kind = "got" /\ c.row = row
    BY <2>1, <2>2 DEF AudioInv, AudioTypes
  <2>4. TabInv(t)'
    BY <2>2, <2>3 DEF AudioInv, AudioTypes, Rows, TabInv, Revisions, Underway, SavedForGood, StraysOf, Loading, Saving
  <2>. QED  BY <2>2, <2>4, OneTab DEF AudioInv, AudioTypes
<1>5. ASSUME NEW t \in Tabs, Loaded(t)
      PROVE  AudioInv'
  <2>1. /\ call[t].kind = "got" /\ call[t].row \in Rows /\ UNCHANGED <<row, stray>>
        /\ tab[t].revision = Unloaded /\ row.by # t /\ StraysOf(t) = {}
        /\ call[t].row.revision <= row.revision
    BY <1>5 DEF Loaded, AudioInv, AudioTypes, Calls, TabInv, Revisions, Underway, Loading
  <2>2. PICK r \in Nat \ {0} : r = call[t].row.revision
    BY <2>1 DEF Rows
  <2>3. PICK p \in AudioTabs :
            p = IF tab[t].dirty THEN [tab[t] EXCEPT !.revision = r] ELSE Status([tab[t] EXCEPT !.revision = r], "saved")
    BY DEF Status, AudioInv, AudioTypes, AudioTabs, Statuses
  <2>4. /\ p.value = tab[t].value /\ p.revision = r /\ p.dirty = tab[t].dirty
        /\ p.status # tab[t].status => ~p.dirty
    BY <2>3 DEF Status, AudioInv, AudioTypes, AudioTabs
  <2>5. Flushed(t, p, TRUE)
    BY <1>5, <2>2, <2>3 DEF Loaded, AfterLoad
  <2>6. p.status = "saved" => ~p.dirty
    BY <2>4 DEF AudioInv, TabInv, SavedForGood
  <2>7. tab[t].revision <= p.revision /\ p.revision <= row.revision
    BY <2>1, <2>2, <2>4 DEF Unloaded
  <2>8. p.status = "saved" => /\ ~p.dirty /\ (row.by = t => row.value = p.value)
                              /\ \A q \in StraysOf(t) : q.base < row.revision
    BY <2>1, <2>6
  <2>9. PICK idle \in BOOLEAN : idle = TRUE
    OBVIOUS
  <2>. QED  BY <2>1, <2>4, <2>5, <2>7, <2>8, <2>9, FlushedDoes
<1>6. ASSUME NEW t \in Tabs, Saved(t)
      PROVE  AudioInv'
  <2>1. /\ call[t].kind = "saved" /\ call[t].row \in Rows /\ UNCHANGED <<row, stray>>
        /\ tab[t].revision <= call[t].row.revision /\ call[t].row.revision <= row.revision
        /\ tab[t].revision < row.revision /\ tab[t].status # "saved"
        /\ tab[t].dirty \/ (row.by = t => row.value = tab[t].value)
        /\ \A q \in StraysOf(t) : q.base <= tab[t].revision
    BY <1>6 DEF Saved, AudioInv, AudioTypes, Calls, TabInv, Revisions, Underway, SavedForGood, Saving
  <2>2. PICK r \in Nat \ {0} : r = call[t].row.revision
    BY <2>1 DEF Rows
  <2>3. PICK m \in AudioTabs : m = [tab[t] EXCEPT !.revision = r]
    BY DEF AudioInv, AudioTypes, AudioTabs
  <2>4. PICK p \in AudioTabs : p = IF m.dirty THEN m ELSE Status([m EXCEPT !.conflicts = 0], "saved")
    BY DEF Status, AudioTabs, Statuses
  <2>5. Flushed(t, p, TRUE)
    BY <1>6, <2>2, <2>3, <2>4 DEF Saved, Settled
  <2>6. m.value = tab[t].value /\ m.revision = r /\ m.dirty = tab[t].dirty /\ m.status = tab[t].status
    BY <2>3 DEF AudioInv, AudioTypes, AudioTabs
  <2>7. /\ p.value = m.value /\ p.revision = m.revision /\ p.dirty = m.dirty
        /\ p.status # m.status => ~p.dirty
    BY <2>4 DEF Status, AudioTabs
  <2>8. \A q \in StraysOf(t) : q.base < row.revision
    BY <2>1 DEF AudioInv, AudioTypes, AudioTabs, Patches, Rows, StraysOf
  <2>9. p.status = "saved" => /\ ~p.dirty /\ (row.by = t => row.value = p.value)
                              /\ \A q \in StraysOf(t) : q.base < row.revision
    BY <2>1, <2>6, <2>7, <2>8
  <2>10. PICK idle \in BOOLEAN : idle = TRUE
    OBVIOUS
  <2>. QED  BY <2>1, <2>2, <2>5, <2>6, <2>7, <2>9, <2>10, FlushedDoes
<1>7. ASSUME NEW t \in Tabs, Conflict(t)
      PROVE  AudioInv'
  <2>1. /\ call[t].kind = "conflict" /\ call[t].row \in Rows /\ UNCHANGED <<row, stray>>
        /\ tab[t].revision <= call[t].row.revision /\ call[t].row.revision <= row.revision
        /\ tab[t].status # "saved" /\ tab[t].revision # Unloaded
        /\ \A q \in StraysOf(t) : q.base <= tab[t].revision
    BY <1>7 DEF Conflict, AudioInv, AudioTypes, Calls, TabInv, Revisions, Underway, SavedForGood, Saving
  <2>2. PICK r \in Nat \ {0} : r = call[t].row.revision
    BY <2>1 DEF Rows
  <2>3. PICK m \in AudioTabs : m = [tab[t] EXCEPT !.revision = r, !.dirty = TRUE]
    BY DEF AudioInv, AudioTypes, AudioTabs
  <2>4. m.value = tab[t].value /\ m.revision = r /\ m.dirty /\ m.status = tab[t].status
    BY <2>3 DEF AudioInv, AudioTypes, AudioTabs
  <2>5. CASE m.closed \/ m.conflicts = 2
    <3>1. PICK p \in AudioTabs : p = Status([m EXCEPT !.conflicts = 0], "not-saved")
      BY DEF Status, AudioTabs, Statuses
    <3>2. p.value = m.value /\ p.revision = r /\ p.dirty /\ p.status # "saved"
      BY <2>1, <2>4, <3>1 DEF Status, AudioTabs
    <3>3. tab' = [tab EXCEPT ![t] = p] /\ call' = [call EXCEPT ![t] = NoCall]
      BY <1>7, <2>2, <2>3, <2>5, <3>1 DEF Conflict
    <3>4. tab'[t] = p /\ call'[t] = NoCall /\ NoCall \in Calls
      BY <3>3 DEF AudioInv, AudioTypes, NoCall, Calls
    <3>5. \A q \in StraysOf(t) : q.base <= r
      BY <2>1, <2>2 DEF AudioInv, AudioTypes, AudioTabs, Patches, Rows, StraysOf
    <3>6. TabInv(t)'
      BY <2>1, <2>2, <3>2, <3>4, <3>5
      DEF NoCall, TabInv, Revisions, Underway, SavedForGood, StraysOf, Loading, Saving, Unloaded
    <3>. QED  BY <2>1, <3>3, <3>4, <3>6, OneTab
  <2>6. CASE ~(m.closed \/ m.conflicts = 2)
    <3>1. PICK n \in Nat : n = m.conflicts + 1
      BY DEF AudioTabs
    <3>2. PICK p \in AudioTabs : p = [m EXCEPT !.conflicts = n]
      BY DEF AudioTabs
    <3>3. p.value = m.value /\ p.revision = r /\ p.dirty = m.dirty /\ p.status = m.status
      BY <2>4, <3>2 DEF AudioTabs
    <3>4. PICK idle \in BOOLEAN : idle = TRUE
      OBVIOUS
    <3>5. Flushed(t, p, TRUE)
      BY <1>7, <2>2, <2>3, <2>6, <3>1, <3>2 DEF Conflict
    <3>. QED  BY <2>1, <2>2, <2>4, <3>3, <3>4, <3>5, FlushedDoes
  <2>. QED  BY <2>5, <2>6
<1>8. ASSUME NEW t \in Tabs, SaveRow(t)
      PROVE  AudioInv'
  <2>1. PICK p \in Patches : p = call[t].req
    BY <1>8 DEF SaveRow, AudioInv, AudioTypes, Calls
  <2>2. /\ call[t].kind = "patch" /\ UNCHANGED <<tab, stray>> /\ row' = Stored(p)
        /\ p.tab = t /\ p.base = tab[t].revision /\ (tab[t].dirty \/ p.value = tab[t].value)
        /\ call' = [call EXCEPT ![t] = [kind |-> IF Current(p) THEN "saved" ELSE "conflict", row |-> row']]
    BY <1>8, <2>1 DEF SaveRow, AudioInv, TabInv, Underway
  <2>3. row' \in Rows /\ (Current(p) => row'.value = p.value /\ row'.by = t /\ row'.revision = row.revision + 1)
                      /\ (~Current(p) => row' = row)
    BY <2>2 DEF Stored, AudioInv, AudioTypes, Rows, Patches
  <2>4. PICK c \in Calls : c = [kind |-> IF Current(p) THEN "saved" ELSE "conflict", row |-> row']
    <3>1. \A k \in {"saved", "conflict"} : [kind |-> k, row |-> row'] \in Calls
      BY <2>3 DEF Calls
    <3>2. (IF Current(p) THEN "saved" ELSE "conflict") \in {"saved", "conflict"}
      OBVIOUS
    <3>. QED  BY <3>1, <3>2
  <2>5. call' \in [Tabs -> Calls] /\ call'[t] = c /\ \A u \in Tabs \ {t} : call'[u] = call[u]
    BY <2>2, <2>4 DEF AudioInv, AudioTypes
  <2>6. \A u \in Tabs \ {t} : TabInv(u)'
    BY <2>2, <2>5, StoredDoes DEF AudioInv, AudioTypes
  <2>7. TabInv(t)'
    <3>1. /\ row.revision \in Nat /\ tab[t].revision \in Nat /\ tab[t].revision <= row.revision
          /\ tab[t].revision # Unloaded /\ tab[t].status # "saved" /\ \A q \in StraysOf(t) : q.base <= tab[t].revision
      BY <2>2 DEF AudioInv, AudioTypes, AudioTabs, Rows, TabInv, Revisions, SavedForGood, Saving
    <3>2. c.kind = (IF Current(p) THEN "saved" ELSE "conflict") /\ c.row = row'
      BY <2>4
    <3>3. Revisions(t)'
      BY <2>2, <2>3, <2>5, <3>1, <3>2 DEF Revisions, StraysOf, Loading, Saving
    <3>4. Underway(t)' /\ SavedForGood(t)'
      BY <2>2, <2>3, <2>5, <3>1, <3>2 DEF Underway, SavedForGood, Current
    <3>. QED  BY <3>3, <3>4 DEF TabInv
  <2>. QED  BY <2>2, <2>3, <2>5, <2>6, <2>7 DEF AudioInv, AudioTypes
<1>9. ASSUME NEW p \in stray, StrayArrives(p)
      PROVE  AudioInv'
  <2>1. row' = Stored(p) /\ stray' \subseteq stray /\ UNCHANGED <<tab, call>> /\ p \in Patches
    BY <1>9 DEF StrayArrives, AudioInv, AudioTypes
  <2>2. \A t \in Tabs : row' \in Rows /\ TabInv(t)'
    BY <2>1, StoredDoes
  <2>3. row' \in Rows
    BY <2>1 DEF Stored, AudioInv, AudioTypes, Rows, Patches
  <2>. QED  BY <2>1, <2>2, <2>3 DEF AudioInv, AudioTypes
<1>10. ASSUME NEW t \in Tabs, RequestFails(t)
       PROVE  AudioInv'
  <2>1. PICK b \in BOOLEAN : b = (tab[t].dirty \/ Saving(t))
    BY DEF Saving
  <2>2. PICK m \in AudioTabs : m = Status(tab[t], "not-saved")
    BY DEF Status, AudioInv, AudioTypes, AudioTabs, Statuses
  <2>3. m.value = tab[t].value /\ m.revision = tab[t].revision /\ m.dirty = tab[t].dirty
        /\ m.status \in {tab[t].status, "not-saved"}
    BY <2>2 DEF Status, AudioInv, AudioTypes, AudioTabs
  <2>4. PICK p \in AudioTabs : p = [m EXCEPT !.dirty = b, !.conflicts = 0]
    BY DEF AudioTabs
  <2>5. p.value = m.value /\ p.revision = m.revision /\ p.dirty = b /\ p.status = m.status
    BY <2>4 DEF AudioTabs
  <2>6. tab' = [tab EXCEPT ![t] = p] /\ call' = [call EXCEPT ![t] = NoCall] /\ UNCHANGED row
    BY <1>10, <2>1, <2>2, <2>3, <2>4 DEF RequestFails
  <2>7. /\ tab' \in [Tabs -> AudioTabs] /\ tab'[t] = p /\ \A u \in Tabs \ {t} : tab'[u] = tab[u]
        /\ call' \in [Tabs -> Calls] /\ call'[t] = NoCall /\ \A u \in Tabs \ {t} : call'[u] = call[u]
    BY <2>6 DEF AudioInv, AudioTypes, NoCall, Calls
  <2>8. \/ stray' = stray
        \/ /\ stray' = stray \cup {call[t].req} /\ call[t].kind = "patch"
           /\ call[t].req \in Patches /\ call[t].req.tab = t /\ call[t].req.base = tab[t].revision
    BY <1>10 DEF RequestFails, AudioInv, AudioTypes, Calls, TabInv, Underway
  <2>9. ASSUME NEW u \in Tabs \ {t}
        PROVE  TabInv(u)'
    <3>1. StraysOf(u)' = StraysOf(u)
      BY <2>8 DEF StraysOf
    <3>. QED  BY <2>6, <2>7, <3>1 DEF AudioInv, TabInv, Revisions, Underway, SavedForGood, Loading, Saving
  <2>10. TabInv(t)'
    <3>1. \A q \in StraysOf(t)' : q \in StraysOf(t) \/ (Saving(t) /\ q.base = tab[t].revision)
      BY <2>8 DEF StraysOf, Saving
    <3>2. Revisions(t)' /\ Underway(t)'
      BY <2>3, <2>5, <2>6, <2>7, <3>1
      DEF AudioInv, AudioTypes, AudioTabs, TabInv, Revisions, Underway, NoCall, Loading, Saving
    <3>3. SavedForGood(t)'
      BY <2>1, <2>3, <2>5, <2>6, <2>7, <3>1 DEF AudioInv, TabInv, SavedForGood, NoCall, Saving
    <3>. QED  BY <3>2, <3>3 DEF TabInv
  <2>11. stray' \subseteq Patches
    BY <2>8 DEF AudioInv, AudioTypes
  <2>. QED  BY <2>6, <2>7, <2>9, <2>10, <2>11 DEF AudioInv, AudioTypes
<1>11. CASE UNCHANGED audioVars
  BY <1>11, UntouchedTab DEF audioVars, AudioInv, AudioTypes
<1>. QED
  BY <1>1, <1>2, <1>3, <1>4, <1>5, <1>6, <1>7, <1>8, <1>9, <1>10, <1>11 DEF AudioNext

\* "Saved" is true: the revision a save is conditional on lets no earlier request of
\* the page, carried out late, change what the page calls saved.
THEOREM AudioSavedIsStoredHolds == AudioSpec => []AudioSavedIsStored
<1>1. AudioInv => AudioSavedIsStored
  BY DEF AudioInv, TabInv, SavedForGood, AudioSavedIsStored
<1>. QED  BY <1>1, AudioStarts, AudioSteps, PTL DEF AudioSpec
=================================================================================
