---------------------------- MODULE LiveQueueProofs ----------------------------
(***************************************************************************)
(* What holds of the live queue for any users, cars, devices, sessions and *)
(* time bounds: the queue and the drives never contradict each other, and  *)
(* offers go to the front of one strict order.                             *)
(***************************************************************************)
EXTENDS LiveQueue, DriveTablesProofs, FiniteSetTheorems

Rows == [Users -> [status: RowStatus, ttl: Nat]]
Orders == [Users -> SUBSET Users]

-----------------------------------------------------------------------------
(* The queue takes steps of the drive tables.                              *)

\* Whatever the web tier does to the tables is a session creation; the rest is
\* the gateway's, the devices' and the clock's.
LEMMA TablesStep == TypeOK /\ [Next]_vars => [TablesNext]_tables
<1>. SUFFICES ASSUME TypeOK, [Next]_vars PROVE [TablesNext]_tables
  OBVIOUS
<1>1. CASE UNCHANGED vars
  BY <1>1 DEF vars
<1>2. CASE QueueStep
  <2>1. CASE \E u \in Users : Join(u) \/ Read(u) \/ Leave(u)
    BY <2>1 DEF Join, Read, JoinOrRefresh, Leave
  <2>2. CASE \E u \in Users, c \in Cars : CreateBegin(u, c)
    BY <2>2 DEF CreateBegin
  <2>3. CASE CreateRefused \/ CreateLapsed
    BY <2>3 DEF CreateRefused, CreateLapsed
  <2>4. ASSUME NEW s \in Sessions, CreateGranted(s)
        PROVE  TablesNext
    <3>1. accepting.user \in Users /\ accepting.car \in Cars
      BY <2>4 DEF CreateGranted, TypeOK, QueueTypeOK
    <3>. QED  BY <2>4, <3>1 DEF CreateGranted, TablesNext
  <2>. QED  BY <1>2, <2>1, <2>2, <2>3, <2>4 DEF QueueStep
<1>3. CASE GatewayStep
  BY <1>3 DEF GatewayStep, QEndDriveSession, QExpireDriveSessions, TablesNext, SessionStep
<1>. QED  BY <1>1, <1>2, <1>3 DEF Next, QTick, TablesNext

-----------------------------------------------------------------------------
(* What advanceLiveQueue does to a row.                                    *)

\* Rows out of the queue are left alone, and no row in it becomes accepted.
LEMMA AdvancedRow ==
    ASSUME NEW r \in Rows, NEW a, NEW u \in Users
    PROVE  /\ Advanced(r, a)[u] \in [status: RowStatus, ttl: Nat]
           /\ u \notin InQueue(r) => Advanced(r, a)[u] = r[u]
           /\ u \in InQueue(r) => Advanced(r, a)[u].status # "accepted"
<1>1. r[u] \in [status: RowStatus, ttl: Nat]
  BY DEF Rows
<1>2. CASE u \notin InQueue(r)
  BY <1>1, <1>2 DEF Advanced, LeaseOver, Lapsed, Withdrawn, InQueue, LiveStatus
<1>3. CASE u \in InQueue(r)
  <2>1. r[u].status \in LiveStatus
    BY <1>3 DEF InQueue
  <2>2. \/ Advanced(r, a)[u] = r[u]
        \/ Advanced(r, a)[u] = [r[u] EXCEPT !.status = "expired"]
        \/ Advanced(r, a)[u] = [r[u] EXCEPT !.status = "missed"]
        \/ Advanced(r, a)[u] = [status |-> "waiting", ttl |-> QUEUE_LEASE]
        \/ Advanced(r, a)[u] = [status |-> "offered", ttl |-> QUEUE_OFFER]
    BY <1>3 DEF Advanced
  <2>. QED  BY <1>1, <1>3, <2>1, <2>2, QueueAssumption DEF RowStatus, LiveStatus
<1>. QED  BY <1>2, <1>3

\* The same for all the rows.
LEMMA AdvancedRows ==
    ASSUME NEW r \in Rows, NEW a
    PROVE  /\ Advanced(r, a) \in Rows
           /\ \A u \in Users : Advanced(r, a)[u].status = "accepted" <=> r[u].status = "accepted"
           /\ \A u \in Users : Advanced(r, a)[u].status \in LiveStatus => r[u].status \in LiveStatus
<1>1. Advanced(r, a) \in Rows
  <2>1. Advanced(r, a) = [u \in Users |-> Advanced(r, a)[u]]
    BY DEF Advanced
  <2>. HIDE DEF Advanced
  <2>. QED  BY <2>1, AdvancedRow DEF Rows
<1>2. ASSUME NEW u \in Users
      PROVE  /\ Advanced(r, a)[u].status = "accepted" <=> r[u].status = "accepted"
             /\ Advanced(r, a)[u].status \in LiveStatus => r[u].status \in LiveStatus
  BY AdvancedRow DEF InQueue, LiveStatus
<1>. QED  BY <1>1, <1>2

\* A commit writes rows and an order of the declared types.
LEMMA SetQueueTypes ==
    ASSUME NEW r \in Rows, NEW a \in Orders, NEW t \in SUBSET Users, SetQueue(r, a, t)
    PROVE  row' \in Rows /\ ahead' \in Orders /\ tied' \subseteq Users /\ row' = r
BY DEF SetQueue, Among, Orders

\* What is left of an order once rows drop out of the queue is an order.
LEMMA AmongOrders ==
    ASSUME NEW a \in Orders, NEW live
    PROVE  Among(a, live) \in Orders
BY DEF Among, Orders

\* So is an order with one more row at its tail, before some of the rows that
\* were inserted in the same instant.
LEMMA BehindOrders ==
    ASSUME NEW r \in Rows, NEW a \in Orders, NEW u \in Users, NEW after \in SUBSET InQueue(r)
    PROVE  BehindAllBut(after, r, a, u) \in Orders
BY DEF BehindAllBut, Orders, InQueue

\* A joining driver's row is a row, and so is a renewed one, of the same status.
LEMMA NewRows ==
    ASSUME NEW r \in Rows, NEW u \in Users
    PROVE  /\ Inserted(r, u) \in Rows
           /\ Renewed(r, u) \in Rows
           /\ \A v \in Users : Renewed(r, u)[v].status = r[v].status
<1>1. Inserted(r, u) \in Rows
  BY QueueAssumption DEF Inserted, Rows, RowStatus, LiveStatus
<1>2. CASE r[u].status = "waiting"
  <2>. DEFINE x == [r[u] EXCEPT !.ttl = QUEUE_LEASE]
  <2>1. Renewed(r, u) = [r EXCEPT ![u] = x]
    BY <1>2 DEF Renewed
  <2>2. x \in [status: RowStatus, ttl: Nat] /\ x.status = r[u].status
    BY QueueAssumption DEF Rows
  <2>. HIDE DEF x
  <2>. QED  BY <1>1, <2>1, <2>2 DEF Rows
<1>3. CASE r[u].status # "waiting"
  BY <1>1, <1>3 DEF Renewed
<1>. QED  BY <1>2, <1>3

-----------------------------------------------------------------------------
(* Steps of the web tier that create no session.                           *)

\* A user's row stays accepted or not, and stays out of the queue if it was,
\* with the same session; or a user that does not drive gets a new row.
KeptRow(u) ==
    /\ row'[u].status = "accepted" <=> row[u].status = "accepted"
    /\ row'[u].status \in LiveStatus => row[u].status \in LiveStatus
    /\ link'[u] = link[u]
NewRow(u) ==
    /\ ~Driving(u)
    /\ row'[u].status # "accepted"
    /\ link'[u] = None

QueueMove == \A u \in Users : KeptRow(u) \/ NewRow(u)

\* A join or a poll, whichever branch of joinOrRefresh it takes.
LEMMA JoinMoves ==
    ASSUME TypeOK, NEW u \in Users, NEW explicitJoin, JoinOrRefresh(u, explicitJoin)
    PROVE  QueueTypeOK' /\ QueueMove
<1>. DEFINE r == Advanced(row, ahead)
            a == Among(ahead, InQueue(r))
<1>. USE DEF TypeOK, QueueTypeOK
<1>1. row \in Rows /\ ahead \in Orders /\ link \in [Users -> Sessions \cup {None}]
  BY DEF Rows, Orders
<1>2. /\ r \in Rows
      /\ \A v \in Users : r[v].status = "accepted" <=> row[v].status = "accepted"
      /\ \A v \in Users : r[v].status \in LiveStatus => row[v].status \in LiveStatus
  BY <1>1, AdvancedRows
<1>3. a \in Orders
  BY <1>1, AmongOrders
<1>4. accepting' = accepting
  BY DEF JoinOrRefresh
<1>. HIDE DEF r, a
<1>5. CASE SetQueue(r, a, tied) /\ UNCHANGED link
  <2>1. row' = r /\ row' \in Rows /\ ahead' \in Orders /\ tied' \subseteq Users
    BY <1>2, <1>3, <1>5, SetQueueTypes
  <2>. QED  BY <1>2, <1>4, <1>5, <2>1 DEF QueueMove, KeptRow, Rows, Orders
<1>6. CASE u \in InQueue(r) /\ SetQueue(Advanced(Renewed(r, u), a), a, tied) /\ UNCHANGED link
  <2>1. /\ Renewed(r, u) \in Rows
        /\ \A v \in Users : Renewed(r, u)[v].status = r[v].status
    BY <1>2, NewRows
  <2>2. /\ Advanced(Renewed(r, u), a) \in Rows
        /\ \A v \in Users : Advanced(Renewed(r, u), a)[v].status = "accepted"
              <=> r[v].status = "accepted"
        /\ \A v \in Users : Advanced(Renewed(r, u), a)[v].status \in LiveStatus
              => r[v].status \in LiveStatus
    BY SMTT(20), <2>1, AdvancedRows
  <2>3. /\ row' = Advanced(Renewed(r, u), a)
        /\ row' \in Rows /\ ahead' \in Orders /\ tied' \subseteq Users
    BY <1>3, <1>6, <2>2, SetQueueTypes
  <2>. QED  BY <1>2, <1>4, <1>6, <2>2, <2>3 DEF QueueMove, KeptRow, Rows, Orders
<1>7. ASSUME ~Driving(u), NEW after \in TiedSuffixes(r, a),
             SetQueue(Advanced(Inserted(r, u), BehindAllBut(after, r, a, u)),
                      BehindAllBut(after, r, a, u), tied \cup {u}),
             link' = [link EXCEPT ![u] = None]
      PROVE  QueueTypeOK' /\ QueueMove
  <2>. DEFINE b == BehindAllBut(after, r, a, u)
  <2>1. b \in Orders
    BY <1>2, <1>3, <1>7, BehindOrders DEF TiedSuffixes
  <2>. HIDE DEF b
  <2>2. /\ Inserted(r, u) \in Rows
        /\ Inserted(r, u)[u].status # "accepted"
        /\ \A v \in Users \ {u} : Inserted(r, u)[v].status = r[v].status
    BY <1>2, NewRows DEF Inserted, Rows
  <2>3. /\ Advanced(Inserted(r, u), b) \in Rows
        /\ \A v \in Users : Advanced(Inserted(r, u), b)[v].status = "accepted"
              <=> Inserted(r, u)[v].status = "accepted"
        /\ \A v \in Users : Advanced(Inserted(r, u), b)[v].status \in LiveStatus
              => Inserted(r, u)[v].status \in LiveStatus
    BY <2>2, AdvancedRows
  <2>4. /\ row' = Advanced(Inserted(r, u), b)
        /\ row' \in Rows /\ ahead' \in Orders /\ tied' \subseteq Users
    <3>1. tied \cup {u} \in SUBSET Users
      OBVIOUS
    <3>. QED  BY <1>7, <2>1, <2>3, <3>1, SetQueueTypes DEF b
  <2>5. NewRow(u)
    BY <1>1, <1>7, <2>2, <2>3, <2>4 DEF NewRow
  <2>6. \A v \in Users \ {u} : KeptRow(v)
    BY <1>1, <1>2, <1>7, <2>2, <2>3, <2>4 DEF KeptRow
  <2>. QED
    BY <1>1, <1>4, <1>7, <2>4, <2>5, <2>6 DEF QueueMove, Rows, Orders
<1>. QED  BY <1>5, <1>6, <1>7 DEF JoinOrRefresh, r, a

\* Leaving, and the queue's advances within a session creation.
LEMMA OtherMoves ==
    ASSUME TypeOK,
           \/ \E u \in Users : Leave(u)
           \/ \E u \in Users, c \in Cars : CreateBegin(u, c)
           \/ CreateRefused
           \/ CreateLapsed
    PROVE  QueueTypeOK' /\ QueueMove
<1>. USE DEF TypeOK, QueueTypeOK
<1>1. row \in Rows /\ ahead \in Orders
  BY DEF Rows, Orders
<1>2. /\ Advanced(row, ahead) \in Rows
      /\ \A v \in Users : Advanced(row, ahead)[v].status = "accepted"
            <=> row[v].status = "accepted"
      /\ \A v \in Users : Advanced(row, ahead)[v].status \in LiveStatus
            => row[v].status \in LiveStatus
  BY <1>1, AdvancedRows
<1>3. ASSUME NEW u \in Users, Leave(u)
      PROVE  QueueTypeOK' /\ QueueMove
  <2>. DEFINE r == IF u \in InQueue(row)
                   THEN [row EXCEPT ![u] = [status |-> "left", ttl |-> 0]] ELSE row
              a == Among(ahead, InQueue(r))
  <2>1. /\ r \in Rows
        /\ \A v \in Users : r[v].status = "accepted" <=> row[v].status = "accepted"
        /\ \A v \in Users : r[v].status \in LiveStatus => row[v].status \in LiveStatus
    BY <1>1 DEF Rows, RowStatus, LiveStatus, InQueue
  <2>2. a \in Orders
    BY <1>1, AmongOrders
  <2>3. SetQueue(Advanced(r, a), a, tied) /\ UNCHANGED <<accepting, link>>
    BY <1>3 DEF Leave
  <2>. HIDE DEF r, a
  <2>4. /\ Advanced(r, a) \in Rows
        /\ \A v \in Users : Advanced(r, a)[v].status = "accepted" <=> r[v].status = "accepted"
        /\ \A v \in Users : Advanced(r, a)[v].status \in LiveStatus => r[v].status \in LiveStatus
    BY <2>1, AdvancedRows
  <2>5. /\ row' = Advanced(r, a)
        /\ row' \in Rows /\ ahead' \in Orders /\ tied' \subseteq Users
    BY <2>2, <2>3, <2>4, SetQueueTypes
  <2>. QED  BY <2>1, <2>3, <2>4, <2>5 DEF QueueMove, KeptRow, Rows, Orders
<1>4. ASSUME SetQueue(Advanced(row, ahead), ahead, tied), UNCHANGED link,
             accepting' \in [user: Users, car: Cars] \cup {None}
      PROVE  QueueTypeOK' /\ QueueMove
  <2>1. /\ row' = Advanced(row, ahead)
        /\ row' \in Rows /\ ahead' \in Orders /\ tied' \subseteq Users
    BY <1>1, <1>2, <1>4, SetQueueTypes
  <2>. QED  BY <1>2, <1>4, <2>1 DEF QueueMove, KeptRow, Rows, Orders
<1>5. ASSUME NEW u \in Users, NEW c \in Cars, CreateBegin(u, c)
      PROVE  QueueTypeOK' /\ QueueMove
  <2>1. accepting' \in [user: Users, car: Cars] \cup {None}
    BY <1>5 DEF CreateBegin
  <2>. QED  BY <1>4, <1>5, <2>1 DEF CreateBegin
<1>6. CASE CreateLapsed
  BY <1>4, <1>6 DEF CreateLapsed
<1>7. CASE CreateRefused
  BY <1>7 DEF CreateRefused, QueueMove, KeptRow
<1>. QED  BY <1>3, <1>5, <1>6, <1>7

-----------------------------------------------------------------------------
(* The invariant.                                                          *)

QueueInv == TypeOK /\ DriverNotQueued /\ AcceptedRowHasDrive

\* There are no rows and no drives to begin with.
LEMMA QueueInit == Init => QueueInv
<1>. SUFFICES ASSUME Init PROVE QueueInv
  OBVIOUS
<1>1. TypeOK
  BY TypeInit DEF Init, TypeOK, QueueTypeOK, RowStatus
<1>2. LiveSessions = {}
  BY DEF Init, TablesInit, LiveSessions, NoSession
<1>. QED
  BY <1>1, <1>2
  DEF Init, QueueInv, DriverNotQueued, AcceptedRowHasDrive, UnexpiredSessions

\* A step of the web tier that leaves the sessions alone queues nobody that
\* drives and accepts nothing.
LEMMA MoveKeeps ==
    ASSUME QueueInv, QueueMove, UNCHANGED tables
    PROVE  (DriverNotQueued /\ AcceptedRowHasDrive)'
<1>. USE DEF QueueInv
<1>1. UNCHANGED <<session, LiveSessions, UnexpiredSessions>>
  BY DEF tables, LiveSessions, UnexpiredSessions
<1>2. DriverNotQueued'
  <2>1. ASSUME NEW s \in UnexpiredSessions, session[s].user \in InQueue(row')
        PROVE  FALSE
    <3>. DEFINE u == session[s].user
    <3>1. u \in Users /\ row'[u].status \in LiveStatus /\ Driving(u)
      BY <2>1 DEF InQueue, Driving
    <3>2. KeptRow(u)
      BY <3>1 DEF QueueMove, NewRow
    <3>. QED  BY <2>1, <3>1, <3>2 DEF KeptRow, DriverNotQueued, InQueue
  <2>. QED  BY <1>1, <2>1 DEF DriverNotQueued
<1>3. AcceptedRowHasDrive'
  <2>1. None \notin LiveSessions
    BY TablesAssumption DEF LiveSessions
  <2>. QED
    BY <1>1, <2>1 DEF AcceptedRowHasDrive, QueueMove, KeptRow, NewRow
<1>. QED  BY <1>2, <1>3

\* A user's link leads to a live session or nowhere.
LEMMA LinksLive ==
    ASSUME QueueInv, NEW u \in Users, link[u] # None
    PROVE  link[u] \in LiveSessions
BY TablesAssumption
DEF QueueInv, TypeOK, QueueTypeOK, TablesTypeOK, AcceptedRowHasDrive, LiveSessions,
    NoSession, SessionRow

\* The new session belongs to the driver whose row becomes accepted, and is
\* nobody else's: an id with a link to it is taken.
LEMMA GrantKeeps ==
    ASSUME QueueInv, NEW s \in Sessions, CreateGranted(s)
    PROVE  QueueTypeOK' /\ DriverNotQueued' /\ AcceptedRowHasDrive'
<1>. DEFINE u == accepting.user
<1>. USE DEF QueueInv
<1>1. u \in Users /\ accepting.car \in Cars
  BY DEF CreateGranted, TypeOK, QueueTypeOK
<1>2. /\ row' = [row EXCEPT ![u] = [row[u] EXCEPT !.status = "accepted"]]
      /\ row'[u].status = "accepted"
      /\ row' \in Rows
  <2>. DEFINE x == [row[u] EXCEPT !.status = "accepted"]
  <2>1. row \in Rows
    BY DEF TypeOK, QueueTypeOK, Rows
  <2>2. x \in [status: RowStatus, ttl: Nat] /\ x.status = "accepted"
    BY <1>1, <2>1 DEF Rows, RowStatus
  <2>3. row' = [row EXCEPT ![u] = x]
    BY <1>1 DEF CreateGranted, SetQueue
  <2>. HIDE DEF x
  <2>4. row'[u].status = "accepted" /\ row' \in Rows
    BY <1>1, <2>1, <2>2, <2>3 DEF Rows
  <2>. QED  BY <2>3, <2>4 DEF x
<1>3. /\ link' = [link EXCEPT ![u] = s]
      /\ accepting' = None
  BY DEF CreateGranted
<1>4. /\ s \notin LiveSessions
      /\ \A t \in Sessions \ {s} : session'[t] = session[t]
      /\ session'[s].status = "created" /\ session'[s].user = u
  BY <1>1 DEF CreateGranted, CreateSession, TypeOK, TablesTypeOK
<1>5. LiveSessions' = LiveSessions \cup {s}
  BY <1>4 DEF LiveSessions
<1>6. QueueTypeOK'
  <2>1. ahead' \in [Users -> SUBSET Users] /\ tied' \subseteq Users
    BY DEF CreateGranted, SetQueue, Among, TypeOK, QueueTypeOK
  <2>. QED  BY <1>2, <1>3, <2>1 DEF TypeOK, QueueTypeOK, Rows
<1>7. \A v \in Users \ {u} : row'[v] = row[v] /\ link'[v] = link[v] /\ link[v] # s
  BY <1>1, <1>2, <1>3, <1>4, LinksLive, TablesAssumption DEF TypeOK, QueueTypeOK
<1>8. AcceptedRowHasDrive'
  <2>1. ASSUME NEW v \in Users
        PROVE  /\ row'[v].status = "accepted" <=> link'[v] \in LiveSessions'
               /\ link'[v] # None => session'[link'[v]].user = v
    <3>1. CASE v = u
      BY <1>1, <1>2, <1>3, <1>4, <1>5, <3>1 DEF TypeOK, QueueTypeOK
    <3>2. CASE v # u
      <4>1. row'[v] = row[v] /\ link'[v] = link[v] /\ link[v] # s
        BY <1>7, <3>2
      <4>. QED  BY <1>4, <1>5, <4>1, LinksLive DEF AcceptedRowHasDrive, LiveSessions
    <3>. QED  BY <3>1, <3>2
  <2>. QED  BY <2>1 DEF AcceptedRowHasDrive
<1>9. DriverNotQueued'
  <2>1. ASSUME NEW t \in UnexpiredSessions', session'[t].user \in InQueue(row')
        PROVE  FALSE
    <3>1. session'[t].user # u
      BY <1>2, <2>1 DEF InQueue, LiveStatus
    <3>2. t \in UnexpiredSessions /\ session'[t] = session[t]
      BY <1>4, <1>5, <2>1, <3>1 DEF UnexpiredSessions, LiveSessions
    <3>3. session[t].user \in InQueue(row)
      BY <1>7, <2>1, <3>1, <3>2 DEF InQueue
    <3>. QED  BY <3>2, <3>3 DEF DriverNotQueued
  <2>. QED  BY <2>1 DEF DriverNotQueued
<1>. QED  BY <1>6, <1>8, <1>9

\* A row leaves with its session, and every other keeps its own.
LEMMA ReleaseKeeps ==
    ASSUME QueueInv, NEW ss \in SUBSET LiveSessions, EndSessions(ss), Released(ss)
    PROVE  QueueTypeOK' /\ DriverNotQueued' /\ AcceptedRowHasDrive'
<1>. USE DEF QueueInv
<1>1. /\ \A s \in Sessions : session'[s] = IF s \in ss THEN NoSession ELSE session[s]
      /\ LiveSessions' = LiveSessions \ ss
  BY DEF EndSessions, LiveSessions, NoSession
<1>2. /\ row' \in Rows
      /\ \A u \in Users : link[u] \in ss => row'[u].status = "left" /\ link'[u] = None
      /\ \A u \in Users : link[u] \notin ss => row'[u] = row[u] /\ link'[u] = link[u]
  BY DEF Released, TypeOK, QueueTypeOK, Rows, RowStatus
<1>3. QueueTypeOK'
  BY <1>2 DEF Released, TypeOK, QueueTypeOK, Rows
<1>4. None \notin Sessions
  BY TablesAssumption
<1>5. AcceptedRowHasDrive'
  <2>1. ASSUME NEW u \in Users
        PROVE  /\ row'[u].status = "accepted" <=> link'[u] \in LiveSessions'
               /\ link'[u] # None => session'[link'[u]].user = u
    <3>1. CASE link[u] \in ss
      BY <1>1, <1>2, <1>4, <3>1 DEF LiveSessions
    <3>2. CASE link[u] \notin ss
      BY <1>1, <1>2, <3>2, LinksLive DEF AcceptedRowHasDrive, LiveSessions
    <3>. QED  BY <3>1, <3>2
  <2>. QED  BY <2>1 DEF AcceptedRowHasDrive
<1>6. DriverNotQueued'
  <2>1. ASSUME NEW s \in UnexpiredSessions', session'[s].user \in InQueue(row')
        PROVE  FALSE
    <3>1. s \in UnexpiredSessions /\ session'[s] = session[s]
      BY <1>1, <2>1 DEF UnexpiredSessions, LiveSessions
    <3>2. session[s].user \in InQueue(row)
      BY <1>2, <2>1, <3>1 DEF InQueue, LiveStatus
    <3>. QED  BY <3>1, <3>2 DEF DriverNotQueued
  <2>. QED  BY <2>1 DEF DriverNotQueued
<1>. QED  BY <1>3, <1>5, <1>6

\* A step that starts and ends no session and leaves every row's status alone.
LEMMA QuietKeeps ==
    ASSUME QueueInv, link' = link,
           \A u \in Users : row'[u].status = row[u].status,
           \A s \in Sessions : /\ s \in LiveSessions' <=> s \in LiveSessions
                               /\ s \in UnexpiredSessions' => s \in UnexpiredSessions
                               /\ session'[s].user = session[s].user
    PROVE  DriverNotQueued' /\ AcceptedRowHasDrive'
<1>. USE DEF QueueInv
<1>1. DriverNotQueued'
  <2>1. ASSUME NEW s \in UnexpiredSessions', session'[s].user \in InQueue(row')
        PROVE  FALSE
    <3>1. s \in UnexpiredSessions /\ session'[s].user = session[s].user
      BY <2>1 DEF UnexpiredSessions, LiveSessions
    <3>2. session[s].user \in InQueue(row)
      BY <2>1, <3>1 DEF InQueue
    <3>. QED  BY <3>1, <3>2 DEF DriverNotQueued
  <2>. QED  BY <2>1 DEF DriverNotQueued
<1>2. AcceptedRowHasDrive'
  <2>1. ASSUME NEW u \in Users
        PROVE  /\ row'[u].status = "accepted" <=> link'[u] \in LiveSessions'
               /\ link'[u] # None => session'[link'[u]].user = u
    <3>1. CASE link[u] = None
      <4>1. None \notin LiveSessions /\ None \notin LiveSessions'
        BY TablesAssumption DEF LiveSessions
      <4>. QED  BY <3>1, <4>1 DEF AcceptedRowHasDrive
    <3>2. CASE link[u] # None
      <4>1. link[u] \in Sessions /\ link[u] \in LiveSessions
        BY <3>2, LinksLive DEF LiveSessions
      <4>2. link[u] \in LiveSessions' /\ session'[link[u]].user = session[link[u]].user
        BY <4>1
      <4>. QED  BY <3>2, <4>1, <4>2 DEF AcceptedRowHasDrive
    <3>. QED  BY <3>1, <3>2
  <2>. QED  BY <2>1 DEF AcceptedRowHasDrive
<1>. QED  BY <1>1, <1>2

\* Time brings every deadline nearer and changes nobody's status.
LEMMA TickKeepsQueue ==
    ASSUME QueueInv, QTick
    PROVE  QueueTypeOK' /\ DriverNotQueued' /\ AcceptedRowHasDrive'
<1>. USE DEF QueueInv
<1>1. ASSUME NEW u \in Users
      PROVE  row'[u] \in [status: RowStatus, ttl: Nat] /\ row'[u].status = row[u].status
  <2>1. row[u] \in [status: RowStatus, ttl: Nat]
    BY DEF TypeOK, QueueTypeOK
  <2>2. Dec(row[u].ttl) \in Nat
    BY <2>1, SMT DEF Dec
  <2>3. row'[u] = [row[u] EXCEPT !.ttl = Dec(row[u].ttl)]
    BY DEF QTick
  <2>. QED  BY <2>1, <2>2, <2>3
<1>2. QueueTypeOK'
  BY <1>1 DEF QTick, TypeOK, QueueTypeOK
<1>3. ASSUME NEW s \in Sessions
      PROVE  /\ s \in LiveSessions' <=> s \in LiveSessions
             /\ s \in UnexpiredSessions' => s \in UnexpiredSessions
             /\ session'[s].user = session[s].user
  <2>1. /\ session'[s].status = session[s].status
        /\ session'[s].user = session[s].user
    BY TickKeeps DEF TypeOK, QTick
  <2>2. s \in LiveSessions => session'[s].ttl = Dec(session[s].ttl) /\ session[s].ttl \in Nat
    <3>1. ASSUME s \in LiveSessions
          PROVE  session'[s].ttl = Dec(session[s].ttl) /\ session[s].ttl \in Nat
      <4>1. session[s] \in SessionRow
        BY <3>1, LiveRows DEF TypeOK
      <4>2. PICK i : session'[s] = [session[s] EXCEPT !.ttl = Dec(session[s].ttl), !.idle = i]
        BY DEF QTick, Tick
      <4>. QED  BY <4>1, <4>2, TablesAssumption DEF SessionRow
    <3>. QED  BY <3>1
  <2>3. Dec(0) = 0
    BY DEF Dec
  <2>. QED  BY <2>1, <2>2, <2>3 DEF LiveSessions, UnexpiredSessions
<1>. QED  BY <1>1, <1>2, <1>3, QuietKeeps DEF QTick

\* The gateway moves drives on or ends them, with their rows.
LEMMA GatewayKeeps ==
    ASSUME QueueInv, GatewayStep \/ (UNCHANGED queueVars /\ GatewayStops) \/ UNCHANGED vars
    PROVE  QueueTypeOK' /\ DriverNotQueued' /\ AcceptedRowHasDrive'
<1>. USE DEF QueueInv
<1>1. ASSUME NEW s \in Sessions, UNCHANGED queueVars,
             AuthorizeDriveSession(s) \/ MarkDriveSessionActive(s)
      PROVE  QueueTypeOK' /\ DriverNotQueued' /\ AcceptedRowHasDrive'
  <2>1. s \in LiveSessions /\ session[s] \in SessionRow
    BY <1>1, LiveRows
    DEF AuthorizeDriveSession, MarkDriveSessionActive, Activatable, LiveSessions, TypeOK
  <2>2. PICK status \in {"negotiating", "active"} :
            session' = [session EXCEPT ![s].status = status, ![s].idle = 0]
    BY <1>1 DEF AuthorizeDriveSession, MarkDriveSessionActive
  <2>3. \A t \in Sessions \ {s} : session'[t] = session[t]
    BY <2>1, <2>2 DEF TypeOK, TablesTypeOK
  <2>4. /\ session'[s].status # "ended"
        /\ session'[s].user = session[s].user /\ session'[s].ttl = session[s].ttl
    BY <2>1, <2>2 DEF TypeOK, TablesTypeOK, SessionRow
  <2>5. \A t \in Sessions : /\ t \in LiveSessions' <=> t \in LiveSessions
                            /\ t \in UnexpiredSessions' => t \in UnexpiredSessions
                            /\ session'[t].user = session[t].user
    BY <2>1, <2>3, <2>4 DEF LiveSessions, UnexpiredSessions
  <2>. QED  BY <1>1, <2>5, QuietKeeps DEF queueVars, TypeOK, QueueTypeOK
<1>2. ASSUME NEW s \in Sessions, QEndDriveSession(s)
      PROVE  QueueTypeOK' /\ DriverNotQueued' /\ AcceptedRowHasDrive'
  BY <1>2, ReleaseKeeps DEF QEndDriveSession, EndDriveSession
<1>3. CASE QExpireDriveSessions
  BY <1>3, ReleaseKeeps DEF QExpireDriveSessions, ExpireDriveSessions, ExpirableSessions
<1>4. CASE UNCHANGED queueVars /\ (DeviceStep \/ GatewayStops \/ UNCHANGED tables)
  <2>1. UNCHANGED session
    BY <1>4
    DEF DeviceStep, AuthenticateDevice, RecordHeartbeat, SetDevicePresence, SetCarPresence,
        MarkDeviceOffline, MarkCarOffline, GatewayStops, tables
  <2>. QED
    BY <1>4, <2>1, QuietKeeps DEF queueVars, TypeOK, QueueTypeOK, LiveSessions, UnexpiredSessions
<1>. QED  BY <1>1, <1>2, <1>3, <1>4 DEF GatewayStep, vars

\* Every step keeps the invariant.
LEMMA QueueNext == QueueInv /\ [Next]_vars => QueueInv'
<1>. SUFFICES ASSUME QueueInv, [Next]_vars PROVE QueueInv'
  OBVIOUS
<1>. USE DEF QueueInv
<1>1. TablesTypeOK'
  BY TablesStep, TypeNext DEF TypeOK
<1>2. CASE QueueStep
  <2>1. ASSUME QueueTypeOK' /\ QueueMove, UNCHANGED tables
        PROVE  QueueInv'
    BY <1>1, <2>1, MoveKeeps DEF TypeOK
  <2>2. ASSUME NEW u \in Users, Join(u) \/ Read(u)
        PROVE  QueueInv'
    BY <2>1, <2>2, JoinMoves DEF Join, Read, JoinOrRefresh
  <2>3. ASSUME NEW u \in Users, Leave(u)
        PROVE  QueueInv'
    BY <2>1, <2>3, OtherMoves DEF Leave
  <2>4. ASSUME NEW u \in Users, NEW c \in Cars, CreateBegin(u, c)
        PROVE  QueueInv'
    BY <2>1, <2>4, OtherMoves DEF CreateBegin
  <2>5. CASE CreateRefused \/ CreateLapsed
    BY <2>1, <2>5, OtherMoves DEF CreateRefused, CreateLapsed
  <2>6. ASSUME NEW s \in Sessions, CreateGranted(s)
        PROVE  QueueInv'
    BY <1>1, <2>6, GrantKeeps DEF TypeOK
  <2>. QED  BY <1>2, <2>2, <2>3, <2>4, <2>5, <2>6 DEF QueueStep
<1>. QED
  BY <1>1, <1>2, GatewayKeeps, TickKeepsQueue DEF Next, TypeOK

\* Every queue row, link and order keeps to its declared values.
THEOREM TypesHold == Spec => []TypeOK
<1>1. QueueInv => TypeOK
  BY DEF QueueInv
<1>. QED  BY <1>1, QueueInit, QueueNext, PTL DEF Spec

\* No poll, join, second tab or late answer of the queue queues a user that
\* drives, and no session is made for a user who keeps a place.
THEOREM DriverNotQueuedHolds == Spec => []DriverNotQueued
<1>1. QueueInv => DriverNotQueued
  BY DEF QueueInv
<1>. QED  BY <1>1, QueueInit, QueueNext, PTL DEF Spec

\* A row is accepted exactly as long as the session made from it lives.
THEOREM AcceptedRowHasDriveHolds == Spec => []AcceptedRowHasDrive
<1>1. QueueInv => AcceptedRowHasDrive
  BY DEF QueueInv
<1>. QED  BY <1>1, QueueInit, QueueNext, PTL DEF Spec

\* The queue implements the tables: every step of it is one of theirs, or
\* leaves them alone, so that what they promise holds of it.
THEOREM ImplementsTables == Spec => TablesSpec
<1>1. Init => TablesInit
  BY DEF Init
<1>2. QueueInv => TypeOK
  BY DEF QueueInv
<1>. QED  BY <1>1, <1>2, QueueInit, QueueNext, TablesStep, PTL DEF Spec, TablesSpec

-----------------------------------------------------------------------------
(* The queue is one strict order with the offers at its front.             *)

\* QueueOrder, of any rows and order.
OrderOn(r, a) ==
    /\ \A u \in Users : a[u] \subseteq InQueue(r) \ {u}
    /\ \A u, v \in InQueue(r) : u # v => (u \in a[v] <=> v \notin a[u])
    /\ \A u, v, w \in InQueue(r) : u \in a[v] /\ v \in a[w] => u \in a[w]

\* The rows that stay keep their order.
LEMMA AmongOrdered ==
    ASSUME NEW r, NEW q, NEW a, OrderOn(r, a), InQueue(q) \subseteq InQueue(r)
    PROVE  OrderOn(q, Among(a, InQueue(q)))
<1>. DEFINE b == Among(a, InQueue(q))
<1>1. \A u \in Users : b[u] = IF u \in InQueue(q) THEN a[u] \cap InQueue(q) ELSE {}
  BY DEF Among
<1>2. InQueue(q) \subseteq Users
  BY DEF InQueue
<1>. HIDE DEF b
<1>3. ASSUME NEW u \in Users
      PROVE  b[u] \subseteq InQueue(q) \ {u}
  <2>1. u \notin a[u]
    BY DEF OrderOn
  <2>. QED  BY <1>1, <2>1
<1>4. \A u \in InQueue(q) : b[u] = a[u] \cap InQueue(q)
  BY <1>1, <1>2
<1>5. \A u, v \in InQueue(q) : u # v => (u \in b[v] <=> v \notin b[u])
  BY <1>4 DEF OrderOn
<1>6. \A u, v, w \in InQueue(q) : u \in b[v] /\ v \in b[w] => u \in b[w]
  BY <1>4 DEF OrderOn
<1>7. OrderOn(q, b)
  BY <1>3, <1>5, <1>6 DEF OrderOn
<1>. QED  BY <1>7 DEF b

\* The newcomer's place, before a suffix of the rows of the same instant, keeps
\* the order strict and total.
LEMMA BehindOrdered ==
    ASSUME NEW r \in Rows, NEW a, OrderOn(r, a), NEW u \in Users, u \notin InQueue(r),
           NEW after \in TiedSuffixes(r, a)
    PROVE  OrderOn(Inserted(r, u), BehindAllBut(after, r, a, u))
<1>. DEFINE b == BehindAllBut(after, r, a, u)
<1>1. InQueue(Inserted(r, u)) = InQueue(r) \cup {u}
  BY DEF Inserted, Rows, InQueue, LiveStatus
<1>2. /\ after \subseteq InQueue(r)
      /\ \A v \in after, w \in InQueue(r) : v \in a[w] => w \in after
  BY DEF TiedSuffixes
<1>3. InQueue(r) \subseteq Users
  BY DEF InQueue
<1>4. /\ b[u] = InQueue(r) \ after
      /\ \A v \in after : b[v] = a[v] \cup {u}
      /\ \A v \in Users \ (after \cup {u}) : b[v] = a[v]
  <2>1. \A v \in Users : u \notin a[v]
    BY DEF OrderOn
  <2>. QED  BY <1>2, <1>3, <2>1 DEF BehindAllBut
<1>. HIDE DEF b
<1>5. \A v \in Users : b[v] \subseteq (InQueue(r) \cup {u}) \ {v}
  BY <1>2, <1>3, <1>4 DEF OrderOn
<1>6. ASSUME NEW v \in InQueue(r) \cup {u}, NEW w \in InQueue(r) \cup {u}, v # w
      PROVE  v \in b[w] <=> w \notin b[v]
  BY <1>2, <1>3, <1>4, <1>6 DEF OrderOn
<1>7. ASSUME NEW v \in InQueue(r) \cup {u}, NEW w \in InQueue(r) \cup {u},
             NEW x \in InQueue(r) \cup {u}, v \in b[w], w \in b[x]
      PROVE  v \in b[x]
  <2>1. CASE v = u
    BY <1>2, <1>3, <1>4, <1>7, <2>1 DEF OrderOn
  <2>2. CASE w = u
    <3>1. v \in InQueue(r) \ after /\ x \in after
      BY <1>2, <1>3, <1>4, <1>7, <2>2 DEF OrderOn
    <3>2. v \in a[x]
      BY <1>2, <3>1 DEF OrderOn
    <3>. QED  BY <1>4, <3>1, <3>2
  <2>3. CASE x = u
    BY <1>2, <1>3, <1>4, <1>7, <2>3 DEF OrderOn
  <2>4. CASE v # u /\ w # u /\ x # u
    BY <1>2, <1>3, <1>4, <1>7, <2>4 DEF OrderOn
  <2>. QED  BY <2>1, <2>2, <2>3, <2>4
<1>8. OrderOn(Inserted(r, u), b)
  BY <1>1, <1>5, <1>6, <1>7 DEF OrderOn
<1>. QED  BY <1>8 DEF b

\* Fewer rows count against a row than against any row behind it.
LEMMA EligibleBefore ==
    ASSUME NEW r, NEW a, OrderOn(r, a), NEW u \in InQueue(r), NEW v \in InQueue(r),
           v \in a[u], Eligible(r, a, u)
    PROVE  Eligible(r, a, v)
<1>. DEFINE Before(w) == {x \in a[w] \cap InQueue(r) : ~LeaseOver(r, x) /\ ~Lapsed(r, x)}
<1>1. Before(v) \subseteq Before(u)
  BY DEF OrderOn
<1>2. IsFiniteSet(Before(u))
  <2>1. Before(u) \subseteq Users
    BY DEF InQueue
  <2>. QED  BY <2>1, FS_Subset, TablesAssumption
<1>3. Cardinality(AvailableCars) \in Nat
  BY FS_Subset, FS_CardinalityType, TablesAssumption DEF AvailableCars
<1>4. /\ Cardinality(Before(v)) \in Nat /\ Cardinality(Before(u)) \in Nat
      /\ Cardinality(Before(v)) <= Cardinality(Before(u))
  BY <1>1, <1>2, FS_Subset, FS_CardinalityType
<1>. QED  BY <1>4, <1>3 DEF Eligible

\* A live row that an advance drops had run out; one that it keeps has time left,
\* is offered a car exactly if it was eligible, and keeps an offer as it was.
LEMMA AdvancedLive ==
    ASSUME NEW r \in Rows, NEW a, NEW u \in InQueue(r)
    PROVE  /\ Advanced(r, a)[u].status \notin LiveStatus => r[u].ttl = 0
           /\ Advanced(r, a)[u].status \in LiveStatus =>
                 /\ ~LeaseOver(r, u) /\ (Lapsed(r, u) => ~Eligible(r, a, u))
                 /\ Advanced(r, a)[u].ttl > 0
                 /\ Advanced(r, a)[u].status = "offered" <=> Eligible(r, a, u)
                 /\ Advanced(r, a)[u].status = "offered" /\ r[u].status = "offered"
                       => Advanced(r, a)[u] = r[u]
           /\ Advanced(r, a)[u].status = "missed" => r[u].status = "offered"
           /\ Advanced(r, a)[u].status = "expired" => r[u].status = "waiting"
<1>1. /\ u \in Users /\ r[u] \in [status: RowStatus, ttl: Nat]
      /\ r[u].status = "waiting" \/ r[u].status = "offered"
  BY DEF InQueue, Rows, LiveStatus
<1>2. CASE LeaseOver(r, u)
  <2>1. Advanced(r, a)[u] = [r[u] EXCEPT !.status = "expired"]
    BY <1>1, <1>2 DEF Advanced, LeaseOver, Lapsed, Withdrawn
  <2>. QED  BY <1>1, <1>2, <2>1 DEF LiveStatus, LeaseOver
<1>3. CASE Lapsed(r, u) /\ Eligible(r, a, u)
  <2>1. Advanced(r, a)[u] = [r[u] EXCEPT !.status = "missed"]
    BY <1>1, <1>3 DEF Advanced, LeaseOver, Lapsed, Withdrawn
  <2>2. r[u].status = "offered" /\ r[u].ttl = 0 /\ ~LeaseOver(r, u)
    BY <1>3 DEF Lapsed, LeaseOver
  <2>3. Advanced(r, a)[u].status = "missed" /\ "missed" \notin LiveStatus
    BY <1>1, <2>1 DEF LiveStatus
  <2>. QED  BY <2>2, <2>3
<1>4. CASE Withdrawn(r, a, u)
  <2>1. Advanced(r, a)[u] = [status |-> "waiting", ttl |-> QUEUE_LEASE]
    BY <1>1, <1>4 DEF Advanced, LeaseOver, Lapsed, Withdrawn, InQueue
  <2>. QED  BY <1>1, <1>4, <2>1, QueueAssumption DEF Withdrawn, LeaseOver, LiveStatus
<1>5. CASE r[u].status = "waiting" /\ ~LeaseOver(r, u) /\ Eligible(r, a, u)
  <2>1. Advanced(r, a)[u] = [status |-> "offered", ttl |-> QUEUE_OFFER]
    BY <1>1, <1>5 DEF Advanced, LeaseOver, Lapsed, Withdrawn, InQueue
  <2>. QED  BY <1>1, <1>5, <2>1, QueueAssumption DEF Lapsed, LiveStatus
<1>6. CASE /\ ~LeaseOver(r, u) /\ ~(Lapsed(r, u) /\ Eligible(r, a, u)) /\ ~Withdrawn(r, a, u)
           /\ ~(r[u].status = "waiting" /\ ~LeaseOver(r, u) /\ Eligible(r, a, u))
  <2>1. Advanced(r, a)[u] = r[u]
    BY <1>1, <1>6 DEF Advanced
  <2>. QED  BY <1>1, <1>6, <2>1 DEF Withdrawn, LiveStatus, LeaseOver, Lapsed
<1>. QED  BY <1>2, <1>3, <1>4, <1>5, <1>6

\* A queue transaction that ends with an advance leaves the order strict and the
\* offers at its front, whatever the offers were before.
LEMMA AdvanceCommits ==
    ASSUME NEW r \in Rows, NEW a, OrderOn(r, a), NEW t, SetQueue(Advanced(r, a), a, t)
    PROVE  QueueOrder' /\ OffersAtTheFront'
<1>. DEFINE q == Advanced(r, a)
<1>1. \A u \in Users : u \in InQueue(q) => u \in InQueue(r)
  BY AdvancedRows DEF InQueue
<1>2. InQueue(q) \subseteq InQueue(r)
  BY <1>1 DEF InQueue
<1>3. row' = q /\ ahead' = Among(a, InQueue(q))
  BY DEF SetQueue
<1>4. OrderOn(q, Among(a, InQueue(q)))
  BY <1>2, AmongOrdered
<1>5. ASSUME NEW u \in Offered(q), NEW v \in Among(a, InQueue(q))[u]
      PROVE  v \in Offered(q)
  <2>1. u \in InQueue(q) /\ u \in Users
    BY DEF Offered, InQueue, LiveStatus
  <2>2. v \in a[u] /\ v \in InQueue(q) /\ v \in Users
    BY <1>5, <2>1 DEF Among, InQueue
  <2>3. u \in InQueue(r) /\ v \in InQueue(r)
    BY <1>2, <2>1, <2>2
  <2>4. Eligible(r, a, u)
    <3>1. q[u].status = "offered"
      BY <1>5 DEF Offered
    <3>. QED  BY <2>3, <3>1, AdvancedLive DEF LiveStatus
  <2>5. Eligible(r, a, v)
    BY <2>2, <2>3, <2>4, EligibleBefore
  <2>6. q[v].status = "offered"
    <3>1. q[v].status \in LiveStatus
      BY <2>2 DEF InQueue
    <3>. QED  BY <2>3, <2>5, <3>1, AdvancedLive
  <2>. QED  BY <2>2, <2>6 DEF Offered
<1>. HIDE DEF q
<1>6. QueueOrder'
  BY <1>3, <1>4 DEF QueueOrder, OrderOn
<1>7. OffersAtTheFront'
  BY <1>3, <1>5 DEF OffersAtTheFront
<1>. QED  BY <1>6, <1>7

\* A commit that drops rows and changes the status of no row that stays.
LEMMA DropCommits ==
    ASSUME QueueOrder, OffersAtTheFront, NEW r, NEW t, SetQueue(r, ahead, t),
           \A u \in Users : r[u].status \in LiveStatus => r[u].status = row[u].status
    PROVE  QueueOrder' /\ OffersAtTheFront'
<1>1. InQueue(r) \subseteq InQueue(row)
  BY DEF InQueue
<1>2. row' = r /\ ahead' = Among(ahead, InQueue(r))
  BY DEF SetQueue
<1>3. OrderOn(row, ahead)
  BY DEF QueueOrder, OrderOn
<1>4. OrderOn(r, Among(ahead, InQueue(r)))
  BY <1>1, <1>3, AmongOrdered
<1>5. ASSUME NEW u \in Offered(r), NEW v \in Among(ahead, InQueue(r))[u]
      PROVE  v \in Offered(r)
  <2>1. u \in InQueue(r) /\ u \in Users /\ u \in Offered(row)
    BY DEF Offered, InQueue, LiveStatus
  <2>2. v \in ahead[u] /\ v \in InQueue(r) /\ v \in Users
    BY <1>5, <2>1 DEF Among, InQueue
  <2>3. v \in Offered(row)
    BY <2>1, <2>2 DEF OffersAtTheFront
  <2>. QED  BY <2>2, <2>3 DEF Offered, InQueue
<1>. QED
  BY <1>2, <1>4, <1>5 DEF QueueOrder, OrderOn, OffersAtTheFront

\* No status of a live row changes, and none becomes live: order and offers stay.
LEMMA QuietOrder ==
    ASSUME QueueOrder, OffersAtTheFront, ahead' = ahead,
           \A u \in Users : row'[u].status = row[u].status
              \/ (row[u].status \notin LiveStatus /\ row'[u].status \notin LiveStatus)
    PROVE  QueueOrder' /\ OffersAtTheFront'
<1>1. InQueue(row') = InQueue(row)
  BY DEF InQueue
<1>2. Offered(row') = Offered(row)
  BY DEF Offered, LiveStatus
<1>. QED  BY <1>1, <1>2 DEF QueueOrder, OffersAtTheFront

OrderInv == QueueInv /\ QueueOrder /\ OffersAtTheFront

\* A join or a poll advances the queue, and may renew or insert a row and advance
\* it again.
LEMMA JoinOrders ==
    ASSUME OrderInv, NEW u \in Users, NEW explicitJoin, JoinOrRefresh(u, explicitJoin)
    PROVE  QueueOrder' /\ OffersAtTheFront'
<1>. DEFINE r == Advanced(row, ahead)
            a == Among(ahead, InQueue(r))
<1>. USE DEF OrderInv
<1>1. row \in Rows
  BY DEF QueueInv, TypeOK, QueueTypeOK, Rows
<1>2. OrderOn(row, ahead)
  BY DEF QueueOrder, OrderOn
<1>3. r \in Rows /\ InQueue(r) \subseteq InQueue(row)
  BY <1>1, AdvancedRows DEF InQueue
<1>4. OrderOn(r, a)
  BY <1>2, <1>3, AmongOrdered
<1>5. CASE SetQueue(r, a, tied)
  <2>1. Among(a, InQueue(r)) = Among(ahead, InQueue(r))
    BY DEF Among, InQueue
  <2>2. SetQueue(r, ahead, tied)
    BY <1>5, <2>1 DEF SetQueue
  <2>. QED  BY <1>1, <1>2, <2>2, AdvanceCommits
<1>. HIDE DEF r, a
<1>6. CASE SetQueue(Advanced(Renewed(r, u), a), a, tied)
  <2>1. Renewed(r, u) \in Rows /\ InQueue(Renewed(r, u)) = InQueue(r)
    BY <1>3, NewRows DEF InQueue
  <2>2. OrderOn(Renewed(r, u), a)
    BY <1>4, <2>1 DEF OrderOn
  <2>. QED  BY <1>6, <2>1, <2>2, AdvanceCommits
<1>7. ASSUME u \notin InQueue(r), NEW after \in TiedSuffixes(r, a),
             SetQueue(Advanced(Inserted(r, u), BehindAllBut(after, r, a, u)),
                      BehindAllBut(after, r, a, u), tied \cup {u})
      PROVE  QueueOrder' /\ OffersAtTheFront'
  <2>1. Inserted(r, u) \in Rows
    BY <1>3, NewRows
  <2>2. OrderOn(Inserted(r, u), BehindAllBut(after, r, a, u))
    BY <1>3, <1>4, <1>7, BehindOrdered
  <2>. QED  BY <1>7, <2>1, <2>2, AdvanceCommits
<1>. QED  BY <1>5, <1>6, <1>7 DEF JoinOrRefresh, r, a

\* Every step keeps the order and the offers at its front.
LEMMA OrderNext == OrderInv /\ [Next]_vars => OrderInv'
<1>. SUFFICES ASSUME OrderInv, [Next]_vars PROVE QueueOrder' /\ OffersAtTheFront'
  BY QueueNext DEF OrderInv
<1>. USE DEF OrderInv
<1>1. row \in Rows
  BY DEF QueueInv, TypeOK, QueueTypeOK, Rows
<1>2. OrderOn(row, ahead)
  BY DEF QueueOrder, OrderOn
<1>3. CASE QueueStep
  <2>1. ASSUME NEW u \in Users, Join(u) \/ Read(u)
        PROVE  QueueOrder' /\ OffersAtTheFront'
    BY <2>1, JoinOrders DEF Join, Read
  <2>2. ASSUME NEW u \in Users, Leave(u)
        PROVE  QueueOrder' /\ OffersAtTheFront'
    <3>. DEFINE r == IF u \in InQueue(row)
                     THEN [row EXCEPT ![u] = [status |-> "left", ttl |-> 0]] ELSE row
                a == Among(ahead, InQueue(r))
    <3>1. r \in Rows /\ InQueue(r) \subseteq InQueue(row)
      BY <1>1 DEF Rows, RowStatus, LiveStatus, InQueue
    <3>2. OrderOn(r, a)
      BY <1>2, <3>1, AmongOrdered
    <3>3. SetQueue(Advanced(r, a), a, tied)
      BY <2>2 DEF Leave
    <3>. HIDE DEF r, a
    <3>. QED  BY <3>1, <3>2, <3>3, AdvanceCommits
  <2>3. ASSUME NEW u \in Users, NEW c \in Cars, CreateBegin(u, c)
        PROVE  QueueOrder' /\ OffersAtTheFront'
    BY <1>1, <1>2, <2>3, AdvanceCommits DEF CreateBegin
  <2>4. CASE CreateLapsed
    BY <1>1, <1>2, <2>4, AdvanceCommits DEF CreateLapsed
  <2>5. CASE CreateRefused
    BY <2>5, QuietOrder DEF CreateRefused
  <2>6. ASSUME NEW s \in Sessions, CreateGranted(s)
        PROVE  QueueOrder' /\ OffersAtTheFront'
    <3>. DEFINE r == [row EXCEPT ![accepting.user].status = "accepted"]
    <3>1. SetQueue(r, ahead, tied)
      BY <2>6 DEF CreateGranted
    <3>2. \A u \in Users : r[u].status \in LiveStatus => r[u].status = row[u].status
      BY <1>1 DEF Rows, LiveStatus
    <3>. HIDE DEF r
    <3>. QED  BY <3>1, <3>2, DropCommits
  <2>. QED  BY <1>3, <2>1, <2>2, <2>3, <2>4, <2>5, <2>6 DEF QueueStep
<1>4. ASSUME NEW ss \in SUBSET LiveSessions, Released(ss)
      PROVE  QueueOrder' /\ OffersAtTheFront'
  <2>1. ASSUME NEW u \in Users
        PROVE  \/ row'[u].status = row[u].status
               \/ row[u].status \notin LiveStatus /\ row'[u].status \notin LiveStatus
    <3>1. CASE link[u] \in ss
      <4>1. row[u].status = "accepted"
        BY <3>1 DEF QueueInv, AcceptedRowHasDrive
      <4>. QED  BY <1>4, <3>1, <4>1 DEF Released, LiveStatus
    <3>2. CASE link[u] \notin ss
      BY <1>4, <3>2 DEF Released
    <3>. QED  BY <3>1, <3>2
  <2>. QED  BY <1>4, <2>1, QuietOrder DEF Released
<1>5. CASE QTick
  <2>1. ASSUME NEW u \in Users
        PROVE  row'[u].status = row[u].status
    BY <1>1, <1>5 DEF QTick, Rows
  <2>. QED  BY <1>5, <2>1, QuietOrder DEF QTick
<1>6. CASE UNCHANGED queueVars
  BY <1>6, QuietOrder DEF queueVars
<1>7. CASE GatewayStep
  BY <1>4, <1>6, <1>7
  DEF GatewayStep, QEndDriveSession, EndDriveSession, QExpireDriveSessions, ExpirableSessions
<1>. QED  BY <1>3, <1>5, <1>6, <1>7 DEF Next, vars

\* However drivers join in one instant, lapse, leave, accept and queue again, the
\* live rows stand in one strict order.
THEOREM QueueOrderHolds == Spec => []QueueOrder
<1>1. Init => OrderInv
  BY QueueInit
  DEF Init, OrderInv, QueueOrder, OffersAtTheFront, InQueue, Offered, LiveStatus
<1>2. OrderInv => QueueOrder
  BY DEF OrderInv
<1>. QED  BY <1>1, <1>2, OrderNext, PTL DEF Spec

\* Nobody keeps an offer behind somebody who has none, for any number of drivers
\* and cars, whenever cars come and go.
THEOREM OffersAtTheFrontHolds == Spec => []OffersAtTheFront
<1>1. Init => OrderInv
  BY QueueInit
  DEF Init, OrderInv, QueueOrder, OffersAtTheFront, InQueue, Offered, LiveStatus
<1>2. OrderInv => OffersAtTheFront
  BY DEF OrderInv
<1>. QED  BY <1>1, <1>2, OrderNext, PTL DEF Spec

-----------------------------------------------------------------------------
(* What an advance leaves of a row, and of the rows before it.             *)

\* The rows that keep u's from being eligible.
Counted(r, a, u) == {v \in a[u] \cap InQueue(r) : ~LeaseOver(r, v) /\ ~Lapsed(r, v)}

LEMMA CountedFinite ==
    ASSUME NEW r, NEW a, NEW u
    PROVE  /\ IsFiniteSet(Counted(r, a, u)) /\ Cardinality(Counted(r, a, u)) \in Nat
           /\ Cardinality(AvailableCars) \in Nat
           /\ Eligible(r, a, u) <=> Cardinality(Counted(r, a, u)) < Cardinality(AvailableCars)
<1>1. Counted(r, a, u) \subseteq Users /\ AvailableCars \subseteq Cars
  BY DEF Counted, InQueue, AvailableCars
<1>. QED
  BY <1>1, FS_Subset, FS_CardinalityType, TablesAssumption DEF Eligible, Counted

\* A withdrawn offer waits again.
LEMMA AdvancedWithdrawn ==
    ASSUME NEW r, NEW a, NEW u \in InQueue(r), Withdrawn(r, a, u)
    PROVE  Advanced(r, a)[u].status = "waiting"
<1>1. Advanced(r, a)[u] = [status |-> "waiting", ttl |-> QUEUE_LEASE]
  BY DEF Advanced, LeaseOver, Lapsed, Withdrawn, InQueue
<1>. QED  BY <1>1

\* Once the queue has been advanced, eligible is who has fewer live rows before
\* theirs than there are cars: the lapsed offers that did not count are gone.
LEMMA AdvancedCapacity ==
    ASSUME NEW r \in Rows, NEW a, OrderOn(r, a), NEW u \in InQueue(Advanced(r, a))
    PROVE  Advanced(r, a)[u].status = "offered"
              <=> Cardinality(Among(a, InQueue(Advanced(r, a)))[u]) < Cardinality(AvailableCars)
<1>. DEFINE q == Advanced(r, a)
            before == Among(a, InQueue(q))[u]
<1>1. u \in Users /\ u \in InQueue(r) /\ q[u].status \in LiveStatus
  BY AdvancedRows DEF InQueue
<1>2. before = a[u] \cap InQueue(q)
  BY <1>1 DEF Among
<1>3. \A v \in InQueue(r) : v \in InQueue(q) <=> q[v].status \in LiveStatus
  BY DEF InQueue
<1>4. InQueue(q) \subseteq InQueue(r)
  BY AdvancedRows DEF InQueue
<1>5. q[u].status = "offered" <=> Eligible(r, a, u)
  BY <1>1, AdvancedLive
<1>. HIDE DEF q, before
<1>6. CASE Eligible(r, a, u)
  <2>1. \A v \in a[u] : v \in InQueue(r) => Eligible(r, a, v)
    BY <1>1, <1>6, EligibleBefore
  <2>2. before \subseteq Counted(r, a, u)
    <3>1. ASSUME NEW v \in before
          PROVE  v \in Counted(r, a, u)
      <4>1. v \in a[u] /\ v \in InQueue(r) /\ q[v].status \in LiveStatus
        BY <1>2, <1>3, <1>4, <3>1
      <4>2. ~LeaseOver(r, v) /\ ~Lapsed(r, v)
        BY <2>1, <4>1, AdvancedLive DEF q
      <4>. QED  BY <4>1, <4>2 DEF Counted
    <3>. QED  BY <3>1
  <2>3. Cardinality(before) < Cardinality(AvailableCars)
    <3>1. /\ Cardinality(before) <= Cardinality(Counted(r, a, u))
          /\ Cardinality(before) \in Nat
      BY <2>2, CountedFinite, FS_Subset, FS_CardinalityType
    <3>. QED  BY <1>6, <3>1, CountedFinite
  <2>. QED  BY <1>5, <1>6, <2>3 DEF q, before
<1>7. CASE ~Eligible(r, a, u)
  <2>1. Counted(r, a, u) \subseteq before
    <3>1. ASSUME NEW v \in Counted(r, a, u)
          PROVE  v \in before
      <4>1. v \in a[u] /\ v \in InQueue(r) /\ ~LeaseOver(r, v) /\ ~Lapsed(r, v)
        BY DEF Counted
      <4>2. r[v].ttl # 0
        BY <4>1 DEF LeaseOver, Lapsed, InQueue, LiveStatus
      <4>3. q[v].status \in LiveStatus
        BY <4>1, <4>2, AdvancedLive DEF q
      <4>. QED  BY <1>2, <1>3, <4>1, <4>3
    <3>. QED  BY <3>1
  <2>2. IsFiniteSet(before)
    <3>1. before \subseteq Users
      BY <1>2 DEF InQueue
    <3>. QED  BY <3>1, FS_Subset, TablesAssumption
  <2>3. /\ Cardinality(Counted(r, a, u)) <= Cardinality(before)
        /\ Cardinality(before) \in Nat
    BY <2>1, <2>2, FS_Subset, FS_CardinalityType
  <2>. QED  BY <1>5, <1>7, <2>3, CountedFinite DEF q, before
<1>. QED  BY <1>6, <1>7

\* Advancing the queue twice in one instant is advancing it once, for any rows, order
\* and cars: what joinOrRefresh answers with does not depend on how often it advanced.
THEOREM AdvancedSettles ==
    ASSUME NEW r \in Rows, NEW a, OrderOn(r, a)
    PROVE  Advanced(Advanced(r, a), Among(a, InQueue(Advanced(r, a)))) = Advanced(r, a)
<1>. DEFINE q == Advanced(r, a)
            b == Among(a, InQueue(q))
<1>1. q \in Rows
  BY AdvancedRows
<1>2. \A u \in InQueue(q) : u \in Users /\ q[u].status \in LiveStatus /\ q[u].ttl > 0
  <2>1. ASSUME NEW u \in InQueue(q)
        PROVE  u \in Users /\ q[u].status \in LiveStatus /\ q[u].ttl > 0
    <3>1. u \in Users /\ u \in InQueue(r) /\ q[u].status \in LiveStatus
      BY AdvancedRows DEF InQueue
    <3>. QED  BY <3>1, AdvancedLive
  <2>. QED  BY <2>1
<1>3. ASSUME NEW u \in InQueue(q)
      PROVE  q[u].status = "offered" <=> Cardinality(b[u]) < Cardinality(AvailableCars)
  BY <1>3, AdvancedCapacity
<1>4. \A u \in InQueue(q) : b[u] = a[u] \cap InQueue(q)
  BY DEF Among, InQueue
<1>. HIDE DEF q, b
<1>5. ASSUME NEW u \in InQueue(q)
      PROVE  /\ ~LeaseOver(q, u) /\ ~Lapsed(q, u)
             /\ q[u].status = "offered" <=> Eligible(q, b, u)
  <2>1. \A v \in InQueue(q) : ~LeaseOver(q, v) /\ ~Lapsed(q, v)
    BY <1>2 DEF LeaseOver, Lapsed
  <2>2. Counted(q, b, u) = b[u]
    BY <1>4, <1>5, <2>1 DEF Counted
  <2>. QED  BY <1>3, <1>5, <2>1, <2>2, CountedFinite
<1>6. ASSUME NEW u \in Users
      PROVE  Advanced(q, b)[u] = q[u]
  <2>1. CASE u \notin InQueue(q)
    BY <1>1, <2>1, AdvancedRow
  <2>2. CASE u \in InQueue(q)
    BY <1>2, <1>5, <2>2 DEF Advanced, Withdrawn, LiveStatus
  <2>. QED  BY <2>1, <2>2
<1>7. Advanced(q, b) = q
  <2>1. Advanced(q, b) = [u \in Users |-> Advanced(q, b)[u]]
    BY DEF Advanced
  <2>2. q = [u \in Users |-> q[u]]
    BY <1>1 DEF Rows
  <2>. QED  BY <1>6, <2>1, <2>2
<1>. QED  BY <1>7 DEF q, b

\* Whoever was not eligible stays so if the rows that counted still do.
LEMMA StillIneligible ==
    ASSUME NEW r, NEW a, NEW q, NEW b, NEW u,
           Counted(r, a, u) \subseteq Counted(q, b, u), ~Eligible(r, a, u)
    PROVE  ~Eligible(q, b, u)
<1>1. Cardinality(Counted(r, a, u)) <= Cardinality(Counted(q, b, u))
  BY CountedFinite, FS_Subset
<1>. QED  BY <1>1, CountedFinite

-----------------------------------------------------------------------------
(* A queue transaction, seen as one advance of prepared rows.              *)

\* The rows of one instant are last, and have time left.
TiedLast ==
    /\ tied \subseteq InQueue(row)
    /\ \A u \in tied : row[u].ttl > 0
    /\ \A u \in tied, v \in InQueue(row) : u \in ahead[v] => v \in tied

\* The rows r, in the order a, are what a transaction advances last: those it
\* found live, advanced once already or not, and the new ones.
Prepared(r, a, new) ==
    /\ r \in Rows /\ OrderOn(r, a)
    /\ new \subseteq InQueue(r) /\ InQueue(r) \subseteq InQueue(row) \cup new
    /\ \A u \in new :
          /\ u \in InQueue(row) => row[u].ttl = 0
          /\ u \in Offered(row) => Join(u)
          /\ InQueue(r) \ (tied \cup {u}) \subseteq a[u]
          /\ \A v \in InQueue(r) : u \in a[v] => v \in tied
    /\ \A u \in InQueue(r) \ new :
          /\ a[u] \ new \subseteq ahead[u]
          /\ (ahead[u] \cap InQueue(r)) \ new \subseteq a[u]
          /\ r[u].status = "offered" /\ row[u].status = "offered" => r[u] = row[u]
          /\ r[u].status = "waiting" /\ row[u].status = "offered" =>
                ~Eligible(row, ahead, u) /\ ~Eligible(r, a, u)

Deal(r, a, new) == Prepared(r, a, new) /\ SetQueue(Advanced(r, a), a, tied \cup new)

\* The rows are advanced as they are.
LEMMA PreparedAsIs ==
    ASSUME OrderInv, SetQueue(Advanced(row, ahead), ahead, tied)
    PROVE  Deal(row, ahead, {})
<1>1. row \in Rows /\ OrderOn(row, ahead)
  BY DEF OrderInv, QueueInv, TypeOK, QueueTypeOK, Rows, QueueOrder, OrderOn
<1>2. tied \cup {} = tied
  OBVIOUS
<1>3. \A u \in InQueue(row) : ~(row[u].status = "waiting" /\ row[u].status = "offered")
  OBVIOUS
<1>. QED  BY <1>1, <1>2, <1>3 DEF Deal, Prepared

\* Someone leaves first.
LEMMA LeaveDeals ==
    ASSUME OrderInv, NEW w \in Users, Leave(w)
    PROVE  \E r, a, new : Deal(r, a, new)
<1>. DEFINE r == IF w \in InQueue(row)
                 THEN [row EXCEPT ![w] = [status |-> "left", ttl |-> 0]] ELSE row
            a == Among(ahead, InQueue(r))
<1>1. row \in Rows /\ OrderOn(row, ahead)
  BY DEF OrderInv, QueueInv, TypeOK, QueueTypeOK, Rows, QueueOrder, OrderOn
<1>2. /\ r \in Rows /\ InQueue(r) \subseteq InQueue(row)
      /\ \A u \in InQueue(r) : r[u] = row[u]
  BY <1>1 DEF Rows, RowStatus, LiveStatus, InQueue
<1>3. \A u \in InQueue(r) : a[u] = ahead[u] \cap InQueue(r)
  BY DEF Among, InQueue
<1>4. OrderOn(r, a)
  BY <1>1, <1>2, AmongOrdered
<1>5. SetQueue(Advanced(r, a), a, tied \cup {})
  BY DEF Leave
<1>. HIDE DEF r, a
<1>6. Prepared(r, a, {})
  BY <1>2, <1>3, <1>4 DEF Prepared
<1>. QED  BY <1>5, <1>6 DEF Deal

\* A row that counted before u's in the first advance counts in the next one.
LEMMA CountedStays ==
    ASSUME NEW q \in Rows, NEW b, NEW u \in InQueue(Advanced(q, b)),
           NEW v \in Counted(q, b, u)
    PROVE  v \in Counted(Advanced(q, b), Among(b, InQueue(Advanced(q, b))), u)
           /\ Advanced(q, b)[v].ttl > 0
<1>1. v \in b[u] /\ v \in InQueue(q) /\ ~LeaseOver(q, v) /\ ~Lapsed(q, v)
  BY DEF Counted
<1>2. v \in Users /\ q[v].ttl # 0
  BY <1>1 DEF LeaseOver, Lapsed, InQueue, LiveStatus
<1>3. Advanced(q, b)[v].status \in LiveStatus
  BY <1>1, <1>2, AdvancedLive
<1>4. Advanced(q, b)[v].ttl > 0
  BY <1>1, <1>3, AdvancedLive
<1>5. v \in InQueue(Advanced(q, b))
  BY <1>2, <1>3 DEF InQueue
<1>6. v \in Among(b, InQueue(Advanced(q, b)))[u]
  BY <1>1, <1>5 DEF Among, InQueue
<1>7. Advanced(q, b)[v].ttl # 0
  BY <1>4
<1>. QED  BY <1>4, <1>5, <1>6, <1>7 DEF Counted, LeaseOver, Lapsed

\* A join or a poll: what it advances last is the queue as it was, the queue
\* advanced with a lease renewed, or the queue advanced with a new row.
LEMMA JoinDeals ==
    ASSUME OrderInv, NEW w \in Users, NEW explicitJoin \in BOOLEAN, JoinOrRefresh(w, explicitJoin)
    PROVE  \E r, a, new : Deal(r, a, new)
<1>. DEFINE r == Advanced(row, ahead)
            a == Among(ahead, InQueue(r))
<1>. USE DEF OrderInv
<1>1. row \in Rows /\ OrderOn(row, ahead)
  BY DEF QueueInv, TypeOK, QueueTypeOK, Rows, QueueOrder, OrderOn
<1>2. /\ r \in Rows /\ InQueue(r) \subseteq InQueue(row) /\ InQueue(r) \subseteq Users
      /\ \A u \in InQueue(r) : r[u].status \in LiveStatus
  BY <1>1, AdvancedRows DEF InQueue
<1>3. OrderOn(r, a)
  BY <1>1, <1>2, AmongOrdered
<1>4. \A u \in InQueue(r) : a[u] = ahead[u] \cap InQueue(r)
  BY DEF Among, InQueue
\* What the first advance did to the rows it kept.
<1>5. ASSUME NEW u \in InQueue(r)
      PROVE  /\ r[u].status = "offered" /\ row[u].status = "offered" => r[u] = row[u]
             /\ r[u].status = "waiting" /\ row[u].status = "offered" => ~Eligible(row, ahead, u)
  <2>1. u \in InQueue(row) /\ r[u].status \in LiveStatus
    BY <1>2
  <2>2. /\ r[u].status = "offered" <=> Eligible(row, ahead, u)
        /\ r[u].status = "offered" /\ row[u].status = "offered" => r[u] = row[u]
    BY <1>1, <2>1, AdvancedLive
  <2>. QED  BY <2>2
<1>6. ASSUME NEW u \in InQueue(r), NEW v \in Counted(row, ahead, u)
      PROVE  v \in Counted(r, a, u) /\ r[v].ttl > 0
  BY <1>1, CountedStays
<1>7. CASE SetQueue(r, a, tied)
  <2>1. Among(a, InQueue(r)) = Among(ahead, InQueue(r))
    BY DEF Among, InQueue
  <2>2. SetQueue(r, ahead, tied)
    BY <1>7, <2>1 DEF SetQueue
  <2>. QED  BY <2>2, PreparedAsIs
<1>8. ASSUME w \in Users \ InQueue(r), w \in InQueue(row)
      PROVE  row[w].ttl = 0
  BY <1>1, <1>8, AdvancedLive DEF InQueue
<1>9. ASSUME w \in Users \ InQueue(r), w \in Offered(row)
      PROVE  r[w].status = "missed"
  <2>1. w \in InQueue(row) /\ row[w].status = "offered" /\ r[w].status \notin LiveStatus
    BY <1>9 DEF Offered, InQueue, LiveStatus
  <2>2. row[w].ttl = 0
    BY <1>1, <2>1, AdvancedLive
  <2>3. Lapsed(row, w) /\ ~LeaseOver(row, w)
    BY <2>1, <2>2 DEF Lapsed, LeaseOver
  <2>4. Eligible(row, ahead, w)
    <3>1. ~Withdrawn(row, ahead, w)
      BY <2>1, <2>3, AdvancedWithdrawn DEF LiveStatus
    <3>. QED  BY <2>1, <3>1 DEF Withdrawn
  <2>5. r[w] = [row[w] EXCEPT !.status = "missed"]
    BY <2>1, <2>3, <2>4 DEF Advanced, Withdrawn
  <2>. QED  BY <1>1, <1>9, <2>1, <2>5 DEF Rows
<1>. HIDE DEF r, a
<1>10. CASE SetQueue(Advanced(Renewed(r, w), a), a, tied)
  <2>. DEFINE q == Renewed(r, w)
  <2>1. q \in Rows /\ \A u \in Users : q[u].status = r[u].status
    BY <1>2, NewRows
  <2>2. InQueue(q) = InQueue(r)
    BY <2>1 DEF InQueue
  <2>3. \A u \in Users : q[u] = r[u] \/ (r[u].status = "waiting" /\ q[u].ttl = QUEUE_LEASE)
    BY <1>2 DEF Renewed, Rows
  <2>. HIDE DEF q
  <2>4. OrderOn(q, a)
    BY <1>3, <2>2 DEF OrderOn
  <2>5. ASSUME NEW u \in InQueue(r), r[u].status = "waiting", row[u].status = "offered"
        PROVE  ~Eligible(q, a, u)
    <3>1. ASSUME NEW v \in Counted(row, ahead, u)
          PROVE  v \in Counted(q, a, u)
      <4>1. v \in Counted(r, a, u) /\ r[v].ttl > 0
        BY <1>6
      <4>2. v \in a[u] /\ v \in InQueue(q) /\ v \in Users
        BY <1>2, <2>2, <4>1 DEF Counted
      <4>3. q[v].ttl # 0
        BY <2>3, <4>1, <4>2, QueueAssumption
      <4>. QED  BY <4>2, <4>3 DEF Counted, LeaseOver, Lapsed
    <3>. QED  BY <1>5, <2>5, <3>1, StillIneligible
  <2>6. \A u \in InQueue(r) : q[u].status = "offered" => q[u] = r[u]
    BY <1>2, <2>1, <2>3
  <2>7. Prepared(q, a, {})
    BY <1>2, <1>4, <1>5, <2>1, <2>2, <2>4, <2>5, <2>6 DEF Prepared
  <2>8. tied \cup {} = tied
    OBVIOUS
  <2>. QED  BY <1>10, <2>7, <2>8 DEF Deal, q
<1>11. ASSUME w \notin InQueue(r), r[w].status # "missed" \/ explicitJoin,
              NEW after \in TiedSuffixes(r, a),
              SetQueue(Advanced(Inserted(r, w), BehindAllBut(after, r, a, w)),
                       BehindAllBut(after, r, a, w), tied \cup {w})
       PROVE  \E q, b, new : Deal(q, b, new)
  <2>. DEFINE q == Inserted(r, w)
              b == BehindAllBut(after, r, a, w)
  <2>1. q \in Rows /\ \A u \in Users \ {w} : q[u] = r[u]
    BY <1>2, NewRows DEF Inserted, Rows
  <2>2. OrderOn(q, b)
    BY <1>2, <1>3, <1>11, BehindOrdered
  <2>3. InQueue(q) = InQueue(r) \cup {w}
    BY <1>2 DEF Inserted, Rows, InQueue, LiveStatus
  <2>4. /\ b[w] = InQueue(r) \ after
        /\ \A v \in Users \ {w} : IF v \in after THEN b[v] = a[v] \cup {w} ELSE b[v] = a[v] \ {w}
        /\ after \subseteq tied /\ after \subseteq InQueue(r)
    BY DEF BehindAllBut, TiedSuffixes
  <2>. HIDE DEF q, b
  <2>5. ASSUME NEW u \in InQueue(r), r[u].status = "waiting", row[u].status = "offered"
        PROVE  ~Eligible(q, b, u)
    <3>1. ASSUME NEW v \in Counted(row, ahead, u)
          PROVE  v \in Counted(q, b, u)
      <4>1. v \in Counted(r, a, u) /\ r[v].ttl > 0
        BY <1>6
      <4>2. v \in a[u] /\ v \in InQueue(r) /\ v \in Users /\ v # w
        BY <1>2, <1>11, <4>1 DEF Counted
      <4>3. u \in Users /\ u # w
        BY <1>2, <1>11
      <4>4. v \in b[u] /\ v \in InQueue(q) /\ q[v].ttl # 0
        BY <2>1, <2>3, <2>4, <4>1, <4>2, <4>3
      <4>. QED  BY <4>4 DEF Counted, LeaseOver, Lapsed
    <3>. QED  BY <1>5, <2>5, <3>1, StillIneligible
  <2>6. w \in Offered(row) => Join(w)
    <3>1. w \in Offered(row) => explicitJoin = TRUE
      BY <1>9, <1>11
    <3>. QED  BY <3>1 DEF Join
  <2>7. \A v \in InQueue(q) : w \in b[v] => v \in tied
    <3>1. w \notin b[w]
      BY <1>11, <2>4
    <3>2. \A v \in InQueue(r) : w \in b[v] => v \in after
      BY <1>2, <1>11, <2>4
    <3>. QED  BY <2>3, <2>4, <3>1, <3>2
  <2>8. \A u \in InQueue(q) \ {w} :
           /\ b[u] \ {w} \subseteq ahead[u]
           /\ (ahead[u] \cap InQueue(q)) \ {w} \subseteq b[u]
    BY <1>2, <1>4, <2>3, <2>4
  <2>9. Prepared(q, b, {w})
    <3>1. InQueue(q) \ {w} \subseteq InQueue(r) /\ w \in Users \ InQueue(r)
      BY <1>11, <2>3
    <3>2. InQueue(q) \ (tied \cup {w}) \subseteq b[w]
      BY <2>3, <2>4
    <3>3. \A u \in InQueue(q) \ {w} :
             /\ q[u].status = "offered" /\ row[u].status = "offered" => q[u] = row[u]
             /\ q[u].status = "waiting" /\ row[u].status = "offered" =>
                   ~Eligible(row, ahead, u) /\ ~Eligible(q, b, u)
      BY <1>2, <1>5, <2>1, <2>5, <3>1
    <3>4. {w} \subseteq InQueue(q) /\ InQueue(q) \subseteq InQueue(row) \cup {w}
      BY <1>2, <2>3
    <3>5. w \in InQueue(row) => row[w].ttl = 0
      BY <1>8, <3>1
    <3>6. \A u \in {w} : /\ u \in InQueue(row) => row[u].ttl = 0
                         /\ u \in Offered(row) => Join(u)
                         /\ InQueue(q) \ (tied \cup {u}) \subseteq b[u]
                         /\ \A v \in InQueue(q) : u \in b[v] => v \in tied
      BY <2>6, <2>7, <3>2, <3>5
    <3>7. \A u \in InQueue(q) \ {w} :
             /\ b[u] \ {w} \subseteq ahead[u]
             /\ (ahead[u] \cap InQueue(q)) \ {w} \subseteq b[u]
             /\ q[u].status = "offered" /\ row[u].status = "offered" => q[u] = row[u]
             /\ q[u].status = "waiting" /\ row[u].status = "offered" =>
                   ~Eligible(row, ahead, u) /\ ~Eligible(q, b, u)
      BY <2>8, <3>3, Zenon
    <3>8. q \in Rows
      BY <2>1
    <3>. QED
      BY <2>2, <3>4, <3>6, <3>7, <3>8, Zenon DEF Prepared
  <2>. QED  BY <1>11, <2>9 DEF Deal, q, b
<1>. QED
  BY <1>7, <1>10, <1>11 DEF JoinOrRefresh, r, a

\* What a transaction commits.
LEMMA DealCommits ==
    ASSUME NEW r, NEW a, NEW new, Deal(r, a, new)
    PROVE  /\ row' = Advanced(r, a) /\ InQueue(row') \subseteq InQueue(r)
           /\ InQueue(row') \subseteq Users
           /\ \A u \in InQueue(row') : ahead'[u] = a[u] \cap InQueue(row')
           /\ tied' = (tied \cup new) \cap InQueue(row')
<1>1. /\ row' = Advanced(r, a)
      /\ ahead' = Among(a, InQueue(row'))
      /\ tied' = (tied \cup new) \cap InQueue(row')
      /\ r \in Rows
  BY DEF Deal, Prepared, SetQueue
<1>2. InQueue(row') \subseteq InQueue(r) /\ InQueue(row') \subseteq Users
  <2>1. \A u \in Users : row'[u].status \in LiveStatus => r[u].status \in LiveStatus
    BY <1>1, AdvancedRows
  <2>. QED  BY <2>1 DEF InQueue
<1>3. \A u \in InQueue(row') : ahead'[u] = a[u] \cap InQueue(row')
  BY <1>1, <1>2 DEF Among
<1>. QED  BY <1>1, <1>2, <1>3

\* Every queue transaction but the grant of a session ends with an advance.
LEMMA TransactionDeals ==
    ASSUME OrderInv,
           \/ \E u \in Users : Join(u) \/ Read(u) \/ Leave(u)
           \/ \E u \in Users, c \in Cars : CreateBegin(u, c)
           \/ CreateLapsed
    PROVE  \E r, a, new : Deal(r, a, new)
<1>1. ASSUME NEW u \in Users, Join(u) \/ Read(u)
      PROVE  \E r, a, new : Deal(r, a, new)
  <2>1. JoinOrRefresh(u, TRUE) \/ JoinOrRefresh(u, FALSE)
    BY <1>1 DEF Join, Read
  <2>. QED  BY <2>1, JoinDeals
<1>2. ASSUME NEW u \in Users, Leave(u)
      PROVE  \E r, a, new : Deal(r, a, new)
  BY <1>2, LeaveDeals
<1>3. CASE SetQueue(Advanced(row, ahead), ahead, tied)
  BY <1>3, PreparedAsIs
<1>. QED  BY <1>1, <1>2, <1>3 DEF CreateBegin, CreateLapsed

\* The other steps drop rows, or bring deadlines nearer, and move nobody.
Quiet ==
    /\ \A u \in InQueue(row') :
          /\ u \in InQueue(row) /\ row'[u].status = row[u].status
          /\ row'[u].ttl \in Nat /\ row[u].ttl \in Nat /\ row'[u].ttl <= row[u].ttl
          /\ ahead'[u] = ahead[u] \cap InQueue(row')
    /\ \/ tied' = {}
       \/ /\ tied' = tied \cap InQueue(row')
          /\ \A u \in InQueue(row') : row'[u] = row[u]

LEMMA OtherQuiet ==
    ASSUME OrderInv, TiedLast, [Next]_vars
    PROVE  Quiet \/ \E r, a, new : Deal(r, a, new)
<1>. USE DEF OrderInv, QueueInv
<1>1. row \in Rows /\ OrderOn(row, ahead) /\ InQueue(row) \subseteq Users
  BY DEF TypeOK, QueueTypeOK, Rows, QueueOrder, OrderOn, InQueue
<1>2. ASSUME InQueue(row') \subseteq InQueue(row), \A u \in InQueue(row') : row'[u] = row[u],
             \A u \in InQueue(row') : ahead'[u] = ahead[u] \cap InQueue(row'),
             tied' = tied \cap InQueue(row')
      PROVE  Quiet
  <2>1. \A u \in InQueue(row) : row[u].ttl \in Nat
    BY <1>1 DEF Rows
  <2>. QED  BY <1>2, <2>1 DEF Quiet
<1>3. ASSUME NEW s \in Sessions, CreateGranted(s)
      PROVE  Quiet
  <2>1. /\ row' = [row EXCEPT ![accepting.user].status = "accepted"]
        /\ ahead' = Among(ahead, InQueue(row')) /\ tied' = tied \cap InQueue(row')
        /\ accepting.user \in Users
    BY <1>3 DEF CreateGranted, SetQueue, TypeOK, QueueTypeOK
  <2>2. \A u \in InQueue(row') : u \in InQueue(row) /\ row'[u] = row[u]
    <3>1. \A u \in Users \ {accepting.user} : row'[u] = row[u]
      BY <1>1, <2>1 DEF Rows
    <3>2. row'[accepting.user].status = "accepted"
      BY <1>1, <2>1 DEF Rows
    <3>. QED  BY <3>1, <3>2 DEF InQueue, LiveStatus
  <2>3. \A u \in InQueue(row') : ahead'[u] = ahead[u] \cap InQueue(row')
    BY <1>1, <2>1, <2>2 DEF Among
  <2>. QED  BY <1>2, <2>1, <2>2, <2>3
<1>4. ASSUME NEW ss \in SUBSET LiveSessions, Released(ss)
      PROVE  Quiet
  <2>1. \A u \in Users : IF link[u] \in ss THEN row[u].status = "accepted" /\ row'[u].status = "left"
                                           ELSE row'[u] = row[u]
    BY <1>4 DEF Released, AcceptedRowHasDrive
  <2>2. InQueue(row') = InQueue(row) /\ \A u \in InQueue(row') : row'[u] = row[u]
    BY <2>1 DEF InQueue, LiveStatus
  <2>3. ahead' = ahead /\ tied' = tied /\ tied \subseteq InQueue(row)
    BY <1>4 DEF Released, TiedLast
  <2>4. \A u \in InQueue(row') : ahead'[u] = ahead[u] \cap InQueue(row')
    BY <1>1, <2>2, <2>3 DEF OrderOn
  <2>. QED  BY <1>2, <2>2, <2>3, <2>4
<1>5. CASE QTick
  <2>1. ASSUME NEW u \in Users
        PROVE  /\ row'[u].status = row[u].status
               /\ row'[u].ttl \in Nat /\ row[u].ttl \in Nat /\ row'[u].ttl <= row[u].ttl
    BY SMTT(20), <1>1, <1>5 DEF QTick, Rows, Dec
  <2>2. InQueue(row') = InQueue(row)
    BY <2>1 DEF InQueue
  <2>3. ahead' = ahead /\ tied' = {}
    BY <1>5 DEF QTick
  <2>4. \A u \in InQueue(row') : u \in Users /\ ahead'[u] = ahead[u] \cap InQueue(row')
    BY <1>1, <2>2, <2>3 DEF OrderOn
  <2>. QED  BY <2>1, <2>2, <2>3, <2>4 DEF Quiet
<1>6. CASE UNCHANGED <<row, ahead, tied>>
  <2>1. InQueue(row') = InQueue(row)
    BY <1>6
  <2>2. \A u \in InQueue(row') : row'[u] = row[u] /\ ahead'[u] = ahead[u] \cap InQueue(row')
    BY <1>1, <1>6, <2>1 DEF OrderOn
  <2>3. tied' = tied \cap InQueue(row')
    BY <1>6, <2>1 DEF TiedLast
  <2>. QED  BY <1>2, <2>1, <2>2, <2>3
<1>. QED
  BY <1>3, <1>4, <1>5, <1>6, TransactionDeals
  DEF Next, QueueStep, GatewayStep, CreateRefused, QEndDriveSession, EndDriveSession,
      QExpireDriveSessions, ExpirableSessions, queueVars, vars

-----------------------------------------------------------------------------
(* What a step may never do to a driver in the queue.                      *)

PlaceInv == OrderInv /\ TiedLast

\* The rows of one instant stay last: only their own suffix takes a newcomer.
LEMMA PlaceNext == PlaceInv /\ [Next]_vars => PlaceInv'
<1>. SUFFICES ASSUME PlaceInv, [Next]_vars PROVE TiedLast'
  BY OrderNext DEF PlaceInv
<1>. USE DEF PlaceInv
<1>1. CASE Quiet
  <2>1. CASE tied' = {}
    BY <2>1 DEF TiedLast
  <2>2. CASE tied' = tied \cap InQueue(row') /\ \A u \in InQueue(row') : row'[u] = row[u]
    BY <1>1, <2>2 DEF TiedLast, Quiet
  <2>. QED  BY <1>1, <2>1, <2>2 DEF Quiet
<1>2. ASSUME NEW r, NEW a, NEW new, Deal(r, a, new)
      PROVE  TiedLast'
  <2>1. Prepared(r, a, new)
    BY <1>2 DEF Deal
  <2>2. /\ row' = Advanced(r, a) /\ InQueue(row') \subseteq InQueue(r)
        /\ \A u \in InQueue(row') : ahead'[u] = a[u] \cap InQueue(row')
        /\ tied' = (tied \cup new) \cap InQueue(row')
    BY <1>2, DealCommits
  <2>3. ASSUME NEW u \in tied'
        PROVE  row'[u].ttl > 0
    <3>1. u \in InQueue(r) /\ Advanced(r, a)[u].status \in LiveStatus /\ r \in Rows
      BY <2>1, <2>2 DEF Prepared, InQueue
    <3>. QED  BY <2>2, <3>1, AdvancedLive
  <2>4. ASSUME NEW u \in tied', NEW v \in InQueue(row'), u \in ahead'[v]
        PROVE  v \in tied'
    <3>1. u \in a[v] /\ v \in InQueue(r) /\ u \in tied \cup new
      BY <2>2, <2>4
    <3>2. CASE u \in new
      BY <2>1, <2>2, <3>1, <3>2 DEF Prepared
    <3>3. CASE u \notin new /\ v \notin new
      <4>1. u \in ahead[v] /\ v \in InQueue(row)
        BY <2>1, <3>1, <3>3 DEF Prepared
      <4>. QED  BY <2>2, <3>1, <3>3, <4>1 DEF TiedLast
    <3>. QED  BY <2>2, <3>2, <3>3
  <2>. QED  BY <2>2, <2>3, <2>4 DEF TiedLast
<1>. QED  BY <1>1, <1>2, OtherQuiet

LEMMA PlaceInvHolds == Spec => []PlaceInv
<1>1. Init => PlaceInv
  BY QueueInit
  DEF Init, PlaceInv, OrderInv, QueueOrder, OffersAtTheFront, TiedLast, InQueue, Offered, LiveStatus
<1>. QED  BY <1>1, PlaceNext, PTL DEF Spec

\* Whoever stands before another driver stays before them while the lease or the
\* offer lasts, whatever joins, ties, lapses, leaves and advances come between.
THEOREM PlacesKeptHolds == Spec => PlacesKept
<1>. DEFINE Keeps == \A u, v \in InQueue(row) \cap InQueue(row') :
                        u \in ahead[v] /\ row[u].ttl > 0 => u \in ahead'[v]
<1>1. ASSUME PlaceInv, [Next]_vars
      PROVE  Keeps
  <2>. SUFFICES ASSUME NEW u \in InQueue(row) \cap InQueue(row'),
                       NEW v \in InQueue(row) \cap InQueue(row'),
                       u \in ahead[v], row[u].ttl > 0
                PROVE  u \in ahead'[v]
    OBVIOUS
  <2>1. ASSUME NEW r, NEW a, NEW new, Deal(r, a, new)
        PROVE  u \in ahead'[v]
    <3>1. Prepared(r, a, new)
      BY <2>1 DEF Deal
    <3>2. u \in InQueue(r) /\ v \in InQueue(r) /\ ahead'[v] = a[v] \cap InQueue(row')
      BY <2>1, DealCommits
    <3>3. u \notin new
      BY <3>1 DEF Prepared
    <3>4. CASE v \in new
      <4>1. row[v].ttl = 0
        BY <3>1, <3>4 DEF Prepared
      <4>2. u \notin tied
        BY <1>1, <4>1 DEF PlaceInv, TiedLast
      <4>3. u # v
        BY <3>3, <3>4
      <4>. QED  BY <3>1, <3>2, <3>4, <4>2, <4>3 DEF Prepared
    <3>5. CASE v \notin new
      BY <3>1, <3>2, <3>3, <3>5 DEF Prepared
    <3>. QED  BY <3>4, <3>5
  <2>. QED  BY <1>1, <2>1, OtherQuiet DEF PlaceInv, Quiet
<1>. QED  BY <1>1, PlaceInvHolds, PTL DEF Spec, PlacesKept

\* No poll, reload, join or withdrawal gives an offer more time; a driver that
\* lets it run out and joins again gets a new row at the back.
THEOREM OfferNotExtendedHolds == Spec => OfferNotExtended
<1>. DEFINE Keeps == \A u \in Offered(row) \cap Offered(row') :
                        row'[u].ttl > row[u].ttl => Lapsed(row, u) /\ Join(u)
<1>1. ASSUME PlaceInv, [Next]_vars
      PROVE  Keeps
  <2>. SUFFICES ASSUME NEW u \in Offered(row) \cap Offered(row'), row'[u].ttl > row[u].ttl
                PROVE  Lapsed(row, u) /\ Join(u)
    OBVIOUS
  <2>1. /\ u \in InQueue(row) /\ u \in InQueue(row') /\ row[u].ttl \in Nat
        /\ row[u].status = "offered" /\ row'[u].status = "offered"
    BY <1>1 DEF Offered, InQueue, LiveStatus, PlaceInv, OrderInv, QueueInv, TypeOK, QueueTypeOK
  <2>2. ASSUME NEW r, NEW a, NEW new, Deal(r, a, new)
        PROVE  Lapsed(row, u) /\ Join(u)
    <3>1. Prepared(r, a, new)
      BY <2>2 DEF Deal
    <3>2. u \in InQueue(r) /\ row' = Advanced(r, a)
      BY <2>1, <2>2, DealCommits
    <3>3. CASE u \in new
      BY <2>1, <3>1, <3>3 DEF Prepared, Lapsed
    <3>4. CASE u \notin new
      <4>1. Eligible(r, a, u) /\ (r[u].status = "offered" => row'[u] = r[u])
        BY <2>1, <3>1, <3>2, AdvancedLive DEF Prepared, LiveStatus
      <4>2. r[u] = row[u]
        BY <2>1, <3>1, <3>2, <3>4, <4>1 DEF Prepared, InQueue, LiveStatus
      <4>3. row'[u].ttl = row[u].ttl
        BY <2>1, <4>1, <4>2
      <4>. QED  BY <2>1, <4>3
    <3>. QED  BY <3>3, <3>4
  <2>3. CASE Quiet
    BY <2>1, <2>3 DEF Quiet
  <2>. QED  BY <1>1, <2>2, <2>3, OtherQuiet DEF PlaceInv
<1>. QED  BY <1>1, PlaceInvHolds, PTL DEF Spec, OfferNotExtended

\* An offer that has time left is taken back only where the cars no longer reach
\* for the offers made.
THEOREM OfferWithdrawnForCapacityHolds == Spec => OfferWithdrawnForCapacity
<1>. DEFINE Keeps == \A u \in Offered(row) \ tied : row[u].ttl > 0 /\ row'[u].status = "waiting"
                        => Cardinality(AvailableCars) < Cardinality(Offered(row))
<1>1. ASSUME PlaceInv, [Next]_vars
      PROVE  Keeps
  <2>. SUFFICES ASSUME NEW u \in Offered(row) \ tied, row[u].ttl > 0, row'[u].status = "waiting"
                PROVE  Cardinality(AvailableCars) < Cardinality(Offered(row))
    OBVIOUS
  <2>1. /\ u \in Users /\ u \in InQueue(row) /\ u \in InQueue(row')
        /\ row[u].status = "offered"
    BY DEF Offered, InQueue, LiveStatus
  <2>2. ASSUME NEW r, NEW a, NEW new, Deal(r, a, new)
        PROVE  Cardinality(AvailableCars) < Cardinality(Offered(row))
    <3>1. Prepared(r, a, new)
      BY <2>2 DEF Deal
    <3>2. u \in InQueue(r) /\ row' = Advanced(r, a)
      BY <2>1, <2>2, DealCommits
    <3>3. u \notin new
      BY <2>1, <3>1 DEF Prepared
    <3>4. ~Eligible(r, a, u)
      BY <2>1, <3>1, <3>2, AdvancedLive DEF Prepared, LiveStatus
    <3>5. Counted(r, a, u) \subseteq Offered(row) \ {u}
      <4>1. a[u] \cap new = {}
        BY <3>1, <3>2 DEF Prepared
      <4>2. a[u] \subseteq ahead[u]
        BY <3>1, <3>2, <3>3, <4>1 DEF Prepared
      <4>3. ahead[u] \subseteq Offered(row) \ {u}
        BY <1>1, <2>1 DEF PlaceInv, OrderInv, OffersAtTheFront, QueueOrder
      <4>. QED  BY <4>2, <4>3 DEF Counted
    <3>6. IsFiniteSet(Offered(row))
      BY FS_Subset, TablesAssumption DEF Offered
    <3>7. /\ IsFiniteSet(Offered(row) \ {u})
          /\ Cardinality(Offered(row) \ {u}) = Cardinality(Offered(row)) - 1
          /\ Cardinality(Offered(row)) \in Nat
      BY <3>6, FS_RemoveElement, FS_CardinalityType
    <3>8. /\ Cardinality(Counted(r, a, u)) <= Cardinality(Offered(row) \ {u})
          /\ Cardinality(Counted(r, a, u)) >= Cardinality(AvailableCars)
      BY <3>4, <3>5, <3>7, FS_Subset, CountedFinite
    <3>. QED  BY <3>7, <3>8, CountedFinite
  <2>3. CASE Quiet
    BY <2>1, <2>3 DEF Quiet
  <2>. QED  BY <1>1, <2>2, <2>3, OtherQuiet DEF PlaceInv
<1>. QED  BY <1>1, PlaceInvHolds, PTL DEF Spec, OfferWithdrawnForCapacity

\* A join, a poll, a leave and a lapsed creation leave offers with exactly the
\* first N live rows, N the number of cars available to that transaction.
THEOREM OffersMatchCapacityHolds == Spec => OffersMatchCapacity
<1>. DEFINE Matches == (\E u \in Users : Join(u) \/ Read(u) \/ Leave(u)) \/ CreateLapsed =>
                          \A u \in InQueue(row') : row'[u].status = "offered"
                             <=> Cardinality(ahead'[u]) < Cardinality(AvailableCars)
<1>1. ASSUME PlaceInv, [Next]_vars
      PROVE  Matches
  <2>. SUFFICES ASSUME (\E u \in Users : Join(u) \/ Read(u) \/ Leave(u)) \/ CreateLapsed,
                       NEW u \in InQueue(row')
                PROVE  row'[u].status = "offered"
                          <=> Cardinality(ahead'[u]) < Cardinality(AvailableCars)
    OBVIOUS
  <2>1. PICK r, a, new : Deal(r, a, new)
    BY <1>1, TransactionDeals DEF PlaceInv
  <2>2. /\ r \in Rows /\ OrderOn(r, a)
        /\ row' = Advanced(r, a) /\ ahead' = Among(a, InQueue(Advanced(r, a)))
    BY <2>1 DEF Deal, Prepared, SetQueue
  <2>. QED  BY <2>2, AdvancedCapacity
<1>. QED  BY <1>1, PlaceInvHolds, PTL DEF Spec, OffersMatchCapacity

-----------------------------------------------------------------------------
(* The queue and the tables lend cars, as CarLending has it.               *)

\* A session creation under way holds the lock, so nobody takes its offer back.
AcceptingOffered == accepting # None => row[accepting.user].status = "offered"

\* Holder, without the CHOOSE.
HolderIs == \A c \in Cars :
    /\ \A s \in LiveSessions : session[s].car = c => Holder(c) = session[s].user
    /\ (\A s \in LiveSessions : session[s].car # c) => Holder(c) = None

LendingInv == QueueInv /\ OneDrive /\ AcceptingOffered /\ HolderIs

\* A car has one session, so choosing it is no choice.
LEMMA OneHolder == OneDrive => HolderIs
<1>. SUFFICES ASSUME OneDrive, NEW c \in Cars, NEW s \in LiveSessions, session[s].car = c
              PROVE  Holder(c) = session[s].user
  BY DEF HolderIs, Holder
<1>. DEFINE t == CHOOSE x \in LiveSessions : session[x].car = c
<1>1. t \in LiveSessions /\ session[t].car = c
  OBVIOUS
<1>2. t = s
  BY <1>1 DEF OneDrive
<1>. QED  BY <1>2 DEF Holder

\* The sessions a gateway step ends take no offer with them.
LEMMA ReleasedOffers ==
    ASSUME QueueInv, NEW ss \in SUBSET LiveSessions, Released(ss)
    PROVE  /\ accepting' = accepting
           /\ \A u \in Users : row'[u].status = "offered" <=> row[u].status = "offered"
           /\ \A u \in Offered(row) : row'[u] = row[u]
<1>1. \A u \in Users : IF link[u] \in ss THEN row[u].status = "accepted" /\ row'[u].status = "left"
                                         ELSE row'[u] = row[u]
  BY DEF Released, QueueInv, AcceptedRowHasDrive
<1>. QED  BY <1>1 DEF Released, Offered

LEMMA AcceptingNext == QueueInv /\ AcceptingOffered /\ [Next]_vars => AcceptingOffered'
<1>. SUFFICES ASSUME QueueInv, AcceptingOffered, [Next]_vars PROVE AcceptingOffered'
  OBVIOUS
<1>1. CASE accepting = None /\ accepting' = accepting
  BY <1>1 DEF AcceptingOffered
<1>2. ASSUME NEW u \in Users, NEW c \in Cars, CreateBegin(u, c)
      PROVE  AcceptingOffered'
  BY <1>2, TablesAssumption DEF CreateBegin, SetQueue, AcceptingOffered
<1>3. CASE accepting' = None
  BY <1>3 DEF AcceptingOffered
<1>4. ASSUME NEW ss \in SUBSET LiveSessions, Released(ss)
      PROVE  AcceptingOffered'
  BY <1>4, ReleasedOffers DEF AcceptingOffered, QueueInv, TypeOK, QueueTypeOK
<1>5. CASE QTick
  <2>1. \A u \in Users : row'[u].status = row[u].status
    BY <1>5 DEF QTick, QueueInv, TypeOK, QueueTypeOK
  <2>. QED  BY <1>5, <2>1 DEF QTick, AcceptingOffered, QueueInv, TypeOK, QueueTypeOK
<1>6. CASE UNCHANGED queueVars
  BY <1>6 DEF queueVars, AcceptingOffered
<1>. QED
  BY <1>1, <1>2, <1>3, <1>4, <1>5, <1>6
  DEF Next, vars, QueueStep, GatewayStep, Join, Read, JoinOrRefresh, Leave, CreateRefused,
      CreateLapsed, CreateGranted, QEndDriveSession, EndDriveSession, QExpireDriveSessions,
      ExpirableSessions

LEMMA LendingInvHolds == Spec => []LendingInv
<1>1. Init => QueueInv /\ AcceptingOffered
  BY QueueInit DEF Init, AcceptingOffered
<1>2. (QueueInv /\ AcceptingOffered) /\ [Next]_vars => (QueueInv /\ AcceptingOffered)'
  BY QueueNext, AcceptingNext
<1>3. QueueInv /\ AcceptingOffered /\ OneDrive => LendingInv
  BY OneHolder DEF LendingInv
<1>. QED  BY <1>1, <1>2, <1>3, ImplementsTables, OneDriveHolds, PTL DEF Spec

\* A step that neither makes nor ends a session leaves every car where it is.
LEMMA HoldersStay ==
    ASSUME LendingInv, LendingInv',
           \A s \in Sessions : /\ s \in LiveSessions' <=> s \in LiveSessions
                               /\ s \in LiveSessions => /\ session'[s].user = session[s].user
                                                        /\ session'[s].car = session[s].car
    PROVE  \A c \in Cars : Holder(c)' = Holder(c)
<1>. SUFFICES ASSUME NEW c \in Cars PROVE Holder(c)' = Holder(c)
  OBVIOUS
<1>1. CASE \E s \in LiveSessions : session[s].car = c
  BY <1>1 DEF LendingInv, HolderIs, LiveSessions
<1>2. CASE \A s \in LiveSessions : session[s].car # c
  BY <1>2 DEF LendingInv, HolderIs, LiveSessions
<1>. QED  BY <1>1, <1>2

\* The insert lends a free car to a driver who holds none and has an offer.
LEMMA GrantLends ==
    ASSUME LendingInv, LendingInv', NEW s \in Sessions, CreateGranted(s)
    PROVE  Lending!Next
<1>. USE DEF LendingInv
<1>0. PICK u \in Users, c \in Cars : accepting.user = u /\ accepting.car = c
  BY DEF CreateGranted, QueueInv, TypeOK, QueueTypeOK
<1>1. u \in Users /\ c \in Cars /\ row[u].status = "offered" /\ row[u].ttl > 0
  BY <1>0 DEF CreateGranted, AcceptingOffered
<1>2. /\ \A t \in LiveSessions : session[t].car # c /\ session[t].user # u
      /\ LiveSessions' = LiveSessions \cup {s} /\ s \notin LiveSessions
      /\ session'[s].car = c /\ session'[s].user = u
      /\ \A t \in LiveSessions : session'[t] = session[t]
  BY <1>0 DEF CreateGranted, CreateSession, Held, LiveSessions, QueueInv, TypeOK, TablesTypeOK
<1>3. Invited(row') = Invited(row) \ {u} /\ u \in Invited(row)
  <2>1. row \in Rows /\ row' = [row EXCEPT ![u].status = "accepted"]
    BY <1>0 DEF CreateGranted, SetQueue, QueueInv, TypeOK, QueueTypeOK, Rows
  <2>2. \A v \in Users \ {u} : row'[v] = row[v]
    BY <2>1 DEF Rows
  <2>3. row'[u].status = "accepted"
    BY <1>1, <2>1 DEF Rows
  <2>. QED  BY <1>1, <2>2, <2>3 DEF Offered, Invited
<1>4. Holder(c) = None /\ Holder(c)' = u
  BY <1>1, <1>2 DEF HolderIs
<1>5. ASSUME NEW d \in Cars, d # c
      PROVE  Holder(d)' = Holder(d)
  <2>1. CASE \E t \in LiveSessions : session[t].car = d
    BY <1>2, <2>1 DEF HolderIs
  <2>2. CASE \A t \in LiveSessions : session[t].car # d
    BY <1>2, <1>5, <2>2 DEF HolderIs
  <2>. QED  BY <2>1, <2>2
<1>6. ASSUME NEW d \in Cars
      PROVE  Holder(d) # u
  <2>1. CASE \E t \in LiveSessions : session[t].car = d
    BY <1>2, <2>1 DEF HolderIs
  <2>2. CASE \A t \in LiveSessions : session[t].car # d
    BY <1>1, <2>2, TablesAssumption DEF HolderIs
  <2>. QED  BY <2>1, <2>2
<1>7. Lending!Lend(u, c)
  BY <1>1, <1>3, <1>4, <1>5, <1>6 DEF Lending!Lend
<1>. QED  BY <1>1, <1>7 DEF Lending!Next

\* Ending drives takes their cars back, and no offer.
LEMMA EndTakesBack ==
    ASSUME LendingInv, LendingInv', NEW ss \in SUBSET LiveSessions, ss # {},
           EndSessions(ss), Released(ss)
    PROVE  Lending!Next
<1>. DEFINE back == {session[s].car : s \in ss}
<1>. USE DEF LendingInv
<1>1. /\ LiveSessions' = LiveSessions \ ss
      /\ \A s \in LiveSessions' : session'[s] = session[s]
  BY DEF EndSessions, LiveSessions, NoSession
<1>2. \A s \in LiveSessions : session[s].car \in Cars /\ session[s].user \in Users
  BY LiveRows DEF SessionRow, QueueInv, TypeOK
<1>3. back \subseteq Cars /\ back # {}
  BY <1>2
<1>4. ASSUME NEW c \in back
      PROVE  Holder(c) # None /\ Holder(c)' = None
  <2>1. PICK s \in ss : session[s].car = c
    OBVIOUS
  <2>2. Holder(c) = session[s].user
    BY <1>3, <2>1 DEF HolderIs
  <2>3. \A t \in LiveSessions' : session'[t].car # c
    BY <1>1, <2>1 DEF OneDrive
  <2>. QED  BY <1>2, <1>3, <2>2, <2>3, TablesAssumption DEF HolderIs
<1>5. ASSUME NEW c \in Cars \ back
      PROVE  Holder(c)' = Holder(c)
  <2>1. CASE \E t \in LiveSessions : session[t].car = c
    BY <1>1, <2>1 DEF HolderIs
  <2>2. CASE \A t \in LiveSessions : session[t].car # c
    BY <1>1, <2>2 DEF HolderIs
  <2>. QED  BY <2>1, <2>2
<1>6. Invited(row') = Invited(row)
  BY ReleasedOffers DEF Offered, Invited
<1>. HIDE DEF back
<1>7. Lending!TakeBack(back)
  BY <1>3, <1>4, <1>5, <1>6 DEF Lending!TakeBack
<1>. QED  BY <1>3, <1>7 DEF Lending!Next

\* Every behaviour of the queue, the tables and the gateway's sweeps is one of
\* CarLending: cars go to invited drivers one at a time, and change hands only by
\* going back first.
THEOREM LendsSafely == Spec => Lending!Spec
<1>1. ASSUME Init
      PROVE  Lending!Init
  <2>1. LiveSessions = {}
    BY <1>1 DEF Init, TablesInit, LiveSessions, NoSession
  <2>2. Invited(row) = {}
    BY <1>1 DEF Init, Offered, Invited
  <2>. QED  BY <2>1, <2>2 DEF Lending!Init, Holder
<1>2. ASSUME LendingInv, LendingInv', [Next]_vars
      PROVE  [Lending!Next]_(Lending!lendingVars)
  <2>. USE DEF LendingInv
  <2>1. ASSUME UNCHANGED session
        PROVE  \A c \in Cars : Holder(c)' = Holder(c)
    BY <1>2, <2>1, HoldersStay DEF LiveSessions
  <2>2. ASSUME UNCHANGED session, QueueTypeOK'
        PROVE  Lending!Next
    <3>1. Invited(row') \in SUBSET Users
      BY DEF Offered, Invited
    <3>. QED  BY <2>1, <2>2, <3>1 DEF Lending!Next, Lending!Invite
  <2>3. ASSUME NEW s \in Sessions, CreateGranted(s)
        PROVE  Lending!Next
    BY <1>2, <2>3, GrantLends
  <2>4. CASE QueueStep
    BY <1>2, <2>2, <2>3, <2>4
    DEF QueueStep, Join, Read, JoinOrRefresh, Leave, CreateBegin, CreateRefused, CreateLapsed,
        tables, QueueInv, TypeOK
  <2>5. ASSUME NEW s \in Sessions, QEndDriveSession(s)
        PROVE  Lending!Next
    BY <1>2, <2>5, EndTakesBack DEF QEndDriveSession, EndDriveSession
  <2>6. CASE QExpireDriveSessions
    BY <1>2, <2>6, EndTakesBack DEF QExpireDriveSessions, ExpireDriveSessions, ExpirableSessions
  <2>7. ASSUME \A c \in Cars : Holder(c)' = Holder(c), Invited(row') = Invited(row)
        PROVE  UNCHANGED Lending!lendingVars
    BY <2>7 DEF Lending!lendingVars
  <2>8. ASSUME NEW s \in Sessions, UNCHANGED queueVars,
               AuthorizeDriveSession(s) \/ MarkDriveSessionActive(s)
        PROVE  UNCHANGED Lending!lendingVars
    <3>1. s \in LiveSessions /\ session[s] \in SessionRow
      BY <1>2, <2>8, LiveRows
      DEF AuthorizeDriveSession, MarkDriveSessionActive, Activatable, LiveSessions, QueueInv, TypeOK
    <3>2. \A t \in Sessions : /\ session'[t].status # "ended" <=> session[t].status # "ended"
                              /\ session[t].status # "ended" =>
                                    /\ session'[t].user = session[t].user
                                    /\ session'[t].car = session[t].car
      BY <1>2, <2>8, <3>1
      DEF AuthorizeDriveSession, MarkDriveSessionActive, QueueInv, TypeOK, TablesTypeOK, SessionRow
    <3>. QED  BY <1>2, <2>7, <2>8, <3>2, HoldersStay DEF LiveSessions, queueVars
  <2>9. CASE UNCHANGED <<queueVars, session>>
    BY <2>1, <2>7, <2>9 DEF queueVars
  <2>10. CASE GatewayStep \/ (UNCHANGED queueVars /\ GatewayStops)
    BY <2>5, <2>6, <2>8, <2>9, <2>10
    DEF GatewayStep, DeviceStep, AuthenticateDevice, RecordHeartbeat, SetDevicePresence,
        SetCarPresence, MarkDeviceOffline, MarkCarOffline, GatewayStops
  <2>11. CASE QTick
    <3>1. \A t \in Sessions : /\ session'[t].status = session[t].status
                              /\ session'[t].user = session[t].user
                              /\ session'[t].car = session[t].car
      BY <1>2, <2>11, TickKeeps DEF QTick, QueueInv, TypeOK
    <3>2. \A c \in Cars : Holder(c)' = Holder(c)
      BY <1>2, <3>1, HoldersStay DEF LiveSessions
    <3>3. Invited(row') \in SUBSET Users
      BY DEF Offered, Invited
    <3>. QED  BY <3>2, <3>3 DEF Lending!Next, Lending!Invite
  <2>. QED  BY <1>2, <2>4, <2>9, <2>10, <2>11 DEF Next, vars, tables
<1>. QED  BY <1>1, <1>2, LendingInvHolds, PTL DEF Spec, Lending!Spec
=============================================================================
