------------------------------- MODULE LiveQueue -------------------------------
(***************************************************************************)
(* The web tier's live queue (queue_entries) on top of the drive tables:   *)
(* drivers queue, the first N of them are offered one of the N available   *)
(* cars, an offer is accepted by creating a drive session or runs out.     *)
(*                                                                         *)
(* Every queue transaction, and the creation of a session, holds one       *)
(* advisory lock to its end and starts by advancing the queue: a           *)
(* transaction is one action, except the creation, which may wait for the  *)
(* car's and the device's row between two readings of the clock.           *)
(***************************************************************************)
EXTENDS DriveTables

CONSTANTS QUEUE_LEASE, QUEUE_OFFER

ASSUME QueueAssumption == QUEUE_LEASE \in Nat \ {0} /\ QUEUE_OFFER \in Nat \ {0}

VARIABLES
    row,        \* a user's latest queue_entries row: status and ticks to expires_at
    ahead,      \* for a live row: the users whose live rows sort before it (joined_at, id)
    tied,       \* users whose live row was inserted in the current instant
    link,       \* the session created from the user's latest row, or None
    accepting   \* the session creation that holds the advisory lock, or None

queueVars == <<row, ahead, tied, link, accepting>>
vars == <<tables, queueVars>>

-----------------------------------------------------------------------------
LiveStatus == {"waiting", "offered"}
RowStatus == LiveStatus \cup {"none", "accepted", "left", "expired", "missed"}

QueueTypeOK ==
    /\ row \in [Users -> [status: RowStatus, ttl: Nat]]
    /\ ahead \in [Users -> SUBSET Users]
    /\ tied \subseteq Users
    /\ link \in [Users -> Sessions \cup {None}]
    /\ accepting \in [user: Users, car: Cars] \cup {None}

TypeOK == TablesTypeOK /\ QueueTypeOK

\* The rows advanceLiveQueue selects "for update".
InQueue(r) == {u \in Users : r[u].status \in LiveStatus}
Offered(r) == {u \in Users : r[u].status = "offered"}

-----------------------------------------------------------------------------
(* advanceLiveQueue.  The loop walks the rows in order and counts those it *)
(* keeps; a row is eligible while fewer than capacity were kept.  A lapsed *)
(* offer met while there is capacity is dropped and takes no place, so a   *)
(* row is eligible iff fewer than capacity rows before it are not lapsed   *)
(* offers.  AdvanceLoop checks this form against the loop itself.          *)

Lapsed(r, u) == r[u].status = "offered" /\ r[u].ttl = 0
LeaseOver(r, u) == r[u].status = "waiting" /\ r[u].ttl = 0
MutantOneOfferMore(r, a, u) ==
    Cardinality({v \in a[u] \cap InQueue(r) : ~LeaseOver(r, v) /\ ~Lapsed(r, v)})
        <= Cardinality(AvailableCars)
MutantOneOfferLess(r, a, u) ==
    Cardinality({v \in a[u] \cap InQueue(r) : ~LeaseOver(r, v) /\ ~Lapsed(r, v)}) + 1
        < Cardinality(AvailableCars)
MutantLapsedCounts(r, a, u) ==
    Cardinality({v \in a[u] \cap InQueue(r) : ~LeaseOver(r, v)}) < Cardinality(AvailableCars)
Eligible(r, a, u) ==
    Cardinality({v \in a[u] \cap InQueue(r) : ~LeaseOver(r, v) /\ ~Lapsed(r, v)})
        < Cardinality(AvailableCars)

MutantWithdrawsLapsed(r, a, u) == Lapsed(r, u) /\ ~Eligible(r, a, u)
Withdrawn(r, a, u) == r[u].status = "offered" /\ ~Eligible(r, a, u)

Advanced(r, a) == [u \in Users |->
    CASE u \notin InQueue(r) -> r[u]
      [] LeaseOver(r, u) -> [r[u] EXCEPT !.status = "expired"]
      [] Lapsed(r, u) /\ Eligible(r, a, u) -> [r[u] EXCEPT !.status = "missed"]
      [] Withdrawn(r, a, u) -> [status |-> "waiting", ttl |-> QUEUE_LEASE]
      [] r[u].status = "waiting" /\ ~LeaseOver(r, u) /\ Eligible(r, a, u) ->
            [status |-> "offered", ttl |-> QUEUE_OFFER]
      [] OTHER -> r[u]]

\* The order of the rows that stay live.
Among(a, live) == [u \in Users |-> IF u \in live THEN a[u] \cap live ELSE {}]

\* Commit a transaction that leaves the rows r in the order a.
MutantOrderByExpiry(r, a, t) ==
    /\ row' = r
    /\ ahead' = [u \in Users |-> IF u \notin InQueue(r) THEN {} ELSE
          {v \in InQueue(r) \ {u} : \/ r[v].ttl < r[u].ttl
                                   \/ (r[v].ttl = r[u].ttl /\ v \in a[u])}]
    /\ tied' = t \cap InQueue(r)

SetQueue(r, a, t) ==
    /\ row' = r
    /\ ahead' = Among(a, InQueue(r))
    /\ tied' = t \cap InQueue(r)

-----------------------------------------------------------------------------
(* The live queue.                                                         *)

MutantConnectedDriving(u) == \E s \in UnexpiredSessions :
    session[s].user = u /\ session[s].status # "created"
Driving(u) == \E s \in UnexpiredSessions : session[s].user = u

\* Insert a waiting row for u behind every live row.  joined_at has a finite
\* resolution and ids are random: rows inserted in the same instant sort
\* either way, so u may land before a suffix of them.
Inserted(r, u) == [r EXCEPT ![u] = [status |-> "waiting", ttl |-> QUEUE_LEASE]]
MutantTiesUnsettled(after, r, a, u) == [v \in Users |->
    IF v = u THEN InQueue(r) \ after ELSE a[v] \ {u}]
BehindAllBut(after, r, a, u) == [v \in Users |->
    IF v = u THEN InQueue(r) \ after
    ELSE IF v \in after THEN a[v] \cup {u} ELSE a[v] \ {u}]
MutantAnySuffix(r, a) == {after \in SUBSET InQueue(r) :
    \A v \in after, w \in InQueue(r) : v \in a[w] => w \in after}
TiedSuffixes(r, a) == {after \in SUBSET (tied \cap InQueue(r)) :
    \A v \in after, w \in InQueue(r) : v \in a[w] => w \in after}

\* A waiting row gets a new lease; an offer keeps its deadline.
MutantRenewsOffers(r, u) == [r EXCEPT ![u].ttl = QUEUE_LEASE]
Renewed(r, u) ==
    IF r[u].status = "waiting" THEN [r EXCEPT ![u].ttl = QUEUE_LEASE] ELSE r

\* joinOrRefresh: the POST (explicit) and the polling GET of /api/queue.
JoinOrRefresh(u, explicitJoin) ==
    /\ accepting = None
    /\ LET r == Advanced(row, ahead)
           a == Among(ahead, InQueue(r))
       IN  \/ /\ Driving(u) \/ (r[u].status = "missed" /\ ~explicitJoin)
              /\ SetQueue(r, a, tied)
              /\ UNCHANGED link
           \/ /\ ~Driving(u)
              /\ u \in InQueue(r)
              /\ SetQueue(Advanced(Renewed(r, u), a), a, tied)
              /\ UNCHANGED link
           \/ /\ ~Driving(u)
              /\ u \notin InQueue(r)
              /\ r[u].status # "missed" \/ explicitJoin
              /\ \E after \in TiedSuffixes(r, a) :
                    LET b == BehindAllBut(after, r, a, u)
                    IN  SetQueue(Advanced(Inserted(r, u), b), b, tied \cup {u})
              /\ link' = [link EXCEPT ![u] = None]
    /\ UNCHANGED <<accepting, tables>>

Join(u) == JoinOrRefresh(u, TRUE)
Read(u) == JoinOrRefresh(u, FALSE)

\* DELETE /api/queue.
Leave(u) ==
    /\ accepting = None
    /\ LET r == IF u \in InQueue(row)
                THEN [row EXCEPT ![u] = [status |-> "left", ttl |-> 0]] ELSE row
           a == Among(ahead, InQueue(r))
       IN  SetQueue(Advanced(r, a), a, tied)
    /\ UNCHANGED <<accepting, link, tables>>

-----------------------------------------------------------------------------
(* createPostgresDriveSessionStore.create.                                 *)

CreateBegin(u, c) ==
    /\ accepting = None
    /\ LET r == Advanced(row, ahead)
       IN  /\ SetQueue(r, ahead, tied)
           /\ accepting' = IF r[u].status = "offered" /\ r[u].ttl > 0
                           THEN [user |-> u, car |-> c] ELSE None
    /\ UNCHANGED <<link, tables>>

\* The car is gone, held, or its heartbeat is stale: null.  The rows are read at
\* the clock of CreateBegin and the offer at a later one, so that at a deadline
\* this and CreateLapsed are both possible.
CreateRefused ==
    /\ accepting # None
    /\ \/ ~Selectable(accepting.car)
       \/ ~Ready(accepting.car)
       \/ Held(accepting.user, accepting.car)
    /\ accepting' = None
    /\ UNCHANGED <<row, ahead, tied, link, tables>>

\* The offer ran out in the wait: advance the queue once more, null.
CreateLapsed ==
    /\ accepting # None
    /\ Selectable(accepting.car)
    /\ \A s \in UnexpiredSessions :
          session[s].car # accepting.car /\ session[s].user # accepting.user
    /\ row[accepting.user].ttl = 0
    /\ SetQueue(Advanced(row, ahead), ahead, tied)
    /\ accepting' = None
    /\ UNCHANGED <<link, tables>>

\* s is the new session's id.
MutantGrantedLate(s) ==
    /\ accepting # None
    /\ CreateSession(accepting.user, accepting.car, s)
    /\ SetQueue([row EXCEPT ![accepting.user].status = "accepted"], ahead, tied)
    /\ link' = [link EXCEPT ![accepting.user] = s]
    /\ accepting' = None

CreateGranted(s) ==
    /\ accepting # None
    /\ row[accepting.user].ttl > 0
    /\ CreateSession(accepting.user, accepting.car, s)
    /\ SetQueue([row EXCEPT ![accepting.user].status = "accepted"], ahead, tied)
    /\ link' = [link EXCEPT ![accepting.user] = s]
    /\ accepting' = None

-----------------------------------------------------------------------------
(* The gateway ends sessions, and the queue rows they were created from.   *)

MutantReleasedNone(ss) == UNCHANGED queueVars
MutantReleasedEnded(ss) ==
    /\ row' = [u \in Users |->
          IF link[u] \in ss THEN [status |-> "ended", ttl |-> 0] ELSE row[u]]
    /\ link' = [u \in Users |-> IF link[u] \in ss THEN None ELSE link[u]]
    /\ UNCHANGED <<ahead, tied, accepting>>
Released(ss) ==
    /\ row' = [u \in Users |->
          IF link[u] \in ss THEN [status |-> "left", ttl |-> 0] ELSE row[u]]
    /\ link' = [u \in Users |-> IF link[u] \in ss THEN None ELSE link[u]]
    /\ UNCHANGED <<ahead, tied, accepting>>

QEndDriveSession(s) == EndDriveSession(s) /\ Released({s})
QExpireDriveSessions == ExpireDriveSessions /\ Released(ExpirableSessions)

-----------------------------------------------------------------------------
QTick ==
    /\ Tick
    /\ row' = [u \in Users |-> [row[u] EXCEPT !.ttl = Dec(row[u].ttl)]]
    /\ tied' = {}
    /\ UNCHANGED <<ahead, link, accepting>>

Init ==
    /\ TablesInit
    /\ row = [u \in Users |-> [status |-> "none", ttl |-> 0]]
    /\ ahead = [u \in Users |-> {}]
    /\ tied = {}
    /\ link = [u \in Users |-> None]
    /\ accepting = None

QueueStep ==
    \/ \E u \in Users : Join(u) \/ Read(u) \/ Leave(u)
    \/ \E u \in Users, c \in Cars : CreateBegin(u, c)
    \/ CreateRefused \/ CreateLapsed
    \/ \E s \in Sessions : CreateGranted(s)

GatewayStep ==
    \/ \E s \in Sessions :
          \/ UNCHANGED queueVars /\ (AuthorizeDriveSession(s) \/ MarkDriveSessionActive(s))
          \/ QEndDriveSession(s)
    \/ QExpireDriveSessions
    \/ UNCHANGED queueVars /\ DeviceStep

Next == QueueStep \/ GatewayStep \/ (UNCHANGED queueVars /\ GatewayStops) \/ QTick

Spec == Init /\ [][Next]_vars

\* The clock runs, the gateway's sweep timer fires, and a statement that waits
\* for a row gets it.  Nothing is assumed of browsers and devices.
Fairness ==
    /\ WF_vars(QTick) /\ WF_vars(QExpireDriveSessions)
    /\ \A d \in Devices : WF_vars(UNCHANGED queueVars /\ SetCarPresence(d))

FairSpec == Spec /\ Fairness

-----------------------------------------------------------------------------
(* Properties.                                                             *)

\* The live rows stand in one strict order, whatever joins, ties, lapses and
\* leaves made it: no two rows before each other, none without a place.
QueueOrder ==
    /\ \A u \in Users : ahead[u] \subseteq InQueue(row) \ {u}
    /\ \A u, v \in InQueue(row) : u # v => (u \in ahead[v] <=> v \notin ahead[u])
    /\ \A u, v, w \in InQueue(row) : u \in ahead[v] /\ v \in ahead[w] => u \in ahead[w]

\* "The first N waiting users may select": whoever has an offer, everyone before
\* them has one too, also while cars come and go between two advances.
OffersAtTheFront == \A u \in Offered(row) : ahead[u] \subseteq Offered(row)

\* A user with a running drive holds no place in the queue: a late poll, a
\* second tab or a join cannot queue the driver again.
DriverNotQueued == \A s \in UnexpiredSessions : session[s].user \notin InQueue(row)

\* An accepted row and the session made from it live and end together, also
\* when the user queues again before the sweep reaches the old session.
AcceptedRowHasDrive == \A u \in Users :
    /\ row[u].status = "accepted" <=> link[u] \in LiveSessions
    /\ link[u] # None => session[link[u]].user = u

\* A step never moves a user behind another one, unless the user's lease or
\* offer had run out.
PlacesKept == [][
    \A u, v \in InQueue(row) \cap InQueue(row') :
        u \in ahead[v] /\ row[u].ttl > 0 => u \in ahead'[v]]_vars

\* "Polling, page reloads and repeated joins before expiry never extend it":
\* an offer's deadline only comes nearer.  Only a POST by the driver, after the
\* offer ran out, finds a later one: it starts over with a new row.
OfferNotExtended == [][
    \A u \in Offered(row) \cap Offered(row') :
        row'[u].ttl > row[u].ttl => Lapsed(row, u) /\ Join(u)]_vars

\* "Loss of car availability cancels an offer": nothing else does.  Exempt are
\* rows inserted in the same instant, whose order is settled by a random id.
OfferWithdrawnForCapacity == [][
    \A u \in Offered(row) \ tied : row[u].ttl > 0 /\ row'[u].status = "waiting"
        => Cardinality(AvailableCars) < Cardinality(Offered(row))]_vars

\* Each queue transaction leaves offers with exactly the first N live rows, N
\* the number of available cars: none idle, none promised twice.
OffersMatchCapacity == [][
    (\E u \in Users : Join(u) \/ Read(u) \/ Leave(u)) \/ CreateLapsed =>
        \A u \in InQueue(row') : row'[u].status = "offered"
            <=> Cardinality(ahead'[u]) < Cardinality(AvailableCars)]_vars

-----------------------------------------------------------------------------
(* The queue and the tables lend cars to invited drivers (CarLending).     *)

Holder(c) ==
    IF \E s \in LiveSessions : session[s].car = c
    THEN session[CHOOSE s \in LiveSessions : session[s].car = c].user ELSE None

\* The users whose offer still has time: past its deadline it invites nobody.
Invited(r) == {u \in Offered(r) : r[u].ttl > 0}

Lending == INSTANCE CarLending WITH
    holder <- [c \in Cars |-> Holder(c)], invited <- Invited(row)

\* Every step invites, lends to a driver whose offer has not run out - also after
\* a wait for the car's row -, takes back, or leaves the lending alone; and every
\* car lent comes back.
LendsCars == Lending!FairSpec
=============================================================================
