------------------------------ MODULE RideService ------------------------------
(***************************************************************************)
(* The simulation API: SimulationService, one user with fixed ids, over      *)
(* FairRideQueue and RideOrchestrator with its VersionedStateMachine.        *)
(***************************************************************************)
EXTENDS Naturals, Sequences, FiniteSets, FiniteSetsExt

CONSTANTS
    OFFER_TTL,      \* ttlSeconds of an offer
    MEMBER_TTL,     \* how long a queue entry lives
    USED,           \* usedSeconds of a ride: end() pretends two minutes
    MEMBERS,        \* bound: queue entries
    UNTIL           \* bound: the clock stops here

ASSUME RideAssumption == {OFFER_TTL, MEMBER_TTL, USED, MEMBERS, UNTIL} \subseteq Nat \ {0}

VARIABLES
    members,    \* #members of the queue, all with the id ids.queue
    offer,      \* #offers: when the one with the id ids.offer runs out; 0: none
    ride,       \* #rides: the one with the id ids.ride
    spent,      \* how far #balanceSeconds has gone down
    failing,    \* the scenario is webrtc-five-failures
    now

rideVars == <<members, offer, ride, spent, failing, now>>

-----------------------------------------------------------------------------
(* FairRideQueue.                                                           *)

\* The positions in the queue with one of the statuses.
At(queue, statuses) == {i \in DOMAIN queue : queue[i].status \in statuses}

\* expire, at the start of every snapshot.
Snapshot(queue) ==
    [i \in DOMAIN queue |-> IF i \in At(queue, {"waiting", "offered"}) /\ queue[i].expires <= now
                            THEN [queue[i] EXCEPT !.status = "expired"] ELSE queue[i]]

\* join, and the snapshot for the position.  An accepted entry counts as active.
JoinQueue ==
    /\ Len(members) < MEMBERS
    /\ members' = Snapshot(IF At(members, {"waiting", "offered", "accepted"}) # {} THEN members
                           ELSE Append(members, [status |-> "waiting", expires |-> now + MEMBER_TTL]))
    /\ UNCHANGED <<offer, ride, spent, failing, now>>

\* status and extend look at the queue, which expires what is over.
LookAtQueue ==
    /\ Snapshot(members) # members /\ members' = Snapshot(members)
    /\ UNCHANGED <<offer, ride, spent, failing, now>>

LeaveQueue ==
    /\ At(members, {"waiting"}) # {}
    /\ members' = [members EXCEPT ![Min(At(members, {"waiting"}))].status = "left"]
    /\ UNCHANGED <<offer, ride, spent, failing, now>>

\* offer; without a waiting entry it throws, and the snapshot stays taken.
CreateOffer ==
    LET queue == Snapshot(members)
        waiting == At(queue, {"waiting"})
    IN  /\ members' = IF waiting = {} THEN queue ELSE [queue EXCEPT ![Min(waiting)].status = "offered"]
        /\ offer' = IF waiting = {} THEN offer ELSE now + OFFER_TTL
        /\ UNCHANGED <<ride, spent, failing, now>>

-----------------------------------------------------------------------------
(* RideOrchestrator.                                                        *)

rideTransitions ==
    [CREATED |-> {"OFFERED", "FAILED"}, OFFERED |-> {"ACCEPTED", "FAILED"},
     ACCEPTED |-> {"NEGOTIATING", "FAILED"}, NEGOTIATING |-> {"ACTIVE", "FAILED", "FULLY_COMPENSATED"},
     ACTIVE |-> {"RECONNECT_GRACE", "PAUSED_SITE_FAILOVER", "ENDING"},
     RECONNECT_GRACE |-> {"ACTIVE", "ENDING", "PARTIALLY_COMPENSATED"},
     PAUSED_SITE_FAILOVER |-> {"ACTIVE", "ENDING", "PARTIALLY_COMPENSATED"},
     ENDING |-> {"COMPLETED", "PARTIALLY_COMPENSATED", "FULLY_COMPENSATED"},
     COMPLETED |-> {}, FAILED |-> {"FULLY_COMPENSATED"},
     PARTIALLY_COMPENSATED |-> {}, FULLY_COMPENSATED |-> {}]

NewRide == [state |-> "CREATED", version |-> 1, attempts |-> 0, keys |-> {}]
NoRide == [NewRide EXCEPT !.version = 0]

\* transition: a key seen before changes nothing; the key of each step here names
\* the state it leads to.
Allowed(r, to) == to \in r.keys \cup rideTransitions[r.state]
Transition(r, to) ==
    IF to \in r.keys THEN r
    ELSE [r EXCEPT !.state = to, !.version = @ + 1, !.keys = @ \cup {to}]

\* The queue finds the entry of the offer by its id: the first entry ever made.
MutantTakes(queue) == queue # <<>>
Takes(queue) == queue # <<>> /\ queue[1].status = "offered"

\* acceptOffer.
AcceptOffer ==
    /\ now < offer /\ Takes(members)
    /\ members' = [members EXCEPT ![1].status = "accepted"]
    /\ ride' = Transition(Transition(NewRide, "OFFERED"), "ACCEPTED")
    /\ UNCHANGED <<offer, spent, failing, now>>

\* startNegotiation: one attempt that connects, or five that fail.
Negotiate ==
    /\ ride.state = "ACCEPTED"
    /\ LET started == [Transition(ride, "NEGOTIATING") EXCEPT !.attempts = IF failing THEN 5 ELSE 1]
       IN  ride' = Transition(started, IF failing THEN "FULLY_COMPENSATED" ELSE "ACTIVE")
    /\ UNCHANGED <<members, offer, spent, failing, now>>

\* end.
CanEnd == ride.state = "ACTIVE"
End ==
    /\ CanEnd /\ Allowed(ride, "ENDING")
    /\ ride' = Transition(Transition(ride, "ENDING"), "COMPLETED")
    /\ spent' = spent + USED
    /\ UNCHANGED <<members, offer, failing, now>>

SetScenario == failing' = ~failing /\ UNCHANGED <<members, offer, ride, spent, now>>

Tick == now < UNTIL /\ now' = now + 1 /\ UNCHANGED <<members, offer, ride, spent, failing>>

RidesInit ==
    /\ members = <<>> /\ offer = 0 /\ ride = NoRide
    /\ spent = 0 /\ failing = FALSE /\ now = 0
RidesNext ==
    \/ JoinQueue \/ LookAtQueue \/ LeaveQueue \/ CreateOffer \/ AcceptOffer
    \/ Negotiate \/ End \/ SetScenario \/ Tick

-----------------------------------------------------------------------------
\* A ride that is being driven stops being driven only by being charged, and
\* nothing else is charged: a second end, or an offer accepted again, neither
\* charges twice nor drops the ride unpaid (SimulationService, transition).
DrivenIsCharged ==
    [][/\ ride.state = "ACTIVE" /\ ride' # ride => ride'.state = "COMPLETED" /\ spent' = spent + USED
       /\ spent' # spent => ride.state = "ACTIVE"]_rideVars
=============================================================================
