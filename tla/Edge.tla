--------------------------------- MODULE Edge ---------------------------------
(***************************************************************************)
(* The edge service: EdgeSafetyGate decides on every control command of the  *)
(* active ride, EdgeOutbox keeps what happened in SQLite.  The gate is in    *)
(* memory: a restart forgets it, the outbox stays.                           *)
(***************************************************************************)
EXTENDS Integers, Sequences

CONSTANTS
    EdgeRides,      \* ids of rides
    SEQUENCES,      \* bound: sequence numbers of commands
    EVENTS          \* bound: rows of the outbox

NONE == "none"

ASSUME EdgeAssumption == SEQUENCES \in Nat /\ EVENTS \in Nat /\ NONE \notin EdgeRides

VARIABLES
    operatorStop, activeRide, lastSequence,     \* EdgeSafetyGate
    outbox,         \* edge_outbox: the keys in the order of producer_sequence
    \* The history of the gate:
    stopped,        \* an operator stopped it, and activated no ride since
    driven          \* the sequences accepted since the last activation

gateVars == <<operatorStop, activeRide, lastSequence>>
edgeVars == <<gateVars, outbox, stopped, driven>>

-----------------------------------------------------------------------------
Logged(key) == \E i \in DOMAIN outbox : outbox[i] = key

\* append: one row per idempotency key, at max(producer_sequence) + 1; or it
\* throws, and the client sees an error although the gate has acted.
LogAs(key) ==
    \/ /\ Len(outbox) < EVENTS
       /\ outbox' = IF Logged(key) THEN outbox ELSE Append(outbox, key)
    \/ UNCHANGED outbox

\* POST rides/activate: also for the ride that is active already.
Activate(r) ==
    /\ activeRide' = r /\ lastSequence' = -1 /\ operatorStop' = FALSE
    /\ LogAs(<<"activated", r, 0>>)
    /\ stopped' = FALSE /\ driven' = <<>>

\* POST stop-all: its key is a fresh uuid.
Stop ==
    /\ operatorStop' = TRUE
    /\ LogAs(<<"stop", NONE, Len(outbox)>>)
    /\ stopped' = TRUE
    /\ UNCHANGED <<activeRide, lastSequence, driven>>

\* apply: why a command is refused, the first reason that holds; fresh: it is at
\* most 100 ms old.
MutantRefused(r, seq, fresh) ==
    IF operatorStop THEN "latched" ELSE IF r # activeRide THEN "ride_mismatch"
    ELSE IF seq < lastSequence THEN "stale_or_replayed_sequence" ELSE IF ~fresh THEN "stale_command" ELSE NONE
Refused(r, seq, fresh) ==
    IF operatorStop THEN "latched"
    ELSE IF r # activeRide THEN "ride_mismatch"
    ELSE IF seq <= lastSequence THEN "stale_or_replayed_sequence"
    ELSE IF ~fresh THEN "stale_command" ELSE NONE

\* POST control, refused: neutral, logged once per ride, sequence and reason.
Neutral(r, seq, fresh) ==
    /\ Refused(r, seq, fresh) # NONE
    /\ LogAs(<<Refused(r, seq, fresh), r, seq>>)
    /\ UNCHANGED <<gateVars, stopped, driven>>

\* POST control, accepted.
Drive(r, seq) ==
    /\ Refused(r, seq, TRUE) = NONE
    /\ lastSequence' = seq
    /\ driven' = Append(driven, seq)
    /\ UNCHANGED <<operatorStop, activeRide, outbox, stopped>>

\* The process ends at any point between two requests and starts again.
Restart ==
    /\ operatorStop' = FALSE /\ activeRide' = NONE /\ lastSequence' = -1
    /\ UNCHANGED <<outbox, stopped, driven>>

EdgeInit ==
    /\ operatorStop = FALSE /\ activeRide = NONE /\ lastSequence = -1
    /\ outbox = <<>>
    /\ stopped = FALSE /\ driven = <<>>
EdgeNext ==
    \/ Stop \/ Restart
    \/ \E r \in EdgeRides : Activate(r)
    \/ \E r \in EdgeRides, seq \in 0 .. SEQUENCES :
        Drive(r, seq) \/ \E fresh \in BOOLEAN : Neutral(r, seq, fresh)

EdgeSpec == EdgeInit /\ [][EdgeNext]_edgeVars

-----------------------------------------------------------------------------
\* A command moves the car only if no operator stopped it since the last
\* activation and no later or equal sequence was accepted since then, although a
\* restart forgets both, and although the outbox may fail after the gate acted
\* (EdgeSafetyGate).
StopHolds ==
    [][Len(driven') > Len(driven) =>
        ~stopped /\ \A i \in DOMAIN driven : driven[i] < driven'[Len(driven')]]_edgeVars
=============================================================================
