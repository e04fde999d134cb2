------------------------------ MODULE AdvanceLoop ------------------------------
(***************************************************************************)
(* advanceLiveQueue as the loop it is in the code, turn by turn, run on    *)
(* any queue and any number of available cars and then again on what it    *)
(* left, to check that the closed form LiveQueue is written with           *)
(* (Advanced) computes the same rows.                                      *)
(***************************************************************************)
EXTENDS LiveQueue

CONSTANT Place      \* the users' places, should they queue: [Users -> Nat]

ASSUME PlaceAssumption ==
    /\ Place \in [Users -> Nat]
    /\ \A u, v \in Users : Place[u] = Place[v] => u = v

VARIABLES
    rows,   \* queue_entries as the loop has left it so far; row is what it found
    todo,   \* the selected rows it has not come to
    kept,   \* entries.length
    again   \* whether what it found is what it left the last time

loopVars == <<rows, todo, kept, again, vars>>

-----------------------------------------------------------------------------
\* The first update of advanceLiveQueue.
Expired(r) == [u \in Users |->
    IF LeaseOver(r, u) THEN [r[u] EXCEPT !.status = "expired"] ELSE r[u]]

\* One turn of the loop, for the first row that is left.
Turned(u, eligible) ==
    LET status == IF eligible THEN "offered" ELSE "waiting"
        lease == IF eligible THEN QUEUE_OFFER ELSE QUEUE_LEASE
    IN  rows' = IF rows[u].status = status THEN rows
                ELSE [rows EXCEPT ![u] = [status |-> status, ttl |-> lease]]

MutantLapsedTakesPlace(u) ==
    /\ u \in todo /\ ahead[u] \cap todo = {}
    /\ todo' = todo \ {u}
    /\ kept' = kept + 1
    /\ LET eligible == kept < Cardinality(AvailableCars)
       IN  IF rows[u].status = "offered" /\ eligible /\ rows[u].ttl = 0
           THEN rows' = [rows EXCEPT ![u].status = "missed"]
           ELSE Turned(u, eligible)
    /\ UNCHANGED <<again, vars>>
Visit(u) ==
    /\ u \in todo /\ ahead[u] \cap todo = {}
    /\ todo' = todo \ {u}
    /\ LET eligible == kept < Cardinality(AvailableCars)
       IN  IF rows[u].status = "offered" /\ eligible /\ rows[u].ttl = 0
           THEN rows' = [rows EXCEPT ![u].status = "missed"] /\ UNCHANGED kept
           ELSE Turned(u, eligible) /\ kept' = kept + 1
    /\ UNCHANGED <<again, vars>>

\* joinOrRefresh calls it a second time within the instant.
Rerun ==
    /\ todo = {} /\ again' = TRUE
    /\ SetQueue(rows, ahead, tied)
    /\ rows' = Expired(rows) /\ todo' = InQueue(rows') /\ kept' = 0
    /\ UNCHANGED <<link, accepting, tables>>

\* Any rows, and any of the cars available.
LoopInit ==
    /\ session = [s \in Sessions |-> NoSession] /\ beat = [d \in Devices |-> None] /\ falling = {}
    /\ \E up \in SUBSET Cars :
        /\ car = [c \in Cars |-> IF c \in up THEN "AVAILABLE" ELSE "OFFLINE"]
        /\ device = [d \in Devices |->
              IF CarOf[d] \in up THEN [state |-> "AVAILABLE", age |-> 0]
                                 ELSE [state |-> "OFFLINE", age |-> DEVICE_FRESHNESS]]
    /\ row \in [Users -> [status: LiveStatus \cup {"none"}, ttl: 0 .. QUEUE_LEASE]]
    /\ ahead = Among([u \in Users |-> {v \in Users : Place[v] < Place[u]}], InQueue(row))
    /\ tied = {} /\ accepting = None /\ link = [u \in Users |-> None]
    /\ rows = Expired(row) /\ todo = InQueue(rows) /\ kept = 0 /\ again = FALSE

LoopNext == Rerun \/ \E u \in Users : Visit(u)

LoopSpec == LoopInit /\ [][LoopNext]_loopVars

-----------------------------------------------------------------------------
\* The closed form is what the loop computes (advanceLiveQueue).
AdvancedIsTheLoop == todo = {} => rows = Advanced(row, ahead)

\* Advancing twice in one instant is advancing once: joinOrRefresh calls it
\* before and after its own change, and answers with what the second call finds.
AdvanceSettles == again /\ todo = {} => rows = row
=============================================================================
