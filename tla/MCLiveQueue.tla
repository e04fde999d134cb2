----------------------------- MODULE MCLiveQueue -----------------------------
(* Small instances of the live queue.                                      *)
EXTENDS LiveQueue, TLC

CONSTANTS c1, d1

OneCarOf == d1 :> c1

\* To keep the instance small: devices are healthy and their statements do not
\* overlap one another (those of a device with the web tier's still do).
Calm ==
    /\ Cardinality({d \in Devices : beat[d] # None}) + Cardinality(falling) <= 1
    /\ \A d \in Devices : beat[d] # None => beat[d].state = "AVAILABLE"

CalmSpec == Init /\ [][Next /\ Calm']_vars /\ Fairness
==============================================================================
