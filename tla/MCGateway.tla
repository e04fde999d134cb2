------------------------------ MODULE MCGateway ------------------------------
(* Small instances of the gateway.                                         *)
EXTENDS Gateway, TLC

CONSTANTS c1, d1

OneCarOf == d1 :> c1

Symm == Permutations(Users) \cup Permutations(Sessions)
    \cup Permutations(DeviceSockets) \cup Permutations(BrowserSockets)

\* A car that is blocked is not available, as one that is offline is not.
HealthyBeats == \A d \in Devices : beat[d] # None => beat[d].state = "AVAILABLE"

RestartSpec == GInit /\ [][GNext /\ HealthyBeats']_gvars /\ GFairness

\* To keep the instance with two drives and two connections of each kind small:
\* three connections at a time, one session being ended, few statements under
\* way, and those of one device one after the other (the instance with a restart
\* goes without these limits).
FewInFlight ==
    /\ HealthyBeats
    /\ Cardinality({k \in DeviceSockets : dsock[k] # IdleDevice})
          + Cardinality({k \in BrowserSockets : bsock[k] # IdleBrowser}) <= 3
    /\ Cardinality(jobs) <= 1
    /\ Cardinality({d \in Devices : beat[d] # None} \cup falling) + Cardinality(jobs) <= 2
    /\ \A d \in falling : beat[d] = None
    /\ \A j \in jobs : j.off # None => falling = {} /\ beat[j.off] = None

FewSpec == GInit /\ [][SteadyNext /\ FewInFlight']_gvars
==============================================================================
