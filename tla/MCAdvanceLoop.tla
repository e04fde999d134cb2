---------------------------- MODULE MCAdvanceLoop ----------------------------
(* Four users in a fixed order, three cars with a device each.             *)
EXTENDS AdvanceLoop, TLC

CONSTANTS u1, u2, u3, u4, c1, c2, c3, d1, d2, d3

TripleCarOf == d1 :> c1 @@ d2 :> c2 @@ d3 :> c3
InTurn == u1 :> 1 @@ u2 :> 2 @@ u3 :> 3 @@ u4 :> 4
==============================================================================
