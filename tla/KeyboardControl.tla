---------------------------- MODULE KeyboardControl ----------------------------
(* keyboard-control.ts: what a set of pressed keys, named by their meaning, asks *)
(* of the car.  Opposite keys cancel; nitro only goes forward.                   *)
EXTENDS Integers

Axis(minus, plus) == IF minus = plus THEN 0 ELSE IF plus THEN 1 ELSE -1

Intent(p) == [steering |-> Axis("A" \in p, "D" \in p),
              throttle |-> Axis("S" \in p, "W" \in p),
              nitro |-> {"W", "NITRO"} \subseteq p /\ "S" \notin p]
=============================================================================
