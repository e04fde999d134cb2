----------------------------- MODULE KeyboardDrive -----------------------------
(***************************************************************************)
(* KeyboardDriveModel: a key that is only up or down becomes a steering    *)
(* and a throttle that change while it is held.  The page updates the      *)
(* model at every key; the control loop samples it at every command.       *)
(* performance.now() never goes back, so the clock the model keeps is now. *)
(***************************************************************************)
EXTENDS KeyboardControl

CONSTANTS
    TURN,       \* how long a turn takes to be full, after a full run-up
    NITRO_TURN, \* the same for a turn begun under nitro
    RUN_UP,     \* how long forward must be held for that
    BRAKE,      \* how long a held reverse brakes before it drives gently
    TIMES       \* bound: the clock's last time

ASSUME KeyboardAssumption ==
    /\ {TURN, NITRO_TURN, RUN_UP, BRAKE} \subseteq Nat \ {0}
    /\ TIMES \in Nat

VARIABLES
    now,        \* performance.now()
    keysDown,   \* the keys the page takes for held
    ramp        \* the model: its intent, and since when what is held

keyboardVars == <<now, keysDown, ramp>>

-----------------------------------------------------------------------------
Never == -1
Least(a, b) == IF a < b THEN a ELSE b

AtRest == [intent |-> Intent({}), forward |-> Never, reverse |-> Never, turn |-> Never, duration |-> 0]

\* Since when the throttle has been d.
HeldSince(since, d, next) ==
    IF next.throttle # d THEN Never ELSE IF ramp.intent.throttle # d THEN now ELSE since

\* The time a turn begun now takes, in 1/RUN_UP of a time.
TurnTime(next) ==
    LET forward == HeldSince(ramp.forward, 1, next)
    IN  IF forward = Never THEN 0
        ELSE (IF next.nitro THEN NITRO_TURN ELSE TURN) * Least(RUN_UP, now - forward)

MutantTurned(next) ==
    IF next.steering # ramp.intent.steering
    THEN [turn |-> IF next.steering = 0 THEN Never ELSE now, duration |-> TurnTime(next)]
    ELSE [turn |-> ramp.turn,
          duration |-> IF next.throttle # 1 THEN 0 ELSE LET d == TurnTime(next) IN IF d = 0 THEN ramp.duration ELSE d]

Turned(next) ==
    IF next.steering # ramp.intent.steering
    THEN [turn |-> IF next.steering = 0 THEN Never ELSE now, duration |-> TurnTime(next)]
    ELSE [turn |-> ramp.turn, duration |-> IF next.throttle # 1 THEN 0 ELSE ramp.duration]

\* What the controls are given: sample().
Progress == IF ramp.turn # Never /\ ramp.duration > 0
            THEN [part |-> Least((now - ramp.turn) * RUN_UP, ramp.duration), of |-> ramp.duration]
            ELSE [part |-> 1, of |-> 1]
Gentle == ramp.reverse # Never /\ now - ramp.reverse >= BRAKE

-----------------------------------------------------------------------------
\* applyPressedKeys.
Keyed(keys) ==
    LET next == Intent(keys)
    IN  /\ keysDown' = keys
        /\ ramp' = [intent |-> next,
                    forward |-> HeldSince(ramp.forward, 1, next),
                    reverse |-> HeldSince(ramp.reverse, -1, next),
                    turn |-> Turned(next).turn, duration |-> Turned(next).duration]
        /\ UNCHANGED now

PressKey(k) == k \notin keysDown /\ Keyed(keysDown \cup {k})

ReleaseKey(k) == k \in keysDown /\ Keyed(keysDown \ {k})

\* neutralize: focus is lost, the page hidden or its video frozen.
LetGo ==
    /\ keysDown # {} /\ keysDown' = {}
    /\ ramp' = AtRest
    /\ UNCHANGED now

Tick == now < TIMES /\ now' = now + 1 /\ UNCHANGED <<keysDown, ramp>>

-----------------------------------------------------------------------------
KeyboardInit == now = 0 /\ keysDown = {} /\ ramp = AtRest

KeyboardNext ==
    \/ \E k \in {"W", "A", "S", "D", "NITRO"} : PressKey(k) \/ ReleaseKey(k)
    \/ LetGo \/ Tick

-----------------------------------------------------------------------------
\* While a turn is held the wheels never ease back, whatever the driver does with
\* gas and nitro meanwhile: the ramp begun with the turn stays the one it follows,
\* and a turn that became full stays full.  A held reverse that has changed from
\* braking to driving does not brake again.
HeldKeysSteady ==
    [][/\ ramp.intent.steering # 0 /\ ramp'.intent.steering = ramp.intent.steering
          => Progress.part * Progress'.of <= Progress'.part * Progress.of
       /\ Gentle /\ ramp'.intent.throttle = -1 => Gentle']_keyboardVars
=============================================================================
