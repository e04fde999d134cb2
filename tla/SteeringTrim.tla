------------------------------ MODULE SteeringTrim ------------------------------
(***************************************************************************)
(* The steering trim of a drive: the slider of the ride page, the save it  *)
(* delays, and PATCH /api/drive-sessions/.../steering-trim, which writes   *)
(* the trim of the session's car.  Saves may overtake each other.          *)
(***************************************************************************)
EXTENDS Naturals

CONSTANT SLIDES         \* bound: times the driver moves the slider

ASSUME TrimAssumption == SLIDES \in Nat

VARIABLES
    slider,     \* the value shown, its save's revision, timer and status
    saves,      \* the requests in flight, or answered and not yet handled
    stored,     \* cars.steering_trim_percent
    driving     \* whether the session is live and unexpired

trimVars == <<slider, saves, stored, driving>>

-----------------------------------------------------------------------------
\* A value is the number of the move that made it; 0 came with the session.
\* updateSteeringTrim: a move replaces the save that is still waiting.
Slide ==
    /\ slider.revision < SLIDES
    /\ slider' = [value |-> slider.revision + 1, revision |-> slider.revision + 1,
                  timer |-> TRUE, status |-> "saving"]
    /\ UNCHANGED <<saves, stored, driving>>

SaveStarts ==
    /\ slider.timer /\ slider' = [slider EXCEPT !.timer = FALSE]
    /\ saves' = saves \cup {[value |-> slider.value, revision |-> slider.revision, answer |-> "none"]}
    /\ UNCHANGED <<stored, driving>>

\* The store: only the trim of a session that is still live can be written.
SaveTrim(s) ==
    /\ s \in saves /\ s.answer = "none"
    /\ stored' = IF driving THEN s.value ELSE stored
    /\ saves' = (saves \ {s}) \cup {[s EXCEPT !.answer = IF driving THEN "ok" ELSE "refused"]}
    /\ UNCHANGED <<slider, driving>>

\* The answer of a save that a newer move has replaced is ignored.
MutantLatest(s) == TRUE
Latest(s) == s.revision = slider.revision
TrimAnswered(s) ==
    /\ s \in saves /\ s.answer # "none" /\ saves' = saves \ {s}
    /\ slider' = IF ~Latest(s) THEN slider
                 ELSE IF s.answer = "ok" THEN [slider EXCEPT !.value = s.value, !.status = "saved"]
                 ELSE [slider EXCEPT !.status = "not-saved"]
    /\ UNCHANGED <<stored, driving>>

\* A request that fails on its way, before the server or after it.
TrimLost(s) ==
    /\ s \in saves /\ saves' = saves \ {s}
    /\ slider' = IF Latest(s) THEN [slider EXCEPT !.status = "not-saved"] ELSE slider
    /\ stored' \in {stored, IF driving /\ s.answer = "none" THEN s.value ELSE stored}
    /\ UNCHANGED driving

\* The page is left: no answer counts any more.  The session ends.
TrimLeft ==
    /\ slider.revision <= SLIDES
    /\ slider' = [slider EXCEPT !.timer = FALSE, !.revision = SLIDES + 1]
    /\ UNCHANGED <<saves, stored, driving>>

TrimSessionEnds == driving /\ driving' = FALSE /\ UNCHANGED <<slider, saves, stored>>

TrimInit ==
    /\ slider = [value |-> 0, revision |-> 0, timer |-> FALSE, status |-> "saved"]
    /\ saves = {} /\ stored = 0 /\ driving = TRUE

TrimNext ==
    \/ Slide \/ SaveStarts \/ TrimLeft \/ TrimSessionEnds
    \/ \E s \in saves : SaveTrim(s) \/ TrimAnswered(s) \/ TrimLost(s)

TrimSpec == TrimInit /\ [][TrimNext]_trimVars

-----------------------------------------------------------------------------
\* The slider stays where the driver last put it: the answer of a save that was
\* overtaken neither moves it back nor calls it saved.
TrimStaysPut ==
    slider.revision \in 1 .. SLIDES =>
        /\ slider.value = slider.revision
        /\ slider.status = "saved" => \A s \in saves : s.revision # slider.revision
=============================================================================
