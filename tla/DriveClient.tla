------------------------------ MODULE DriveClient ------------------------------
(***************************************************************************)
(* The driver's page (apps/web/app): one connection attempt after another, *)
(* the control loop that speaks to the car over two data channels, the     *)
(* video watchdog, and the keys and touches of the driver.                 *)
(*                                                                         *)
(* JavaScript runs one handler at a time: an action is one event's         *)
(* handler, with every call it makes.  What comes from outside (the        *)
(* gateway, the peer connection, frames, the window, the driver) comes in  *)
(* any order.  An input is its direction; KeyboardDrive has the ramps.     *)
(***************************************************************************)
EXTENDS KeyboardControl, FiniteSets

CONSTANTS
    Keys,       \* the keys that drive, by meaning: "W" "A" "S" "D" "NITRO"
    FREEZE      \* ticks without a frame until the video counts as frozen

ASSUME ClientAssumption == Keys \subseteq {"W", "A", "S", "D", "NITRO"} /\ FREEZE \in Nat \ {0}

VARIABLES
    attempt,    \* RideConnectionAttempt: its stage
    seen,       \* what readiness waits for: a route, a frame
    signal,     \* how far the signalling and the peer connection have got
    chan,       \* the two data channels; full: bufferedAmount > 0
    loop,       \* BrowserControlLoop
    told,       \* the last message the reliable channel took
    sent,       \* armed in the last command the fast channel took
    video,      \* the video element and RideVideoSafety
    paused,     \* videoPausedRef
    page,       \* the window, and whether the effect with its listeners has run
    held,       \* keys the driver's fingers are on
    pressed,    \* pressedRef: keys the page takes for held
    touch       \* whether the throttle pad has captured a finger

wires == <<chan, told, sent>>
input == <<held, pressed, touch>>
controls == <<loop, told, sent, paused, pressed, touch>>
clientVars == <<attempt, seen, signal, chan, controls, video, page, held>>

-----------------------------------------------------------------------------
Channels == {"fast", "reliable"}
Active == attempt \in {"creating", "connecting", "ready"}

Neutral == Intent({})
Touched == [Neutral EXCEPT !.throttle = 1]

NewChannels == [c \in Channels |-> [state |-> "connecting", full |-> FALSE]]
NewLoop == [running |-> FALSE, requested |-> FALSE, armed |-> FALSE, input |-> Neutral]
NewVideo == [open |-> TRUE, watching |-> FALSE, playing |-> FALSE, age |-> FREEZE, fresh |-> FALSE]

Usable(c) == chan[c].state = "open" /\ ~chan[c].full

-----------------------------------------------------------------------------
(* BrowserControlLoop; the operators name the loop they leave behind.      *)

\* arm, and #tryArm: the car is told first, over channels with nothing waiting.
ArmFrom(l) ==
    LET arms == ~l.armed /\ \A c \in Channels : Usable(c)
    IN  /\ loop' = [l EXCEPT !.requested = TRUE, !.armed = l.armed \/ arms]
        /\ told' = IF arms THEN "arm" ELSE told
        /\ UNCHANGED sent

\* disarm, and neutral: the input is dropped and each channel told, if it can be.
MutantSilent(l) == [l EXCEPT !.requested = FALSE, !.armed = FALSE]
Silent(l) == [l EXCEPT !.requested = FALSE, !.armed = FALSE, !.input = Neutral]
DisarmFrom(l) ==
    /\ loop' = Silent(l)
    /\ told' = IF Usable("reliable") THEN "neutral" ELSE told
    /\ sent' = (sent /\ ~Usable("fast"))

\* onArmedChange(false) of the page: the keys are forgotten, the pad lets go.
ForgetInput == pressed' = {} /\ touch' = FALSE
ForgetInputIfArmed == IF loop.armed THEN ForgetInput ELSE UNCHANGED <<pressed, touch>>

\* sendLatest, every 20 ms.
SendLatest ==
    /\ loop.running /\ Usable("fast")
    /\ sent' = loop.armed
    /\ UNCHANGED <<attempt, seen, signal, chan, loop, told, paused, input, video, page>>

\* #transportFailed: a packet has waited for 200 ms while armed, or a send threw.
TransportFails ==
    /\ loop.running /\ chan["fast"].state = "open" /\ (chan["fast"].full => loop.armed)
    /\ loop' = Silent(loop)
    /\ told' = IF Usable("reliable") THEN "neutral" ELSE told
    /\ ForgetInputIfArmed
    /\ UNCHANGED <<attempt, seen, signal, chan, sent, paused, video, page, held>>

\* A channel opens, and the loop tries to arm; it fills up, it drains.
ChannelOpens(c) ==
    /\ signal = "connected" /\ attempt \in {"connecting", "ready"}
    /\ chan[c].state = "connecting"
    /\ chan' = [chan EXCEPT ![c].state = "open"]
    /\ LET arms == loop.requested /\ \A d \in Channels \ {c} : Usable(d)
       IN  /\ loop' = [loop EXCEPT !.armed = loop.armed \/ arms]
           /\ told' = IF arms THEN "arm" ELSE told
    /\ UNCHANGED <<attempt, seen, signal, sent, paused, input, video, page>>

ChannelFills(c) ==
    /\ chan[c].state = "open"
    /\ chan' = [chan EXCEPT ![c].full = ~chan[c].full]
    /\ UNCHANGED <<attempt, seen, signal, controls, video, page, held>>

-----------------------------------------------------------------------------
(* RideVideoSafety, and what the page does on a change of freshness.       *)

\* #ready of the watchdog v, and isFresh.
Presenting(v) == v.open /\ v.watching /\ v.playing /\ page.visible
MutantFreshIn(v) == Presenting(v) /\ (v.age < FREEZE \/ v.fresh)
FreshIn(v) == Presenting(v) /\ v.age < FREEZE
MayDrive == ~paused /\ FreshIn(video)

\* pauseForVideo; the page has the loop only once the attempt is ready.
PauseForVideo ==
    /\ paused' = TRUE
    /\ ForgetInput
    /\ IF page.listening \/ attempt = "ready" THEN DisarmFrom(loop)
       ELSE UNCHANGED <<loop, told, sent>>

\* #tryReady with this evidence, while v is watched: the loop is started, and
\* armed unless the video has stopped since its first frame (canArmControls).
TryReady(evidence, v) ==
    /\ seen' = evidence
    /\ IF evidence = {"route", "frame"} /\ attempt = "connecting"
       THEN /\ attempt' = "ready"
            /\ LET started == [loop EXCEPT !.running = TRUE]
               IN  IF FreshIn(v) /\ ~paused
                   THEN ArmFrom(started) /\ UNCHANGED <<paused, pressed, touch>>
                   ELSE paused' = TRUE /\ DisarmFrom(started) /\ ForgetInput
       ELSE UNCHANGED <<attempt, controls>>

\* #publish by the watchdog v: a new freshness counts as the first frame
\* (markVideoLoadedData), a lost one pauses the drive.
Publish(v) ==
    /\ video' = [v EXCEPT !.fresh = FreshIn(v)]
    /\ IF FreshIn(v) /\ ~video.fresh THEN TryReady(seen \cup {"frame"}, v)
       ELSE IF ~FreshIn(v) /\ video.fresh THEN PauseForVideo /\ UNCHANGED <<attempt, seen>>
       ELSE UNCHANGED <<attempt, seen, controls>>

\* watch, once the stream has a video track; attach starts the element.
TrackReceived ==
    /\ attempt = "connecting" /\ signal \in {"answered", "connected"} /\ ~video.watching
    /\ video' = [video EXCEPT !.watching = TRUE]
    /\ UNCHANGED <<attempt, seen, signal, chan, controls, page, held>>

\* The element plays, stalls or is paused by the browser.
ElementPlays ==
    /\ video.open /\ video.watching
    /\ video' = [video EXCEPT !.playing = ~video.playing]
    /\ UNCHANGED <<attempt, seen, signal, chan, controls, page, held>>

\* The callback of a frame (or, without callbacks, a poll that sees progress).
FrameArrives ==
    /\ Presenting(video) /\ signal = "connected"
    /\ Publish([video EXCEPT !.age = 0])
    /\ UNCHANGED <<signal, chan, page, held>>

FrameAges ==
    /\ video.age < FREEZE
    /\ video' = [video EXCEPT !.age = video.age + 1]
    /\ UNCHANGED <<attempt, seen, signal, chan, controls, page, held>>

\* check: every 100 ms, on the freeze timer and on the element's events.
VideoCheck ==
    /\ video.open /\ video.watching
    /\ Publish(IF Presenting(video) THEN video ELSE [video EXCEPT !.age = FREEZE])
    /\ UNCHANGED <<signal, chan, page, held>>

-----------------------------------------------------------------------------
(* RideConnectionAttempt and RideSessionClient.                            *)

\* start, by a page just opened (whatever it held before is gone) or by a retry.
Start ==
    /\ attempt \in {"none", "closed", "failed"}
    /\ attempt' = "creating" /\ seen' = {} /\ signal' = "none"
    /\ chan' = NewChannels /\ told' = "nothing" /\ sent' = FALSE
    /\ loop' = NewLoop /\ video' = NewVideo /\ paused' = FALSE
    /\ page' = [page EXCEPT !.listening = FALSE]
    /\ ForgetInput /\ UNCHANGED held

\* createDriveSession answers: the client connects, the loop gets the channels.
SessionCreated ==
    /\ attempt = "creating" /\ attempt' = "connecting"
    /\ UNCHANGED <<seen, signal, chan, controls, video, page, held>>

\* The socket opens; session.start, signal.answer; the peer connects.
Signals ==
    /\ attempt = "connecting"
    /\ signal' = CASE signal = "none" -> "opened"
                   [] signal = "opened" -> "offered"
                   [] signal = "offered" -> "answered"
                   [] OTHER -> "connected"
    /\ UNCHANGED <<attempt, seen, chan, controls, video, page, held>>

\* #reportConnectedRoute: getStats answers after the peer has connected.
RouteDetected ==
    /\ Active /\ signal = "connected" /\ "route" \notin seen
    /\ TryReady(seen \cup {"route"}, video)
    /\ UNCHANGED <<signal, chan, video, page, held>>

\* #teardown, which disarms and stops the loop and closes the client, with the
\* watchdog closed around it.
TornDown(stage) ==
    /\ attempt' = stage
    /\ DisarmFrom([loop EXCEPT !.running = FALSE])
    /\ chan' = [c \in Channels |-> [state |-> "closed", full |-> FALSE]]
    /\ video' = [video EXCEPT !.open = FALSE, !.fresh = FALSE, !.age = FREEZE]
    /\ UNCHANGED <<seen, signal, paused, page, held>>
Teardown(stage) == TornDown(stage) /\ ForgetInputIfArmed

\* fail: the session refused, a socket, peer or channel lost, a message
\* rejected, the element refusing to play; and the 15 s timer.
Interrupted == Active /\ Teardown("failed")

MutantTimed == attempt = "creating" \/ (attempt = "connecting" /\ signal # "connected")
Timed == attempt \in {"creating", "connecting"}
TimesOut == Timed /\ Teardown("failed")

\* close: the driver ends or leaves, or the page goes away.
Closes == attempt \notin {"none", "closed"} /\ Teardown("closed")

\* SessionCountdown: the session a page was given has run out.
Expires == attempt \in {"connecting", "ready", "failed"} /\ TornDown("closed") /\ ForgetInput

-----------------------------------------------------------------------------
(* The page, once its effect has run with the ready loop.                  *)

Listens ==
    /\ attempt = "ready" /\ ~page.listening
    /\ page' = [page EXCEPT !.listening = TRUE]
    /\ UNCHANGED <<attempt, seen, signal, chan, controls, video, held>>

Neutralize == DisarmFrom(loop) /\ ForgetInput
RearmIf(may) ==
    IF page.listening /\ may THEN ArmFrom(loop) ELSE UNCHANGED <<loop, told, sent>>

Blur ==
    /\ page.focused /\ page' = [page EXCEPT !.focused = FALSE]
    /\ IF page.listening THEN Neutralize ELSE UNCHANGED <<loop, told, sent, pressed, touch>>
    /\ UNCHANGED <<attempt, seen, signal, chan, paused, video, held>>

MutantMayRearm == FreshIn(video)
MayRearm == MayDrive
Focus ==
    /\ ~page.focused /\ page' = [page EXCEPT !.focused = TRUE]
    /\ RearmIf(MayRearm)
    /\ UNCHANGED <<attempt, seen, signal, chan, paused, video, input>>

\* visibilitychange: the watchdog's listener, then the page's.
Hide ==
    /\ page.visible /\ page' = [page EXCEPT !.visible = FALSE]
    /\ video' = [video EXCEPT !.age = FREEZE, !.fresh = FALSE]
    /\ IF video.fresh THEN PauseForVideo
       ELSE /\ IF page.listening THEN Neutralize
               ELSE UNCHANGED <<loop, told, sent, pressed, touch>>
            /\ UNCHANGED paused
    /\ UNCHANGED <<attempt, seen, signal, chan, held>>

Show ==
    /\ ~page.visible /\ page' = [page EXCEPT !.visible = TRUE]
    /\ UNCHANGED <<attempt, seen, signal, chan, controls, video, held>>

\* applyPressedKeys and, for a first key, the arming before it.
Press(keys, l) ==
    /\ pressed' = keys
    /\ loop' = [l EXCEPT !.input = Intent(keys)]

\* onKey.  Repeats of a held key are ignored; a release counts only if its press did.
KeyDown(k) ==
    /\ k \notin held /\ held' = held \cup {k}
    /\ IF ~(page.listening /\ page.focused) THEN UNCHANGED controls
       ELSE IF ~MayDrive THEN PauseForVideo
       ELSE LET arms == ~loop.armed /\ \A c \in Channels : Usable(c)
            IN  /\ Press(pressed \cup {k}, [loop EXCEPT !.armed = loop.armed \/ arms,
                                                        !.requested = loop.requested \/ ~loop.armed])
                /\ told' = IF arms THEN "arm" ELSE told
                /\ UNCHANGED <<sent, paused, touch>>
    /\ UNCHANGED <<attempt, seen, signal, chan, video, page>>

KeyUp(k) ==
    /\ k \in held /\ held' = held \ {k}
    /\ IF ~(page.listening /\ page.focused /\ k \in pressed) THEN UNCHANGED controls
       ELSE IF ~MayDrive THEN PauseForVideo
       ELSE Press(pressed \ {k}, loop) /\ UNCHANGED <<told, sent, paused, touch>>
    /\ UNCHANGED <<attempt, seen, signal, chan, video, page>>

\* applyMobileInput, of a pad touched, moved on or let go of; it is disabled
\* while the controls are not armed.
Touch(down) ==
    /\ loop.armed /\ (down \/ touch)
    /\ IF ~MayDrive THEN PauseForVideo
       ELSE /\ touch' = down /\ pressed' = {}
            /\ loop' = [loop EXCEPT !.input = IF down THEN Touched ELSE Neutral]
            /\ UNCHANGED <<told, sent, paused>>
    /\ UNCHANGED <<attempt, seen, signal, chan, video, page, held>>

\* The button that resumes the controls: freshness is looked up again.
Resume ==
    /\ attempt = "ready" /\ ~loop.armed
    /\ IF ~FreshIn(video) THEN PauseForVideo
       ELSE /\ paused' = FALSE
            /\ ArmFrom([loop EXCEPT !.input = Neutral])
            /\ UNCHANGED <<pressed, touch>>
    /\ UNCHANGED <<attempt, seen, signal, chan, video, page, held>>

-----------------------------------------------------------------------------
ClientInit ==
    /\ attempt = "none" /\ seen = {} /\ signal = "none"
    /\ chan = NewChannels /\ told = "nothing" /\ sent = FALSE
    /\ loop = NewLoop /\ video = NewVideo /\ paused = FALSE
    /\ page = [visible |-> TRUE, focused |-> TRUE, listening |-> FALSE]
    /\ held = {} /\ pressed = {} /\ touch = FALSE

ClientNext ==
    \/ Start \/ SessionCreated \/ Signals \/ RouteDetected
    \/ Interrupted \/ TimesOut \/ Closes \/ Expires
    \/ TrackReceived \/ ElementPlays \/ FrameArrives \/ FrameAges \/ VideoCheck
    \/ SendLatest \/ TransportFails
    \/ \E c \in Channels : ChannelOpens(c) \/ ChannelFills(c)
    \/ Listens \/ Blur \/ Focus \/ Hide \/ Show \/ Resume
    \/ \E k \in Keys : KeyDown(k) \/ KeyUp(k)
    \/ \E down \in BOOLEAN : Touch(down)

\* Timers run: the attempt's 15 s timer and the watchdog's poll.
ClientFairness == WF_clientVars(TimesOut) /\ WF_clientVars(VideoCheck)

ClientSpec == ClientInit /\ [][ClientNext]_clientVars /\ ClientFairness

-----------------------------------------------------------------------------
\* Controls are armed only in a drive that is ready, whose video was last seen
\* moving in a visible page that is not paused, over channels that both work,
\* and after the car was told: the three files keep this between them.
ControlsSafe ==
    loop.armed =>
        /\ attempt = "ready" /\ ~paused /\ video.fresh /\ page.visible
        /\ told = "arm" /\ \A c \in Channels : chan[c].state = "open"

\* The car is driven only by what the driver's hands are on: whatever takes the
\* controls away (blur, freeze, broken channel, expiry), giving them back never
\* brings back a key that has been let go in between.
NoStuckKey ==
    loop.armed /\ loop.input # Neutral =>
        \/ pressed \subseteq held /\ loop.input = Intent(pressed)
        \/ touch /\ loop.input = Touched

\* An attempt that has been started becomes ready, fails or is closed.
AttemptSettles == attempt \in {"creating", "connecting"} ~> attempt \notin {"creating", "connecting"}

\* Frozen video does not stay under armed controls.
Frozen == video.age = FREEZE \/ ~video.playing
FrozenStops == loop.armed /\ Frozen ~> ~loop.armed \/ ~Frozen
=============================================================================
