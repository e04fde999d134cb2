--------------------------- MODULE DriveClientProofs ---------------------------
(***************************************************************************)
(* The page that drives, for any keys and any time to freeze: controls are *)
(* armed only over a live picture and working channels, and a key that was *)
(* let go of never drives the car.  And the ramps of its keyboard, for any *)
(* times: what is held does not ease back.                                 *)
(***************************************************************************)
EXTENDS DriveClient, KeyboardDrive, TLAPS

Inputs == [steering: {-1, 0, 1}, throttle: {-1, 0, 1}, nitro: BOOLEAN]
Loops == [running: BOOLEAN, requested: BOOLEAN, armed: BOOLEAN, input: Inputs]
Videos == [open: BOOLEAN, watching: BOOLEAN, playing: BOOLEAN, age: Nat, fresh: BOOLEAN]
Wires == [Channels -> [state: {"connecting", "open", "closed"}, full: BOOLEAN]]
Pages == [visible: BOOLEAN, focused: BOOLEAN, listening: BOOLEAN]

ClientTypes ==
    /\ chan \in Wires
    /\ loop \in Loops
    /\ video \in Videos
    /\ page \in Pages
    /\ paused \in BOOLEAN /\ touch \in BOOLEAN

\* The watchdog publishes whatever makes a recent frame stale or fresh.
FreshPublished == video.age < FREEZE => video.fresh

\* A page that listens has a drive, or a watchdog that is closed with it.
ListensToDrive == page.listening => attempt = "ready" \/ ~video.open

\* The loop wants to arm, and has an input, only where it may be armed.
RequestSafe == loop.requested \/ loop.armed =>
    attempt = "ready" /\ ~paused /\ video.fresh /\ page.visible
ArmedTold == loop.armed => told = "arm" /\ \A c \in Channels : chan[c].state = "open"

ArmingInv == ClientTypes /\ FreshPublished /\ ListensToDrive /\ RequestSafe /\ ArmedTold

\* The page takes for held only what is held, and nothing before it listens or
\* while the focus is elsewhere; the input is that of those keys, or of the pad.
KeysHeld ==
    /\ pressed \subseteq held
    /\ (page.listening /\ page.focused) \/ pressed = {}
InputMeant == loop.input # Neutral =>
    /\ attempt = "ready"
    /\ loop.input = Intent(pressed) \/ (touch /\ loop.input = Touched)

ClientInv == ArmingInv /\ KeysHeld /\ InputMeant

LEMMA InputTypes == /\ \A p : Intent(p) \in Inputs
                    /\ Neutral \in Inputs /\ Touched \in Inputs
<1>1. \A p : Intent(p) \in Inputs
  BY DEF Intent, Axis, Inputs
<1>. QED  BY <1>1 DEF Neutral, Touched, Inputs

LEMMA NewTypes == NewLoop \in Loops /\ NewVideo \in Videos /\ NewChannels \in Wires
BY InputTypes, ClientAssumption DEF NewLoop, Loops, NewVideo, Videos, NewChannels, Wires

\* A page just opened.
LEMMA ClientStarts == ClientInit => ClientInv
<1>. SUFFICES ASSUME ClientInit PROVE ClientInv
  OBVIOUS
<1>1. ClientTypes
  BY NewTypes DEF ClientInit, ClientTypes, Pages
<1>. QED
  BY <1>1, ClientAssumption
  DEF ClientInit, ClientInv, ArmingInv, FreshPublished, ListensToDrive, RequestSafe, ArmedTold,
              KeysHeld, InputMeant, NewLoop, NewVideo

(* What the handlers are made of.  A loop armed before or now has told the car. *)

Told(l) == \/ l.armed /\ told' = told
           \/ told' = "arm" /\ \A c \in Channels : chan[c].state = "open"
Still(l) == l \in Loops /\ ~l.armed /\ ~l.requested /\ l.input = Neutral

LEMMA ArmFromDoes ==
    ASSUME chan \in Wires, NEW l \in Loops, ArmFrom(l)
    PROVE  loop' \in Loops /\ loop'.input = l.input /\ (loop'.armed => Told(l))
<1>. DEFINE arms == ~l.armed /\ \A c \in Channels : Usable(c)
<1>1. /\ loop' = [l EXCEPT !.requested = TRUE, !.armed = l.armed \/ arms]
      /\ told' = IF arms THEN "arm" ELSE told
  BY DEF ArmFrom
<1>2. loop' \in Loops /\ loop'.input = l.input /\ loop'.armed = (l.armed \/ arms)
  <2>. HIDE DEF arms
  <2>1. PICK b \in BOOLEAN : b = (l.armed \/ arms)
    BY DEF Loops
  <2>2. loop' = [l EXCEPT !.requested = TRUE, !.armed = b]
    BY <1>1, <2>1
  <2>. QED  BY <2>1, <2>2 DEF Loops
<1>. QED  BY <1>1, <1>2 DEF Usable, Told

LEMMA DisarmFromDoes ==
    ASSUME NEW l \in Loops, DisarmFrom(l)
    PROVE  Still(loop')
BY InputTypes DEF DisarmFrom, Silent, Loops, Still

LEMMA PauseDoes ==
    ASSUME loop \in Loops, PauseForVideo
    PROVE  /\ paused' = TRUE /\ pressed' = {} /\ touch' = FALSE
           /\ Still(loop') \/ (attempt # "ready" /\ loop' = loop /\ told' = told)
BY DisarmFromDoes DEF PauseForVideo, ForgetInput

LEMMA TryReadyDoes ==
    ASSUME chan \in Wires, loop \in Loops, NEW e, NEW v, TryReady(e, v)
    PROVE  \/ UNCHANGED <<attempt, controls>>
           \/ /\ attempt = "connecting" /\ attempt' = "ready"
              /\ FreshIn(v) /\ ~paused /\ UNCHANGED <<paused, pressed, touch>>
              /\ loop' \in Loops /\ loop'.input = loop.input /\ (loop'.armed => Told(loop))
           \/ /\ attempt = "connecting" /\ attempt' = "ready"
              /\ paused' = TRUE /\ pressed' = {} /\ touch' = FALSE /\ Still(loop')
<1>. DEFINE started == [loop EXCEPT !.running = TRUE]
<1>1. started \in Loops /\ started.input = loop.input /\ started.armed = loop.armed
  BY DEF Loops
<1>2. ASSUME ArmFrom(started)
      PROVE  loop' \in Loops /\ loop'.input = loop.input /\ (loop'.armed => Told(loop))
  <2>. HIDE DEF started
  <2>. QED  BY <1>1, <1>2, ArmFromDoes DEF Told
<1>3. ASSUME DisarmFrom(started)
      PROVE  Still(loop')
  <2>. HIDE DEF started
  <2>. QED  BY <1>1, <1>3, DisarmFromDoes
<1>. QED  BY <1>2, <1>3 DEF TryReady, ForgetInput

(* The three that several events share keep the invariant. *)

LEMMA PauseKeeps ==
    ASSUME ClientInv, PauseForVideo, UNCHANGED <<attempt, chan>>,
           video' \in Videos, video'.open = video.open, video'.age < FREEZE => video'.fresh,
           page' \in Pages, page'.listening = page.listening
    PROVE  ClientInv'
<1>. USE DEF ClientInv, ArmingInv
<1>1. /\ paused' = TRUE /\ pressed' = {} /\ touch' = FALSE
      /\ loop' \in Loops /\ ~loop'.armed /\ ~loop'.requested /\ loop'.input = Neutral
  BY PauseDoes DEF ClientTypes, RequestSafe, InputMeant, Still
<1>2. ClientTypes' /\ FreshPublished' /\ ListensToDrive'
  BY <1>1 DEF ClientTypes, FreshPublished, ListensToDrive
<1>. QED  BY <1>1, <1>2 DEF RequestSafe, ArmedTold, KeysHeld, InputMeant

LEMMA TryReadyKeeps ==
    ASSUME ClientInv, NEW e, NEW v, TryReady(e, v), UNCHANGED <<chan, page, held>>,
           video' \in Videos, video'.open = video.open, video'.age < FREEZE => video'.fresh,
           FreshIn(v) \/ video.fresh => video'.fresh
    PROVE  ClientInv'
<1>. USE DEF ClientInv, ArmingInv
<1>1. CASE UNCHANGED <<attempt, controls>>
  BY <1>1 DEF controls, ClientTypes, FreshPublished, ListensToDrive, RequestSafe, ArmedTold, KeysHeld, InputMeant
<1>2. CASE /\ attempt = "connecting" /\ attempt' = "ready"
           /\ FreshIn(v) /\ ~paused /\ UNCHANGED <<paused, pressed, touch>>
           /\ loop' \in Loops /\ loop'.input = loop.input /\ (loop'.armed => Told(loop))
  <2>1. loop.input = Neutral /\ ~loop.armed
    BY <1>2 DEF RequestSafe, InputMeant
  <2>2. ClientTypes' /\ FreshPublished' /\ ListensToDrive' /\ RequestSafe' /\ KeysHeld' /\ InputMeant'
    BY <1>2, <2>1 DEF FreshIn, Presenting, ClientTypes, FreshPublished, ListensToDrive, RequestSafe, KeysHeld, InputMeant
  <2>3. ArmedTold'
    BY <1>2, <2>1 DEF Told, ArmedTold
  <2>. QED  BY <2>2, <2>3
<1>3. CASE /\ attempt = "connecting" /\ attempt' = "ready"
           /\ paused' = TRUE /\ pressed' = {} /\ touch' = FALSE /\ Still(loop')
  BY <1>3 DEF Still, ClientTypes, FreshPublished, ListensToDrive, RequestSafe, ArmedTold, KeysHeld, InputMeant
<1>. QED  BY <1>1, <1>2, <1>3, TryReadyDoes DEF ClientTypes

LEMMA PublishKeeps ==
    ASSUME ClientInv, NEW v \in Videos, Publish(v), UNCHANGED <<chan, page, held>>,
           v.open = video.open, v.age < FREEZE => Presenting(v)
    PROVE  ClientInv'
<1>1. PICK b \in BOOLEAN : b = FreshIn(v)
  BY DEF FreshIn, Presenting, ClientInv, ArmingInv, ClientTypes, Videos, Pages
<1>2. video' = [v EXCEPT !.fresh = b]
  BY <1>1 DEF Publish
<1>3. video' \in Videos /\ video'.open = v.open /\ video'.age = v.age /\ video'.fresh = b
  BY <1>2 DEF Videos
<1>4. video'.age < FREEZE => video'.fresh
  BY <1>1, <1>3 DEF FreshIn
<1>5. CASE FreshIn(v) /\ ~video.fresh
  <2>1. TryReady(seen \cup {"frame"}, v)
    BY <1>5 DEF Publish
  <2>. QED  BY <1>1, <1>3, <1>4, <1>5, <2>1, TryReadyKeeps
<1>6. CASE ~FreshIn(v) /\ video.fresh
  BY <1>3, <1>4, <1>6, PauseKeeps DEF Publish, ClientInv, ArmingInv, ClientTypes
<1>7. CASE FreshIn(v) <=> video.fresh
  BY <1>1, <1>3, <1>4, <1>7
  DEF Publish, controls, ClientInv, ArmingInv, ClientTypes, FreshPublished, ListensToDrive, RequestSafe, ArmedTold,
      KeysHeld, InputMeant
<1>. QED  BY <1>5, <1>6, <1>7

LEMMA TornDownKeeps ==
    ASSUME ClientInv, NEW stage \in {"failed", "closed"}, TornDown(stage), ForgetInput \/ ForgetInputIfArmed
    PROVE  ClientInv'
<1>. USE DEF ClientInv, ArmingInv
<1>1. Still(loop')
  <2>1. PICK l \in Loops : l = [loop EXCEPT !.running = FALSE]
    BY DEF ClientTypes, Loops
  <2>. QED  BY <2>1, DisarmFromDoes DEF TornDown
<1>2. /\ video' \in Videos /\ ~video'.open /\ video'.age = FREEZE
      /\ chan' \in Wires
  BY ClientAssumption DEF TornDown, ClientTypes, Videos, Wires
<1>3. pressed' \in {pressed, {}} /\ touch' \in {touch, FALSE} /\ UNCHANGED <<page, paused, held>>
  BY DEF TornDown, ForgetInput, ForgetInputIfArmed
<1>4. ClientTypes'
  BY <1>1, <1>2, <1>3 DEF ClientTypes, Still
<1>5. FreshPublished' /\ ListensToDrive'
  BY <1>2, ClientAssumption DEF FreshPublished, ListensToDrive
<1>6. RequestSafe' /\ ArmedTold' /\ InputMeant'
  BY <1>1 DEF Still, RequestSafe, ArmedTold, InputMeant
<1>7. KeysHeld'
  BY <1>3 DEF KeysHeld
<1>. QED  BY <1>4, <1>5, <1>6, <1>7

\* Every event of the page keeps the invariant.
LEMMA ClientSteps ==
    ASSUME ClientInv, [ClientNext]_clientVars
    PROVE  ClientInv'
<1>. USE ClientAssumption
     DEF ClientInv, ArmingInv, ClientTypes, FreshPublished, ListensToDrive, RequestSafe, ArmedTold,
         KeysHeld, InputMeant
<1>1. CASE Start
  <2>1. page' \in Pages /\ ~page'.listening
    BY <1>1 DEF Start, Pages
  <2>2. /\ loop' = NewLoop /\ video' = NewVideo /\ chan' = NewChannels
        /\ paused' = FALSE /\ pressed' = {} /\ touch' = FALSE
    BY <1>1 DEF Start, ForgetInput
  <2>3. ~loop'.armed /\ ~loop'.requested /\ loop'.input = Neutral /\ ~(video'.age < FREEZE)
    BY <2>2 DEF NewLoop, NewVideo
  <2>. QED  BY <2>1, <2>2, <2>3, NewTypes
<1>2. CASE SessionCreated \/ Signals
  BY <1>2 DEF SessionCreated, Signals, controls
<1>3. CASE RouteDetected
  <2>1. FreshIn(video) => video.fresh
    BY DEF FreshIn
  <2>. QED  BY <1>3, <2>1, TryReadyKeeps DEF RouteDetected
<1>4. ASSUME NEW stage \in {"failed", "closed"}, TornDown(stage), ForgetInput \/ ForgetInputIfArmed
      PROVE  ClientInv'
  BY <1>4, TornDownKeeps
<1>5. CASE TrackReceived \/ ElementPlays \/ FrameAges
  <2>1. CASE TrackReceived \/ ElementPlays
    <3>1. video' \in Videos /\ video'.open = video.open /\ video'.fresh = video.fresh /\ video'.age = video.age
      BY <2>1 DEF TrackReceived, ElementPlays, Videos
    <3>. QED  BY <2>1, <3>1 DEF TrackReceived, ElementPlays, controls
  <2>2. CASE FrameAges
    <3>1. video' \in Videos /\ video'.open = video.open /\ video'.fresh = video.fresh
      BY <2>2 DEF FrameAges, Videos
    <3>. QED  BY <2>2, <3>1 DEF FrameAges, controls
  <2>. QED  BY <1>5, <2>1, <2>2
<1>6. CASE FrameArrives
  <2>1. PICK v \in Videos : v = [video EXCEPT !.age = 0]
    BY DEF Videos
  <2>2. v.open = video.open /\ Presenting(v)
    BY <1>6, <2>1 DEF FrameArrives, Presenting, Videos
  <2>3. Publish(v) /\ UNCHANGED <<chan, page, held>>
    BY <1>6, <2>1 DEF FrameArrives
  <2>. QED  BY <2>2, <2>3, PublishKeeps
<1>7. CASE VideoCheck
  <2>1. PICK v \in Videos : v = IF Presenting(video) THEN video ELSE [video EXCEPT !.age = FREEZE]
    BY DEF Videos
  <2>2. v.open = video.open /\ (v.age < FREEZE => Presenting(v))
    BY <2>1 DEF Videos
  <2>3. Publish(v) /\ UNCHANGED <<chan, page, held>>
    BY <1>7, <2>1 DEF VideoCheck
  <2>. QED  BY <2>2, <2>3, PublishKeeps
<1>8. CASE SendLatest
  BY <1>8 DEF SendLatest, input
<1>9. CASE TransportFails
  <2>1. Still(loop')
    BY <1>9, InputTypes DEF TransportFails, Silent, Loops, Still
  <2>2. pressed' \in {pressed, {}} /\ touch' \in {touch, FALSE}
    BY <1>9 DEF TransportFails, ForgetInputIfArmed, ForgetInput
  <2>. QED  BY <1>9, <2>1, <2>2 DEF TransportFails, Still
<1>10. ASSUME NEW c \in Channels, ChannelOpens(c)
       PROVE  ClientInv'
  <2>. DEFINE arms == loop.requested /\ \A d \in Channels \ {c} : Usable(d)
  <2>1. PICK b \in BOOLEAN : b = (loop.armed \/ arms)
    BY DEF Loops
  <2>2. loop' = [loop EXCEPT !.armed = b]
    BY <1>10, <2>1 DEF ChannelOpens
  <2>3. loop' \in Loops /\ loop'.armed = b /\ loop'.requested = loop.requested /\ loop'.input = loop.input
    BY <2>2 DEF Loops
  <2>4. chan' \in Wires /\ \A d \in Channels : chan'[d].state = IF d = c THEN "open" ELSE chan[d].state
    BY <1>10 DEF ChannelOpens, Wires
  <2>5. told' = IF arms THEN "arm" ELSE told
    BY <1>10 DEF ChannelOpens
  <2>6. ArmedTold'
    BY <2>1, <2>3, <2>4, <2>5 DEF Usable
  <2>7. UNCHANGED <<attempt, paused, held, pressed, touch, video, page>>
    BY <1>10 DEF ChannelOpens, input
  <2>. HIDE DEF arms
  <2>8. loop'.armed => loop.armed \/ loop.requested
    BY <2>1, <2>3 DEF arms
  <2>. QED  BY <2>3, <2>4, <2>6, <2>7, <2>8
<1>11. ASSUME NEW c \in Channels, ChannelFills(c)
       PROVE  ClientInv'
  <2>1. chan' \in Wires /\ \A d \in Channels : chan'[d].state = chan[d].state
    BY <1>11 DEF ChannelFills, Wires
  <2>. QED  BY <1>11, <2>1 DEF ChannelFills, controls
<1>12. CASE Listens
  <2>1. page' \in Pages /\ page'.visible = page.visible /\ page'.focused = page.focused
    BY <1>12 DEF Listens, Pages
  <2>. QED  BY <1>12, <2>1 DEF Listens, controls
<1>13. CASE Blur
  <2>1. page' \in Pages /\ page'.visible = page.visible /\ page'.listening = page.listening
    BY <1>13 DEF Blur, Pages
  <2>. QED  BY <1>13, <2>1, DisarmFromDoes DEF Blur, Neutralize, ForgetInput, Still
<1>14. CASE Focus
  <2>1. page' \in Pages /\ page'.visible = page.visible /\ page'.listening = page.listening /\ page'.focused
    BY <1>14 DEF Focus, Pages
  <2>2. \/ UNCHANGED <<loop, told>>
        \/ page.listening /\ MayDrive /\ loop' \in Loops /\ loop'.input = loop.input /\ (loop'.armed => Told(loop))
    BY <1>14, ArmFromDoes DEF Focus, RearmIf, MayRearm
  <2>. QED  BY <1>14, <2>1, <2>2 DEF Focus, MayDrive, FreshIn, Presenting, Told, input
<1>15. CASE Hide
  <2>1. page' \in Pages /\ page'.focused = page.focused /\ page'.listening = page.listening
    BY <1>15 DEF Hide, Pages
  <2>2. video' \in Videos /\ video'.open = video.open /\ video'.age = FREEZE
    BY <1>15 DEF Hide, Videos
  <2>3. CASE video.fresh
    BY <1>15, <2>1, <2>2, <2>3, PauseKeeps DEF Hide
  <2>4. CASE ~video.fresh
    <3>1. UNCHANGED <<attempt, chan, paused, held>> /\ ~loop.armed /\ ~loop.requested
      BY <1>15, <2>4 DEF Hide
    <3>2. \/ Still(loop') /\ pressed' = {} /\ touch' = FALSE
          \/ UNCHANGED <<loop, told, pressed, touch>>
      BY <1>15, <2>4, DisarmFromDoes DEF Hide, Neutralize, ForgetInput
    <3>3. loop' \in Loops /\ ~loop'.armed /\ ~loop'.requested /\ touch' \in BOOLEAN
      BY <3>1, <3>2 DEF Still
    <3>4. ClientTypes'
      BY <2>1, <2>2, <3>1, <3>3
    <3>5. FreshPublished' /\ ListensToDrive' /\ RequestSafe' /\ ArmedTold'
      BY <2>1, <2>2, <3>1, <3>3
    <3>6. KeysHeld' /\ InputMeant'
      BY <2>1, <3>1, <3>2, <3>3 DEF Still
    <3>. QED  BY <3>4, <3>5, <3>6
  <2>. QED  BY <2>3, <2>4
<1>16. CASE Show
  <2>1. page' \in Pages /\ page'.visible /\ page'.focused = page.focused /\ page'.listening = page.listening
    BY <1>16 DEF Show, Pages
  <2>. QED  BY <1>16, <2>1 DEF Show, controls
<1>17. CASE Resume
  <2>1. CASE ~FreshIn(video)
    BY <1>17, <2>1, PauseKeeps DEF Resume
  <2>2. CASE FreshIn(video)
    <3>1. PICK l \in Loops : l = [loop EXCEPT !.input = Neutral]
      BY InputTypes DEF Loops
    <3>2. l.input = Neutral /\ ~l.armed
      BY <1>17, <3>1 DEF Resume, Loops
    <3>3. loop' \in Loops /\ loop'.input = Neutral /\ (loop'.armed => Told(l))
      BY <1>17, <2>2, <3>1, <3>2, ArmFromDoes DEF Resume
    <3>. QED  BY <1>17, <2>2, <3>2, <3>3 DEF Resume, FreshIn, Presenting, Told
  <2>. QED  BY <2>1, <2>2
<1>18. ASSUME NEW k \in Keys, KeyDown(k)
       PROVE  ClientInv'
  <2>. DEFINE arms == ~loop.armed /\ \A c \in Channels : Usable(c)
  <2>0. UNCHANGED <<attempt, chan, video, page>> /\ held' = held \cup {k}
    BY <1>18 DEF KeyDown
  <2>1. CASE ~(page.listening /\ page.focused)
    BY <1>18, <2>0, <2>1 DEF KeyDown, controls
  <2>2. CASE page.listening /\ page.focused /\ ~MayDrive
    <3>1. PauseForVideo
      BY <1>18, <2>2 DEF KeyDown
    <3>. QED  BY <2>0, <3>1, PauseKeeps
  <2>3. CASE page.listening /\ page.focused /\ MayDrive
    <3>1. PICK b, r \in BOOLEAN : b = (loop.armed \/ arms) /\ r = (loop.requested \/ ~loop.armed)
      BY DEF Loops
    <3>2. /\ loop' = [[loop EXCEPT !.armed = b, !.requested = r] EXCEPT !.input = Intent(pressed \cup {k})]
          /\ told' = IF arms THEN "arm" ELSE told
          /\ pressed' = pressed \cup {k} /\ UNCHANGED <<paused, touch>>
      BY <1>18, <2>3, <3>1 DEF KeyDown, Press
    <3>3. loop' \in Loops /\ loop'.armed = b /\ loop'.input = Intent(pressed \cup {k})
      BY <3>2, InputTypes DEF Loops
    <3>4. attempt = "ready" /\ ~paused /\ video.fresh /\ page.visible
      BY <2>3 DEF MayDrive, FreshIn, Presenting
    <3>5. ArmedTold'
      BY <2>0, <3>1, <3>2, <3>3 DEF Usable
    <3>. QED  BY <2>0, <2>3, <3>2, <3>3, <3>4, <3>5
  <2>. QED  BY <2>1, <2>2, <2>3
<1>19. ASSUME NEW k \in Keys, KeyUp(k)
       PROVE  ClientInv'
  <2>0. UNCHANGED <<attempt, chan, video, page>> /\ held' = held \ {k}
    BY <1>19 DEF KeyUp
  <2>1. CASE ~(page.listening /\ page.focused /\ k \in pressed)
    <3>1. k \notin pressed
      BY <2>1
    <3>2. UNCHANGED controls
      BY <1>19, <2>1 DEF KeyUp
    <3>. QED  BY <2>0, <3>1, <3>2 DEF controls
  <2>2. CASE page.listening /\ page.focused /\ k \in pressed /\ ~MayDrive
    <3>1. PauseForVideo
      BY <1>19, <2>2 DEF KeyUp
    <3>. QED  BY <2>0, <3>1, PauseKeeps
  <2>3. CASE page.listening /\ page.focused /\ k \in pressed /\ MayDrive
    <3>1. /\ loop' = [loop EXCEPT !.input = Intent(pressed \ {k})]
          /\ pressed' = pressed \ {k} /\ UNCHANGED <<told, paused, touch>>
      BY <1>19, <2>3 DEF KeyUp, Press
    <3>2. /\ loop' \in Loops /\ loop'.armed = loop.armed /\ loop'.requested = loop.requested
          /\ loop'.input = Intent(pressed \ {k})
      BY <3>1, InputTypes DEF Loops
    <3>3. attempt = "ready"
      BY <2>3 DEF MayDrive, FreshIn, Presenting
    <3>. QED  BY <2>0, <2>3, <3>1, <3>2, <3>3
  <2>. QED  BY <2>1, <2>2, <2>3
<1>20. ASSUME NEW down \in BOOLEAN, Touch(down)
       PROVE  ClientInv'
  <2>0. UNCHANGED <<attempt, chan, video, page, held>> /\ loop.armed
    BY <1>20 DEF Touch
  <2>1. CASE ~MayDrive
    BY <1>20, <2>0, <2>1, PauseKeeps DEF Touch
  <2>2. CASE MayDrive
    <3>1. /\ loop' = [loop EXCEPT !.input = IF down THEN Touched ELSE Neutral]
          /\ touch' = down /\ pressed' = {} /\ UNCHANGED <<told, paused>>
      BY <1>20, <2>2 DEF Touch
    <3>2. /\ loop' \in Loops /\ loop'.armed = loop.armed /\ loop'.requested = loop.requested
          /\ loop'.input = IF down THEN Touched ELSE Neutral
      BY <3>1, InputTypes DEF Loops
    <3>. QED  BY <2>0, <3>1, <3>2
  <2>. QED  BY <2>1, <2>2
<1>21. CASE UNCHANGED clientVars
  BY <1>21 DEF clientVars, controls
<1>. QED
  BY <1>1, <1>2, <1>3, <1>4, <1>5, <1>6, <1>7, <1>8, <1>9, <1>10, <1>11, <1>12, <1>13, <1>14, <1>15, <1>16,
     <1>17, <1>18, <1>19, <1>20, <1>21
  DEF ClientNext, Interrupted, TimesOut, Closes, Expires, Teardown

\* Whatever the gateway, the network, the browser and the driver do, ClientInv holds.
LEMMA ClientAlways == ClientSpec => []ClientInv
BY ClientStarts, ClientSteps, PTL DEF ClientSpec

\* The controls are armed only in a ready drive whose video is fresh in a visible
\* page that is not paused, over open channels, the car told: arming that waits for
\* the channels (arm, #tryArm) never fires after what it was asked under has gone,
\* because every handler that takes that away also takes the request back.
THEOREM ControlsSafeHolds == ClientSpec => []ControlsSafe
<1>1. ClientInv => ControlsSafe
  BY DEF ClientInv, ArmingInv, RequestSafe, ArmedTold, ControlsSafe
<1>. QED  BY <1>1, ClientAlways, PTL

\* An armed car moves only by keys the driver is holding or a finger on the pad:
\* pressedRef never keeps a key that was let go of while the page was not listening.
THEOREM NoStuckKeyHolds == ClientSpec => []NoStuckKey
<1>1. ClientInv => NoStuckKey
  BY DEF ClientInv, KeysHeld, InputMeant, NoStuckKey
<1>. QED  BY <1>1, ClientAlways, PTL

-----------------------------------------------------------------------------
(* The ramps of the keyboard.                                              *)

Intents == [steering: {-1, 0, 1}, throttle: {-1, 0, 1}, nitro: BOOLEAN]
Ramps == [intent: Intents, forward: Int, reverse: Int, turn: Int, duration: Nat]

\* Whatever the model remembers the beginning of began before now; a turn has a
\* beginning, and only a held reverse has one of its own.
RampInv ==
    /\ now \in Nat /\ ramp \in Ramps
    /\ ramp.forward <= now /\ ramp.reverse <= now /\ ramp.turn <= now
    /\ ramp.intent.steering # 0 => ramp.turn # Never
    /\ ramp.reverse # Never => ramp.intent.throttle = -1

LEMMA ProductGrows ==
    ASSUME NEW a \in Nat, NEW b \in Nat, NEW d \in Nat, a <= b
    PROVE  a * d \in Nat /\ b * d \in Nat /\ a * d <= b * d
OBVIOUS

LEMMA IntentIsAnIntent == \A p : Intent(p) \in Intents
BY DEF Intent, Axis, Intents

LEMMA RampStarts == KeyboardInit => RampInv
BY IntentIsAnIntent DEF KeyboardInit, AtRest, RampInv, Ramps, Never, Intent, Axis

\* What a key leaves of the ramp: a turn begun now, or the one that was under way.
LEMMA KeyedDoes ==
    ASSUME RampInv, NEW keys, Keyed(keys)
    PROVE  /\ RampInv'
           /\ ramp'.intent.steering = ramp.intent.steering =>
                ramp'.turn = ramp.turn /\ ramp'.duration \in {0, ramp.duration}
           /\ ramp.intent.throttle = -1 /\ ramp'.intent.throttle = -1 => ramp'.reverse = ramp.reverse
<1>1. PICK next \in Intents : next = Intent(keys)
  BY IntentIsAnIntent
<1>2. PICK f \in Int : f = HeldSince(ramp.forward, 1, next) /\ f <= now
  BY DEF HeldSince, RampInv, Ramps, Intents, Never
<1>3. PICK r \in Int : r = HeldSince(ramp.reverse, -1, next) /\ r <= now
                       /\ (r # Never => next.throttle = -1)
                       /\ (ramp.intent.throttle = -1 /\ next.throttle = -1 => r = ramp.reverse)
  BY DEF HeldSince, RampInv, Ramps, Intents, Never
<1>4. PICK time \in Nat : time = TurnTime(next)
  <2>1. CASE f = Never
    BY <1>2, <2>1 DEF TurnTime
  <2>2. CASE f # Never
    <3>1. PICK full \in Nat : full = (IF next.nitro THEN NITRO_TURN ELSE TURN)
      BY KeyboardAssumption
    <3>2. PICK run \in Nat : run = Least(RUN_UP, now - f)
      BY <1>2, KeyboardAssumption DEF Least, RampInv
    <3>3. TurnTime(next) = full * run
      BY <1>2, <2>2, <3>1, <3>2 DEF TurnTime
    <3>4. full * run \in Nat
      BY ProductGrows
    <3>. QED  BY <3>3, <3>4
  <2>. QED  BY <2>1, <2>2
<1>5. PICK t \in Int, d \in Nat :
        /\ t = Turned(next).turn /\ d = Turned(next).duration /\ t <= now
        /\ next.steering # 0 => t # Never
        /\ next.steering = ramp.intent.steering => t = ramp.turn /\ d \in {0, ramp.duration}
  <2>1. CASE next.steering # ramp.intent.steering
    BY <1>4, <2>1 DEF Turned, RampInv, Never
  <2>2. CASE next.steering = ramp.intent.steering
    BY <2>2 DEF Turned, RampInv, Ramps
  <2>. QED  BY <2>1, <2>2
<1>6. ramp' = [intent |-> next, forward |-> f, reverse |-> r, turn |-> t, duration |-> d] /\ UNCHANGED now
  BY <1>1, <1>2, <1>3, <1>5 DEF Keyed
<1>7. ramp' \in Ramps
  BY <1>6 DEF Ramps
<1>. QED  BY <1>2, <1>3, <1>5, <1>6, <1>7 DEF RampInv

LEMMA RampSteps == RampInv /\ [KeyboardNext]_keyboardVars => RampInv'
<1>. SUFFICES ASSUME RampInv, [KeyboardNext]_keyboardVars PROVE RampInv'
  OBVIOUS
<1>1. ASSUME NEW k, PressKey(k) \/ ReleaseKey(k) PROVE RampInv'
  BY <1>1, KeyedDoes DEF PressKey, ReleaseKey
<1>2. CASE LetGo
  BY <1>2, IntentIsAnIntent DEF LetGo, AtRest, RampInv, Ramps, Never, Intent, Axis
<1>3. CASE Tick
  BY <1>3 DEF Tick, RampInv, Ramps
<1>4. CASE UNCHANGED keyboardVars
  BY <1>4 DEF keyboardVars, RampInv
<1>. QED  BY <1>1, <1>2, <1>3, <1>4 DEF KeyboardNext

\* A turn that goes on, in time or in full, is no less turned.
LEMMA TurnGoesOn ==
    ASSUME RampInv, RampInv', now' \in {now, now + 1}, ramp.intent.steering # 0,
           ramp'.turn = ramp.turn, ramp'.duration \in {0, ramp.duration}
    PROVE  Progress.part * Progress'.of <= Progress'.part * Progress.of
<1>1. PICK w \in Nat : w = now - ramp.turn
  BY DEF RampInv, Ramps
<1>2. PICK v \in Nat : v = now' - ramp'.turn /\ w <= v
  BY <1>1 DEF RampInv, Ramps
<1>3. PICK x \in Nat, y \in Nat : x = w * RUN_UP /\ y = v * RUN_UP /\ x <= y
  BY <1>2, ProductGrows, KeyboardAssumption
<1>4. PICK d \in Nat : d = ramp.duration
  BY DEF RampInv, Ramps
<1>5. ramp.turn # Never /\ ramp'.turn # Never
  BY DEF RampInv
<1>6. Progress = IF d > 0 THEN [part |-> Least(x, d), of |-> d] ELSE [part |-> 1, of |-> 1]
  BY <1>1, <1>3, <1>4, <1>5 DEF Progress
<1>7. CASE ramp'.duration = d /\ d > 0
  <2>1. Progress' = [part |-> Least(y, d), of |-> d]
    BY <1>2, <1>3, <1>5, <1>7 DEF Progress
  <2>2. Least(x, d) \in Nat /\ Least(y, d) \in Nat /\ Least(x, d) <= Least(y, d)
    BY <1>3 DEF Least
  <2>3. Least(x, d) * d <= Least(y, d) * d
    BY <2>2, ProductGrows
  <2>. QED  BY <1>6, <1>7, <2>1, <2>3
<1>8. CASE ramp'.duration = 0
  <2>1. Progress' = [part |-> 1, of |-> 1]
    BY <1>8 DEF Progress
  <2>2. Progress.part \in Nat /\ Progress.of \in Nat /\ Progress.part <= Progress.of
    BY <1>3, <1>6 DEF Least
  <2>. QED  BY <2>1, <2>2
<1>. QED  BY <1>4, <1>7, <1>8

\* Whatever the driver does with gas and nitro, a held turn never eases back and a held
\* reverse never brakes again, for any ramps and any keys (KeyboardDriveModel.update).
THEOREM HeldKeysSteadyHolds == KeyboardInit /\ [][KeyboardNext]_keyboardVars => HeldKeysSteady
<1>. DEFINE Steady ==
       /\ ramp.intent.steering # 0 /\ ramp'.intent.steering = ramp.intent.steering
            => Progress.part * Progress'.of <= Progress'.part * Progress.of
       /\ Gentle /\ ramp'.intent.throttle = -1 => Gentle'
<1>1. ASSUME RampInv, RampInv', [KeyboardNext]_keyboardVars
      PROVE  Steady
  <2>1. ASSUME NEW keys, Keyed(keys) PROVE Steady
    <3>1. now' = now
      BY <2>1 DEF Keyed
    <3>2. ASSUME ramp.intent.steering # 0, ramp'.intent.steering = ramp.intent.steering
          PROVE  Progress.part * Progress'.of <= Progress'.part * Progress.of
      BY <1>1, <2>1, <3>1, <3>2, KeyedDoes, TurnGoesOn
    <3>3. ASSUME Gentle, ramp'.intent.throttle = -1 PROVE Gentle'
      BY <1>1, <2>1, <3>1, <3>3, KeyedDoes DEF Gentle, RampInv
    <3>. QED  BY <3>2, <3>3
  <2>2. CASE LetGo
    <3>1. ramp'.intent.steering = 0 /\ ramp'.intent.throttle = 0
      BY <2>2 DEF LetGo, AtRest, Intent, Axis
    <3>. QED  BY <3>1
  <2>3. CASE Tick \/ UNCHANGED keyboardVars
    <3>1. now' \in {now, now + 1} /\ ramp' = ramp
      BY <2>3 DEF Tick, keyboardVars
    <3>2. ramp.intent.steering # 0 => Progress.part * Progress'.of <= Progress'.part * Progress.of
      BY <1>1, <3>1, TurnGoesOn
    <3>3. Gentle => Gentle'
      BY <1>1, <3>1, KeyboardAssumption DEF Gentle, RampInv, Ramps
    <3>. QED  BY <3>2, <3>3
  <2>. QED  BY <1>1, <2>1, <2>2, <2>3 DEF KeyboardNext, PressKey, ReleaseKey
<1>. QED  BY <1>1, RampStarts, RampSteps, PTL DEF HeldKeysSteady
=============================================================================
