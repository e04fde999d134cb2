-------------------------------- MODULE Viewers --------------------------------
(***************************************************************************)
(* The spectators' count: pages that connect, show what they are told and  *)
(* reconnect (viewer-socket-client, use-viewer-count), and the gateway     *)
(* that counts their sockets (ViewerPresence) and drops those that no      *)
(* longer answer pings.  A broken connection may be noticed by one side    *)
(* only.                                                                   *)
(***************************************************************************)
EXTENDS Naturals, FiniteSets

CONSTANTS
    Watchers,   \* pages that show the count
    CAPACITY,   \* config.viewerCapacity
    BREAKS      \* bound: connections broken, late first counts, restarts

ASSUME ViewerAssumption == CAPACITY \in Nat \ {0} /\ BREAKS \in Nat

VARIABLES
    viewer,     \* connectViewerSocket of each page, with what it shows
    socket,     \* the gateway's viewer sockets, in as many slots as it allows
    present,    \* ViewerPresence: the sockets it counts
    breaks

viewerVars == <<viewer, socket, present, breaks>>

-----------------------------------------------------------------------------
Slots == 1 .. CAPACITY
Nowhere == 0
Dialing == CAPACITY + 1
Taken == {s \in Slots : socket[s].state # "free"}
Nobody == "nobody"
FreeSlot == [state |-> "free", of |-> Nobody, alive |-> FALSE, told |-> 0]
OpenSocket(v) == [state |-> "open", of |-> v, alive |-> TRUE, told |-> 0]

\* The page has a connection, and it works both ways.
Works(v) ==
    LET s == viewer[v].on IN s \in Slots /\ socket[s].state = "open" /\ socket[s].of = v

Breaks == breaks < BREAKS /\ breaks' = breaks + 1

-----------------------------------------------------------------------------
(* ViewerPresence.                                                         *)

\* readyState is OPEN: to the gateway a cut connection looks like any other.
Sendable(k, s) == k[s].state \in {"open", "cut"}

\* #broadcast over sockets k: sockets in threw fail to take the message, and the
\* others are told once more without them.
MutantAnnounced(open, threw) == Cardinality(open)
Announced(open, threw) == Cardinality(open \ threw)
Broadcast(members, k, threw) ==
    LET open == {s \in members : Sendable(k, s)}
    IN  /\ present' = open \ threw
        /\ socket' = [s \in Slots |-> IF s \in open \ threw THEN [k[s] EXCEPT !.told = Announced(open, threw)]
                                      ELSE k[s]]

\* The connection handler: attach, and everybody hears the new count.
Accept(v, s) ==
    /\ viewer[v].on = Dialing /\ s \notin Taken
    /\ viewer' = [viewer EXCEPT ![v].on = s]
    /\ \E threw \in SUBSET (present \cup {s}) :
          /\ IF threw = {} THEN UNCHANGED breaks ELSE Breaks
          /\ Broadcast(present \cup {s}, [socket EXCEPT ![s] = OpenSocket(v)], threw)

\* The close event: detach, which counts anew unless the socket had gone before.
SocketClosed(s) ==
    /\ socket[s].state = "closing"
    /\ LET k == [socket EXCEPT ![s] = FreeSlot]
       IN  IF s \in present THEN Broadcast(present \ {s}, k, {})
           ELSE socket' = k /\ UNCHANGED present
    /\ UNCHANGED <<viewer, breaks>>

\* sweepViewerPings: who has not answered the last ping is closed, the others
\* are pinged.  Between two sweeps lie 45 s: a working connection has answered.
PongsInTime == \A s \in Slots : socket[s].state = "open" => socket[s].alive
MutantSilentSocket(s) == FALSE
SilentSocket(s) == ~socket[s].alive
PingSweep ==
    /\ PongsInTime /\ \E s \in Slots : Sendable(socket, s)
    /\ socket' = [s \in Slots |-> IF ~Sendable(socket, s) THEN socket[s]
                                  ELSE IF SilentSocket(s) THEN [socket[s] EXCEPT !.state = "closing"]
                                  ELSE [socket[s] EXCEPT !.alive = FALSE]]
    /\ UNCHANGED <<viewer, present, breaks>>

Pong(s) ==
    /\ socket[s].state = "open" /\ ~socket[s].alive
    /\ socket' = [socket EXCEPT ![s].alive = TRUE]
    /\ UNCHANGED <<viewer, present, breaks>>

-----------------------------------------------------------------------------
(* connectViewerSocket and useViewerCount.                                 *)

\* onclose, and what the hook shows: no count unless live.
Dropped(p) == [p EXCEPT !.on = Nowhere, !.status = "unavailable", !.count = 0, !.watchdog = FALSE, !.retry = TRUE]

Connect(v) ==
    /\ viewer[v].retry
    /\ viewer' = [viewer EXCEPT ![v].on = Dialing, ![v].status = "connecting", ![v].count = 0,
                                ![v].watchdog = TRUE, ![v].retry = FALSE]
    /\ UNCHANGED <<socket, present, breaks>>

\* 503: as many sockets as are allowed are still there.
Refuse(v) ==
    /\ viewer[v].on = Dialing /\ Cardinality(Taken) >= CAPACITY
    /\ viewer' = [viewer EXCEPT ![v] = Dropped(@)]
    /\ UNCHANGED <<socket, present, breaks>>

CountArrives(v) ==
    /\ Works(v) /\ socket[viewer[v].on].told > 0
    /\ viewer' = [viewer EXCEPT ![v].count = socket[viewer[v].on].told, ![v].status = "live", ![v].watchdog = FALSE]
    /\ UNCHANGED <<socket, present, breaks>>

HangsUp(v) == IF Works(v) THEN [socket EXCEPT ![viewer[v].on].state = "closing"] ELSE socket

\* 10 s without a first count: because nothing comes any more, or it is just slow.
FirstCountLate(v) ==
    /\ viewer[v].watchdog
    /\ IF viewer[v].on \in Slots /\ ~(Works(v) /\ socket[viewer[v].on].told > 0)
       THEN UNCHANGED breaks ELSE Breaks
    /\ viewer' = [viewer EXCEPT ![v] = Dropped(@)]
    /\ socket' = HangsUp(v)
    /\ UNCHANGED present

\* The effect's cleanup.
Leave(v) ==
    /\ ~viewer[v].left
    /\ viewer' = [viewer EXCEPT ![v].left = TRUE, ![v].on = Nowhere, ![v].retry = FALSE, ![v].watchdog = FALSE]
    /\ socket' = HangsUp(v)
    /\ UNCHANGED <<present, breaks>>

\* A connection breaks, and the page, the gateway or both take notice.
Breaking(v) ==
    /\ Works(v) /\ Breaks
    /\ \E pageSees, gatewaySees \in BOOLEAN :
          /\ viewer' = IF pageSees THEN [viewer EXCEPT ![v] = Dropped(@)] ELSE viewer
          /\ socket' = [socket EXCEPT ![viewer[v].on].state = IF gatewaySees THEN "closing" ELSE "cut"]
    /\ UNCHANGED present

\* closeGatewaySockets, or the process dies: a page whose connection works sees it.
GatewayGoes ==
    /\ Breaks
    /\ socket' = [s \in Slots |-> FreeSlot] /\ present' = {}
    /\ viewer' = [v \in Watchers |->
          IF viewer[v].on = Dialing \/ Works(v)  THEN Dropped(viewer[v]) ELSE viewer[v]]

-----------------------------------------------------------------------------
\* Some of the pages are open.
Page(open) == [on |-> Nowhere, status |-> "connecting", count |-> 0,
               retry |-> open, watchdog |-> FALSE, left |-> ~open]

ViewersInit ==
    /\ viewer \in [Watchers -> {Page(TRUE), Page(FALSE)}]
    /\ socket = [s \in Slots |-> FreeSlot] /\ present = {} /\ breaks = 0

ViewersNext ==
    \/ \E v \in Watchers : \/ Connect(v) \/ Refuse(v) \/ CountArrives(v) \/ FirstCountLate(v)
                           \/ Leave(v) \/ Breaking(v)
                           \/ \E s \in Slots : Accept(v, s)
    \/ \E s \in Slots : SocketClosed(s) \/ Pong(s)
    \/ PingSweep \/ GatewayGoes

\* Timers run, the gateway answers, and a connection that works delivers.
ViewersFairness ==
    /\ WF_viewerVars(PingSweep)
    /\ \A s \in Slots : WF_viewerVars(SocketClosed(s)) /\ WF_viewerVars(Pong(s))
    /\ \A v \in Watchers :
          /\ WF_viewerVars(Connect(v)) /\ WF_viewerVars(CountArrives(v)) /\ WF_viewerVars(FirstCountLate(v))
          /\ WF_viewerVars(Refuse(v) \/ \E s \in Slots : Accept(v, s))

-----------------------------------------------------------------------------
\* Whoever the gateway counts has been told how many it counts, whatever sends
\* failed in between.
CountAnnounced == \A s \in present : Sendable(socket, s) => socket[s].told = Cardinality(present)

\* A page that has lost its connection gets a count again, although its old
\* socket, or another's, may hold the last place until a ping sweep notices.
ViewerComesBack == \A v \in Watchers :
    viewer[v].status # "live" ~> viewer[v].status = "live" \/ viewer[v].left
=============================================================================
