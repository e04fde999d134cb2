-------------------------------- MODULE Gateway --------------------------------
(***************************************************************************)
(* The gateway process (apps/gateway): device and browser sockets, the     *)
(* session registry it keeps in memory, and the statements it runs on the  *)
(* drive tables.  The process is single-threaded; a handler is one action  *)
(* up to each await and one after it, and anything may run in between,     *)
(* the socket's own close handler included.                                *)
(*                                                                         *)
(* The web tier only creates sessions here (LiveQueue says when).          *)
(***************************************************************************)
EXTENDS DriveTables

CONSTANTS DeviceSockets, BrowserSockets     \* pools of connections

\* What the registry keeps of a drive (ActiveSession).
Drives == [car: Cars, connected: BOOLEAN, ttl: Nat, age: Nat]

ASSUME SocketsAssumption == None \notin DeviceSockets \cup BrowserSockets \cup Drives

VARIABLES
    dsock,      \* the handlers of each device connection
    bsock,      \* the handlers of each browser connection
    current,    \* devices: the connection of each device, or None
    attached,   \* devicesByCar: the connection that serves each car, or None
    reg,        \* sessions: the drives the registry pairs, or None
    jobs        \* handlers past their last decision: end a session, then mark a device offline

memory == <<dsock, bsock, current, attached, reg, jobs>>
gvars == <<tables, memory>>

-----------------------------------------------------------------------------
\* A socket's wire is open, closing, or closed: then its close handler has run.
IdleDevice == [phase |-> "idle", dev |-> None, wire |-> "closed"]
IdleBrowser == [phase |-> "idle", sid |-> None, car |-> None, ttl |-> 0, wire |-> "closed"]

Registered == {s \in Sessions : reg[s] # None}
OnCar(c) == {s \in Registered : reg[s].car = c}

EndJob(s) == [end |-> s, off |-> None]
OffJob(d) == [end |-> None, off |-> d]
Unregistered(ss) == [s \in Sessions |-> IF s \in ss THEN None ELSE reg[s]]

\* socket.close(): the close handler runs later.
Closing(sock) == IF sock.wire = "open" THEN [sock EXCEPT !.wire = "closing"] ELSE sock

-----------------------------------------------------------------------------
(* Device connections.                                                     *)

\* device.authenticate arrives: await store.authenticateDevice.  A new connection
\* is none that the devices map still has.
DeviceConnects(k, d) ==
    /\ dsock[k].phase = "idle" /\ \A e \in Devices : current[e] # k
    /\ dsock' = [dsock EXCEPT ![k] = [phase |-> "authenticating", dev |-> d, wire |-> "open"]]
    /\ UNCHANGED <<tables, bsock, current, attached, reg, jobs>>

StoreAuthenticates(k) ==
    /\ dsock[k].phase = "authenticating"
    /\ AuthenticateDevice(dsock[k].dev)
    /\ dsock' = [dsock EXCEPT ![k].phase = "authenticated"]
    /\ UNCHANGED <<bsock, current, attached, reg, jobs>>

\* After the await, whether or not the socket closed meanwhile: the connection
\* takes the place of the device's and the car's prior one, and closes it.
AttachDevice(k) ==
    LET d == dsock[k].dev
        c == CarOf[d]
        prior == {current[d], attached[c]} \ {k, None}
    IN  /\ dsock[k].phase = "authenticated"
        /\ current' = [current EXCEPT ![d] = k]
        /\ attached' = [attached EXCEPT ![c] = k]
        /\ dsock' = [j \in DeviceSockets |->
              IF j = k THEN [dsock[k] EXCEPT !.phase = "device"]
              ELSE IF j \notin prior THEN dsock[j]
              ELSE IF dsock[j].wire = "closed" THEN IdleDevice ELSE Closing(dsock[j])]
        /\ UNCHANGED <<tables, bsock, reg, jobs>>

\* The network, the peer, a message the handler throws on, a failed statement.
DeviceDrops(k) ==
    /\ dsock[k].wire = "open"
    /\ dsock' = [dsock EXCEPT ![k] = Closing(dsock[k])]
    /\ UNCHANGED <<tables, bsock, current, attached, reg, jobs>>

\* What the maps hold for a connection: its device, the drive on its car.
Known(k) == current[dsock[k].dev] = k

MutantOnDevice(k) == {}
OnDevice(k) == LET c == CarOf[dsock[k].dev] IN IF attached[c] = k THEN OnCar(c) ELSE {}

\* The close handler, up to its first await (SessionRegistry.detachDevice).
DeviceClosed(k) ==
    LET d == dsock[k].dev
        c == CarOf[d]
    IN  /\ dsock[k].wire = "closing"
        /\ \/ /\ dsock[k].phase # "device"
              /\ dsock' = [dsock EXCEPT ![k].wire = "closed"]
              /\ UNCHANGED <<current, attached, reg, jobs>>
           \/ /\ dsock[k].phase = "device" /\ ~Known(k)
              /\ dsock' = [dsock EXCEPT ![k] = IdleDevice]
              /\ UNCHANGED <<current, attached, reg, jobs>>
           \/ /\ dsock[k].phase = "device" /\ Known(k)
              /\ dsock' = [dsock EXCEPT ![k] = IdleDevice]
              /\ current' = [current EXCEPT ![d] = None]
              /\ attached' = IF attached[c] = k THEN [attached EXCEPT ![c] = None] ELSE attached
              /\ reg' = Unregistered(OnDevice(k))
              /\ jobs' = jobs \cup
                    (IF OnDevice(k) = {} THEN {OffJob(d)}
                     ELSE {[end |-> s, off |-> d] : s \in OnDevice(k)})
        /\ UNCHANGED <<tables, bsock>>

\* device.heartbeat, up to recordHeartbeat's answer; a closing socket still
\* delivers what it had received.
DeviceHeartbeat(k, healthy) ==
    /\ dsock[k].phase = "device" /\ dsock[k].wire # "closed"
    /\ RecordHeartbeat(dsock[k].dev, healthy)
    /\ UNCHANGED memory

\* session.end from the device, for the session on its car.
DeviceEnds(k, s) ==
    /\ dsock[k].phase = "device" /\ dsock[k].wire # "closed"
    /\ s \in OnCar(CarOf[dsock[k].dev])
    /\ reg' = Unregistered({s})
    /\ jobs' = jobs \cup {EndJob(s)}
    /\ UNCHANGED <<tables, dsock, bsock, current, attached>>

-----------------------------------------------------------------------------
(* Browser connections.                                                    *)

\* browser.authenticate arrives with the ticket of s and its car, for the first
\* time or again: await store.authorizeDriveSession.
BrowserConnects(k, s) ==
    /\ bsock[k].phase = "idle" /\ s \in LiveSessions
    /\ bsock' = [bsock EXCEPT ![k] = [IdleBrowser EXCEPT
          !.phase = "authorizing", !.sid = s, !.car = session[s].car, !.wire = "open"]]
    /\ UNCHANGED <<tables, dsock, current, attached, reg, jobs>>

StoreAuthorizes(k) ==
    /\ bsock[k].phase = "authorizing"
    /\ AuthorizeDriveSession(bsock[k].sid)
    /\ bsock' = [bsock EXCEPT ![k].phase = "authorized", ![k].ttl = session[bsock[k].sid].ttl]
    /\ UNCHANGED <<dsock, current, attached, reg, jobs>>

StoreRejects(k) ==
    /\ bsock[k].phase = "authorizing"
    /\ session[bsock[k].sid].status # "created" \/ session[bsock[k].sid].ttl = 0
    /\ bsock' = [bsock EXCEPT ![k] = IdleBrowser]
    /\ UNCHANGED <<tables, dsock, current, attached, reg, jobs>>

\* Back to waiting for messages, or to nothing when the socket has closed.
Idle(k) == IF bsock[k].wire = "closed" THEN IdleBrowser
           ELSE [bsock[k] EXCEPT !.phase = "browser", !.ttl = 0]

\* After the await (SessionRegistry.attachBrowser), whether or not the socket
\* closed or the row ended meanwhile.
AttachBrowser(k) ==
    LET s == bsock[k].sid
        c == bsock[k].car
        paired == s \notin Registered /\ OnCar(c) = {} /\ attached[c] # None
    IN  /\ bsock[k].phase = "authorized"
        /\ \/ /\ paired
              /\ reg' = [reg EXCEPT ![s] =
                    [car |-> c, connected |-> FALSE, ttl |-> bsock[k].ttl, age |-> 0]]
              /\ bsock' = [bsock EXCEPT ![k] = Idle(k)]
              /\ UNCHANGED jobs
           \/ /\ ~paired
              /\ jobs' = jobs \cup {EndJob(s)}
              /\ bsock' = [bsock EXCEPT ![k] = IdleBrowser]
              /\ UNCHANGED reg
        /\ UNCHANGED <<tables, dsock, current, attached>>

\* session.connected: await store.markDriveSessionActive.
BrowserConfirms(k) ==
    /\ bsock[k].phase = "browser" /\ bsock[k].wire # "closed"
    /\ bsock' = [bsock EXCEPT ![k].phase = "confirming"]
    /\ UNCHANGED <<tables, dsock, current, attached, reg, jobs>>

StoreMarksActive(k) ==
    /\ bsock[k].phase = "confirming"
    /\ MarkDriveSessionActive(bsock[k].sid)
    /\ bsock' = [bsock EXCEPT ![k].phase = "marked"]
    /\ UNCHANGED <<dsock, current, attached, reg, jobs>>

StoreRefusesActive(k) ==
    /\ bsock[k].phase = "confirming"
    /\ ~Activatable(bsock[k].sid)
    /\ bsock' = [bsock EXCEPT ![k] = Closing(Idle(k))]
    /\ UNCHANGED <<tables, dsock, current, attached, reg, jobs>>

\* After the await (SessionRegistry.markConnected), with the clock read before it: a
\* drive whose timeout passed meanwhile and that no sweep has met yet is confirmed,
\* one whose timeout had passed before is not.
MutantLateConfirmation(k) ==
    LET s == bsock[k].sid
    IN  /\ bsock[k].phase = "marked"
        /\ \/ /\ s \in Registered
              /\ reg' = [reg EXCEPT ![s].connected = TRUE]
              /\ bsock' = [bsock EXCEPT ![k] = Idle(k)]
           \/ /\ s \in Registered => reg[s].age >= DRIVE_CONNECTION_TIMEOUT
              /\ bsock' = [bsock EXCEPT ![k] = Closing(Idle(k))]
              /\ UNCHANGED reg
        /\ UNCHANGED <<tables, dsock, current, attached, jobs>>

MarkConnected(k) ==
    LET s == bsock[k].sid
    IN  /\ bsock[k].phase = "marked"
        /\ \/ /\ s \in Registered
              /\ reg' = [reg EXCEPT ![s].connected = TRUE]
              /\ bsock' = [bsock EXCEPT ![k] = Idle(k)]
              /\ UNCHANGED jobs
           \/ /\ s \in Registered => reg[s].age >= DRIVE_CONNECTION_TIMEOUT
              /\ jobs' = jobs \cup {EndJob(s)}
              /\ bsock' = [bsock EXCEPT ![k] = Closing(Idle(k))]
              /\ UNCHANGED reg
        /\ UNCHANGED <<tables, dsock, current, attached>>

\* session.end from the browser.
BrowserEnds(k) ==
    LET s == bsock[k].sid
    IN  /\ bsock[k].phase \in {"browser", "confirming", "marked"} /\ bsock[k].wire # "closed"
        /\ s \in Registered
        /\ reg' = Unregistered({s})
        /\ jobs' = jobs \cup {EndJob(s)}
        /\ UNCHANGED <<tables, dsock, bsock, current, attached>>

\* The network, the peer, an unanswered ping, a message the handler throws on.
BrowserDrops(k) ==
    /\ bsock[k].wire = "open"
    /\ bsock' = [bsock EXCEPT ![k] = Closing(bsock[k])]
    /\ UNCHANGED <<tables, dsock, current, attached, reg, jobs>>

\* The close handler, up to its await (SessionRegistry.detachBrowser).
BrowserClosed(k) ==
    LET s == bsock[k].sid
    IN  /\ bsock[k].wire = "closing"
        /\ bsock' = [bsock EXCEPT ![k] = IF bsock[k].phase = "browser" THEN IdleBrowser
                                         ELSE [bsock[k] EXCEPT !.wire = "closed"]]
        /\ IF bsock[k].phase \in {"browser", "confirming", "marked"}
           THEN /\ reg' = Unregistered({s})
                /\ jobs' = jobs \cup {EndJob(s)}
           ELSE UNCHANGED <<reg, jobs>>
        /\ UNCHANGED <<tables, dsock, current, attached>>

-----------------------------------------------------------------------------
(* The sweep timer, and the statements decided on above.                   *)

\* PresenceRegistry.sweep, expireStaleDevices: select, then mark.
MutantSweepAvailable(d) ==
    /\ ~Fresh(d) /\ device[d].state = "AVAILABLE"
    /\ jobs' = jobs \cup {OffJob(d)}
    /\ UNCHANGED <<tables, dsock, bsock, current, attached, reg>>

PresenceSweep(d) ==
    /\ ~Fresh(d) /\ device[d].state # "OFFLINE"
    /\ jobs' = jobs \cup {OffJob(d)}
    /\ UNCHANGED <<tables, dsock, bsock, current, attached, reg>>

\* SessionRegistry.sweep.
MutantUnconfirmed == {s \in Registered :
    ~reg[s].connected /\ reg[s].age >= DRIVE_CONNECTION_TIMEOUT}
Overdue == {s \in Registered :
    \/ reg[s].ttl = 0
    \/ ~reg[s].connected /\ reg[s].age >= DRIVE_CONNECTION_TIMEOUT}

MutantSweepInMemory ==
    /\ Overdue # {}
    /\ reg' = Unregistered(Overdue)
    /\ UNCHANGED <<tables, dsock, bsock, current, attached, jobs>>

RegistrySweep ==
    /\ Overdue # {}
    /\ reg' = Unregistered(Overdue)
    /\ jobs' = jobs \cup {EndJob(s) : s \in Overdue}
    /\ UNCHANGED <<tables, dsock, bsock, current, attached>>

DatabaseSweep == ExpireDriveSessions /\ UNCHANGED memory

EndDone(j) == (jobs \ {j}) \cup (IF j.off = None THEN {} ELSE {OffJob(j.off)})

\* endDriveSession, of a session that may have ended long ago.
RunEndJob(j) ==
    /\ j.end # None
    /\ EndDriveSession(j.end) \/ (j.end \notin LiveSessions /\ UNCHANGED tables)
    /\ jobs' = EndDone(j)
    /\ UNCHANGED <<dsock, bsock, current, attached, reg>>

\* The database fails it; the error is logged or dropped.
FailEndJob(j) ==
    /\ j.end # None
    /\ jobs' = EndDone(j)
    /\ UNCHANGED <<tables, dsock, bsock, current, attached, reg>>

RunOffJob(j) ==
    /\ j.end = None
    /\ MarkDeviceOffline(j.off)
    /\ jobs' = jobs \ {j}
    /\ UNCHANGED <<dsock, bsock, current, attached, reg>>

StatementGoesOn(d) ==
    /\ SetDevicePresence(d) \/ SetCarPresence(d) \/ MarkCarOffline(d)
    /\ UNCHANGED memory

-----------------------------------------------------------------------------
\* An id the process has forgotten: drive_sessions.id is never used twice.
WebCreates(u, c, s) ==
    /\ s \notin Registered
    /\ \A k \in BrowserSockets : bsock[k].sid # s
    /\ \A j \in jobs : j.end # s
    /\ CreateSession(u, c, s)
    /\ UNCHANGED memory

GTick ==
    /\ Tick
    /\ reg' = [s \in Sessions |-> IF reg[s] = None THEN None ELSE [reg[s] EXCEPT
          !.ttl = Dec(reg[s].ttl), !.age = IncTo(reg[s].age, DRIVE_CONNECTION_TIMEOUT)]]
    /\ bsock' = [k \in BrowserSockets |-> [bsock[k] EXCEPT !.ttl = Dec(bsock[k].ttl)]]
    /\ UNCHANGED <<dsock, current, attached, jobs>>

EmptyMemory(d, b, cur, att, r, j) ==
    /\ d = [k \in DeviceSockets |-> IdleDevice]
    /\ b = [k \in BrowserSockets |-> IdleBrowser]
    /\ cur = [e \in Devices |-> None]
    /\ att = [c \in Cars |-> None]
    /\ r = [s \in Sessions |-> None]
    /\ j = {}

\* The process dies and starts again.
Restart ==
    /\ EmptyMemory(dsock', bsock', current', attached', reg', jobs')
    /\ GatewayStops

GInit == TablesInit /\ EmptyMemory(dsock, bsock, current, attached, reg, jobs)

DeviceSocketStep == \E k \in DeviceSockets :
    \/ \E d \in Devices : DeviceConnects(k, d)
    \/ StoreAuthenticates(k) \/ AttachDevice(k) \/ DeviceDrops(k) \/ DeviceClosed(k)
    \/ \E healthy \in BOOLEAN : DeviceHeartbeat(k, healthy)
    \/ \E s \in Sessions : DeviceEnds(k, s)

BrowserSocketStep == \E k \in BrowserSockets :
    \/ \E s \in Sessions : BrowserConnects(k, s)
    \/ StoreAuthorizes(k) \/ StoreRejects(k) \/ AttachBrowser(k)
    \/ BrowserConfirms(k) \/ StoreMarksActive(k) \/ StoreRefusesActive(k) \/ MarkConnected(k)
    \/ BrowserEnds(k) \/ BrowserDrops(k) \/ BrowserClosed(k)

SweepStep ==
    \/ \E d \in Devices : PresenceSweep(d) \/ StatementGoesOn(d)
    \/ RegistrySweep \/ DatabaseSweep
    \/ \E j \in jobs : RunEndJob(j) \/ RunOffJob(j)

\* While the process runs and the database answers.
SteadyNext ==
    \/ DeviceSocketStep \/ BrowserSocketStep \/ SweepStep \/ GTick
    \/ \E u \in Users, c \in Cars, s \in Sessions : WebCreates(u, c, s)

SteadySpec == GInit /\ [][SteadyNext]_gvars

GNext == SteadyNext \/ Restart \/ \E j \in jobs : FailEndJob(j)

\* The clock runs, the sweep timer fires, statements and handlers go on; and a
\* process that is restarted again and again gets a statement through at times.
GFairness ==
    /\ WF_gvars(GTick) /\ WF_gvars(RegistrySweep) /\ WF_gvars(DatabaseSweep)
    /\ \A d \in Devices : WF_gvars(PresenceSweep(d)) /\ WF_gvars(StatementGoesOn(d))
    /\ SF_gvars(\E j \in jobs : RunEndJob(j)) /\ SF_gvars(\E j \in jobs : RunOffJob(j))

GSpec == GInit /\ [][GNext]_gvars /\ GFairness

-----------------------------------------------------------------------------
(* Properties.                                                             *)

Ending(s) == \E j \in jobs : j.end = s
In(s, phase) == \E k \in BrowserSockets : bsock[k].sid = s /\ bsock[k].phase = phase

\* A drive past its ticket is in the registry, or a handler is about to put it
\* there or to end it: no order of closes, confirmations and awaits leaves a row
\* that only the deadline of the drive would free.
NoLeakedDrive == \A s \in LiveSessions : session[s].status # "created" =>
    s \in Registered \/ In(s, "authorized") \/ Ending(s)

\* The two records of a connected drive agree: a row is active only if the
\* registry counts the browser as connected, so that its 20 s sweep spares it.
ActiveIsConnected == \A s \in LiveSessions : session[s].status = "active" =>
    (s \in Registered /\ reg[s].connected) \/ In(s, "marked") \/ Ending(s)

\* The connection that serves a car is the one its device is known by: closing
\* it finds both entries, closing any other finds neither.  So a device's close
\* never leaves its drive behind, and the registry too has one drive per car.
PairedWithDevice ==
    /\ \A c \in Cars : LET k == attached[c] IN k # None =>
           dsock[k].phase = "device" /\ CarOf[dsock[k].dev] = c /\ current[dsock[k].dev] = k
    /\ \A s \in Registered : OnCar(reg[s].car) = {s} /\ attached[reg[s].car] # None

\* Every drive the registry holds leaves it.
RegistryForgets == \A s \in Sessions : s \in Registered ~> s \notin Registered

\* "WebSocket disconnect or heartbeat older than 15 seconds: OFFLINE": once the
\* handlers and statements of its connections are done, a device without a
\* connection is not available.
DisconnectedIsOffline == \A d \in Devices :
    \/ current[d] # None \/ beat[d] # None \/ d \in falling
    \/ \E k \in DeviceSockets : dsock[k].dev = d
    \/ \E j \in jobs : j.off = d
    \/ device[d].state # "AVAILABLE"

\* What holds instead, restarts of the process included: a device without a
\* connection - the one it is known by is gone, or had closed before the handler
\* that registered it went on - comes back or is marked offline.
Connected(d) == current[d] # None /\ dsock[current[d]].wire # "closed"
DisconnectedGoesOffline == \A d \in Devices :
    ~Connected(d) /\ device[d].state # "OFFLINE"
        ~> Connected(d) \/ device[d].state = "OFFLINE"
=============================================================================
