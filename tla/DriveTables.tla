------------------------------ MODULE DriveTables ------------------------------
(***************************************************************************)
(* The PostgreSQL tables behind a drive and the statements that change     *)
(* them:                                                                   *)
(*                                                                         *)
(*   drive_sessions  who holds which car      (apps/web creates the rows,  *)
(*   cars, devices   what the fleet reports    apps/gateway moves them on) *)
(*                                                                         *)
(* One action is one transaction, or one auto-committed statement where    *)
(* the code opens no transaction.  Any action may come after any other:    *)
(* LiveQueue adds the web tier's queue to these tables, Gateway the        *)
(* sockets and the process that decide which gateway action comes when;    *)
(* both take only steps of this module.                                    *)
(*                                                                         *)
(* A definition called Mutant... is a plausible bug in the one after it,   *)
(* which a property has to notice (README, "Mutants").                     *)
(*                                                                         *)
(* Time.  A deadline column is kept as the number of ticks left until it   *)
(* ("expires_at <= now" is ttl = 0), a past instant as the number of ticks *)
(* since ("last_seen_at > now - FRESHNESS" is age < FRESHNESS), cut off    *)
(* where no query can tell a larger value apart.                           *)
(***************************************************************************)
EXTENDS Naturals, FiniteSets

CONSTANTS
    Users,                     \* accounts that drive
    Cars,
    Devices,                   \* enrolled Pi agents
    CarOf,                     \* devices.car_id
    AdminBlocked,              \* cars with admin_blocked set (no code writes the column)
    Sessions,                  \* a pool of drive_sessions.id values
    None,
    DEVICE_FRESHNESS, DRIVE_DURATION, DRIVE_CONNECTION_TIMEOUT

ASSUME TablesAssumption ==
    /\ IsFiniteSet(Users) /\ IsFiniteSet(Cars)
    /\ CarOf \in [Devices -> Cars]
    /\ AdminBlocked \subseteq Cars
    /\ None \notin Users \cup Cars \cup Devices \cup Sessions
    /\ DEVICE_FRESHNESS \in Nat \ {0}
    /\ DRIVE_DURATION \in Nat \ {0}
    /\ DRIVE_CONNECTION_TIMEOUT \in Nat \ {0}

VARIABLES
    session,    \* drive_sessions
    car,        \* cars.state
    device,     \* devices.state, and the age of last_seen_at
    beat,       \* the heartbeat of a device the gateway is part way through, or None
    falling     \* devices marked OFFLINE whose car row is still to be written

tables == <<session, car, device, beat, falling>>

-----------------------------------------------------------------------------
SessionStatus == {"created", "negotiating", "active", "ended"}
PresenceState == {"AVAILABLE", "SAFETY_BLOCKED", "ADMIN_BLOCKED"}
DeviceState == PresenceState \cup {"OFFLINE", "INITIALIZING"}
CarState == DeviceState \cup {"RESERVED", "CONNECTING", "ACTIVE"}

\* An ended row is out of every query: its other columns are dropped, and its
\* id goes back to the pool.
NoSession == [status |-> "ended", user |-> None, car |-> None, ttl |-> 0, idle |-> 0]

SessionRow == [status: SessionStatus \ {"ended"}, user: Users, car: Cars,
               ttl: 0 .. DRIVE_DURATION, idle: 0 .. DRIVE_CONNECTION_TIMEOUT]
Heartbeat == [step: {"seen", "guarded"}, state: PresenceState]

TablesTypeOK ==
    /\ session \in [Sessions -> SessionRow \cup {NoSession}]
    /\ car \in [Cars -> CarState]
    /\ device \in [Devices -> [state: DeviceState, age: 0 .. DEVICE_FRESHNESS]]
    /\ beat \in [Devices -> Heartbeat \cup {None}]
    /\ falling \subseteq Devices

-----------------------------------------------------------------------------
(* Queries.                                                                *)

\* ACTIVE_DRIVE_SESSION_STATUSES; the partial unique indexes cover these rows.
LiveSessions == {s \in Sessions : session[s].status # "ended"}
UnexpiredSessions == {s \in LiveSessions : session[s].ttl > 0}

Fresh(d) == device[d].age < DEVICE_FRESHNESS
Ready(c) == \E d \in Devices :
    CarOf[d] = c /\ device[d].state = "AVAILABLE" /\ Fresh(d)

\* The cars listQueueCars reports as "available", and listAvailableCars returns.
AvailableCars == {c \in Cars \ AdminBlocked :
    /\ car[c] = "AVAILABLE"
    /\ Ready(c)
    /\ \A s \in UnexpiredSessions : session[s].car # c}

\* The states freshDeviceStateSql can return for a car: that of a device seen
\* most recently, and OFFLINE when none is fresh.
FreshDeviceStates(c) ==
    LET seen == {d \in Devices : CarOf[d] = c /\ Fresh(d)}
        last == {d \in seen : \A e \in seen : device[d].age <= device[e].age}
    IN IF c \in AdminBlocked THEN {"ADMIN_BLOCKED"}
       ELSE IF seen = {} THEN {"OFFLINE"} ELSE {device[d].state : d \in last}

\* No update of c's row has passed its where clause and waits to write it: row
\* locks are granted in order, so a later writer of the row comes after it.
RowFree(c) == \A d \in Devices :
    CarOf[d] = c /\ beat[d] # None => beat[d].step # "guarded"

-----------------------------------------------------------------------------
(* drive_sessions.                                                         *)

\* The car and device rows the web tier selects "for update".
Selectable(c) ==
    /\ c \notin AdminBlocked /\ car[c] = "AVAILABLE"
    /\ \E d \in Devices : CarOf[d] = c /\ device[d].state = "AVAILABLE"

\* An unexpired session of the car or the user refuses; an expired one that no
\* sweep has ended yet makes the insert conflict with a unique index.
MutantHeldUser(u, c) == \E s \in LiveSessions : session[s].user = u
Held(u, c) == \E s \in LiveSessions : session[s].car = c \/ session[s].user = u

\* The web tier's insert, and the reservation of the car.
CreateSession(u, c, s) ==
    /\ Selectable(c) /\ Ready(c) /\ ~Held(u, c)
    /\ s \notin LiveSessions
    /\ session' = [session EXCEPT ![s] =
          [status |-> "created", user |-> u, car |-> c, ttl |-> DRIVE_DURATION, idle |-> 0]]
    /\ car' = [car EXCEPT ![c] = "RESERVED"]
    /\ UNCHANGED <<device, beat, falling>>

\* authorizeDriveSession: the browser presented its ticket.
AuthorizeDriveSession(s) ==
    /\ session[s].status = "created" /\ session[s].ttl > 0
    /\ RowFree(session[s].car)
    /\ session' = [session EXCEPT ![s].status = "negotiating", ![s].idle = 0]
    /\ car' = [car EXCEPT ![session[s].car] = "CONNECTING"]
    /\ UNCHANGED <<device, beat, falling>>

\* markDriveSessionActive: the browser reported its WebRTC connection.
Activatable(s) ==
    /\ session[s].status = "negotiating"
    /\ session[s].idle < DRIVE_CONNECTION_TIMEOUT /\ session[s].ttl > 0

MarkDriveSessionActive(s) ==
    /\ Activatable(s)
    /\ RowFree(session[s].car)
    /\ session' = [session EXCEPT ![s].status = "active", ![s].idle = 0]
    /\ car' = [car EXCEPT ![session[s].car] = "ACTIVE"]
    /\ UNCHANGED <<device, beat, falling>>

\* End the sessions of ss; their cars fall back to what their devices report.
EndSessions(ss) ==
    /\ \A s \in ss : RowFree(session[s].car)
    /\ session' = [s \in Sessions |-> IF s \in ss THEN NoSession ELSE session[s]]
    /\ car' \in {f \in [Cars -> CarState] : \A c \in Cars :
          IF \E s \in ss : session[s].car = c
          THEN f[c] \in FreshDeviceStates(c) ELSE f[c] = car[c]}
    /\ UNCHANGED <<device, beat, falling>>

EndDriveSession(s) == s \in LiveSessions /\ EndSessions({s})

\* shouldExpireDriveSession, and the where clause of expireDriveSessions.
Connecting(s) == session[s].status \in {"created", "negotiating"}
ExpirableSessions == {s \in LiveSessions :
    \/ session[s].ttl = 0
    \/ Connecting(s) /\ session[s].idle >= DRIVE_CONNECTION_TIMEOUT}

ExpireDriveSessions == ExpirableSessions # {} /\ EndSessions(ExpirableSessions)

-----------------------------------------------------------------------------
(* The gateway's statements on devices and cars.  Only authenticateDevice  *)
(* is a transaction: the others are runs of auto-committed statements.     *)

AuthenticateDevice(d) ==
    /\ RowFree(CarOf[d])
    /\ device' = [device EXCEPT ![d].state = "INITIALIZING"]
    /\ car' = IF CarOf[d] \in AdminBlocked THEN car
              ELSE [car EXCEPT ![CarOf[d]] = "INITIALIZING"]
    /\ UNCHANGED <<session, beat, falling>>

\* chooseState.
ChooseState(d, healthy) ==
    CASE CarOf[d] \in AdminBlocked -> "ADMIN_BLOCKED"
      [] CarOf[d] \notin AdminBlocked /\ ~healthy -> "SAFETY_BLOCKED"
      [] OTHER -> "AVAILABLE"

\* PresenceRegistry.heartbeat up to recordHeartbeat's answer.
RecordHeartbeat(d, healthy) ==
    /\ beat[d] = None
    /\ device' = [device EXCEPT ![d].age = 0]
    /\ beat' = [beat EXCEPT ![d] = [step |-> "seen", state |-> ChooseState(d, healthy)]]
    /\ UNCHANGED <<session, car, falling>>

\* setPresenceState writes the device, then starts "update cars ... where not
\* exists (live session)": the sub-select sees the sessions committed when the
\* statement starts, although the row may only be written after a wait for the
\* session creation that holds it (CreateSession).
MutantPresenceUnguarded(d) ==
    /\ beat[d] # None /\ beat[d].step = "seen"
    /\ device' = [device EXCEPT ![d].state = beat[d].state]
    /\ beat' = [beat EXCEPT ![d].step = "guarded"]
    /\ UNCHANGED <<session, car, falling>>

SetDevicePresence(d) ==
    /\ beat[d] # None /\ beat[d].step = "seen"
    /\ device' = [device EXCEPT ![d].state = beat[d].state]
    /\ beat' = [beat EXCEPT ![d] =
          IF \E s \in LiveSessions : session[s].car = CarOf[d]
          THEN None ELSE [beat[d] EXCEPT !.step = "guarded"]]
    /\ UNCHANGED <<session, car, falling>>

SetCarPresence(d) ==
    /\ beat[d] # None /\ beat[d].step = "guarded"
    /\ car' = [car EXCEPT ![CarOf[d]] = beat[d].state]
    /\ beat' = [beat EXCEPT ![d] = None]
    /\ UNCHANGED <<session, device, falling>>

\* markDeviceOffline: a socket closed, or a sweep found the device stale.
MarkDeviceOffline(d) ==
    /\ d \notin falling
    /\ device' = [device EXCEPT ![d].state = "OFFLINE"]
    /\ falling' = falling \cup {d}
    /\ UNCHANGED <<session, car, beat>>

MarkCarOffline(d) ==
    /\ d \in falling
    /\ RowFree(CarOf[d])
    /\ car' = [car EXCEPT ![CarOf[d]] =
          IF CarOf[d] \in AdminBlocked THEN "ADMIN_BLOCKED" ELSE "OFFLINE"]
    /\ falling' = falling \ {d}
    /\ UNCHANGED <<session, device, beat>>

\* The gateway process stops: the statements it had not sent are lost, one that
\* waits for a row still gets it.
GatewayStops ==
    /\ beat' = [d \in Devices |->
          IF beat[d] # None /\ beat[d].step = "seen" THEN None ELSE beat[d]]
    /\ falling' = {}
    /\ UNCHANGED <<session, car, device>>

-----------------------------------------------------------------------------
Dec(n) == IF n = 0 THEN 0 ELSE n - 1
IncTo(n, bound) == IF n < bound THEN n + 1 ELSE bound

\* updated_at matters while a session is connecting, and not afterwards.
Tick ==
    /\ session' = [s \in Sessions |-> [session[s] EXCEPT
          !.ttl = Dec(session[s].ttl),
          !.idle = IF Connecting(s) THEN IncTo(session[s].idle, DRIVE_CONNECTION_TIMEOUT)
                   ELSE session[s].idle]]
    /\ device' = [d \in Devices |->
          [device[d] EXCEPT !.age = IncTo(device[d].age, DEVICE_FRESHNESS)]]
    /\ UNCHANGED <<car, beat, falling>>

\* provisionCar and consumeEnrollment have run; nobody drives yet.
TablesInit ==
    /\ session = [s \in Sessions |-> NoSession]
    /\ car = [c \in Cars |-> "OFFLINE"]
    /\ device = [d \in Devices |-> [state |-> "INITIALIZING", age |-> DEVICE_FRESHNESS]]
    /\ beat = [d \in Devices |-> None]
    /\ falling = {}

SessionStep ==
    \/ \E s \in Sessions :
          AuthorizeDriveSession(s) \/ MarkDriveSessionActive(s) \/ EndDriveSession(s)
    \/ ExpireDriveSessions

DeviceStep ==
    \E d \in Devices :
        \/ AuthenticateDevice(d)
        \/ \E healthy \in BOOLEAN : RecordHeartbeat(d, healthy)
        \/ SetDevicePresence(d) \/ SetCarPresence(d)
        \/ MarkDeviceOffline(d) \/ MarkCarOffline(d)

TablesNext ==
    \/ \E u \in Users, c \in Cars, s \in Sessions : CreateSession(u, c, s)
    \/ SessionStep
    \/ DeviceStep
    \/ GatewayStops
    \/ Tick

TablesSpec == TablesInit /\ [][TablesNext]_tables

-----------------------------------------------------------------------------
(* Properties.                                                             *)

\* Never two rides for one car, nor for one driver, counting the sessions that
\* ran out but were not swept yet: a creation that no sweep has run before is
\* refused, not doubled.
OneDrive == \A s, t \in LiveSessions : s # t =>
    session[s].user # session[t].user /\ session[s].car # session[t].car

\* A heartbeat cannot free a car whose driver has connected to the gateway: if
\* a car with a session reads AVAILABLE, its browser has not arrived yet.
ConnectedCarNotFreed == \A s \in LiveSessions :
    car[session[s].car] = "AVAILABLE" => session[s].status = "created"

\* What the store's test says of setPresenceState: no heartbeat frees a car
\* before its session is ended.
HeartbeatFreesNoCar == \A s \in LiveSessions : car[session[s].car] # "AVAILABLE"
=============================================================================
