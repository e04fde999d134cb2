--------------------------- MODULE DriveTablesProofs ---------------------------
(***************************************************************************)
(* Proofs about the drive tables, for any users, cars, devices, sessions   *)
(* and time bounds.                                                        *)
(***************************************************************************)
EXTENDS DriveTables, TLAPS

\* Decrementing and bounded incrementing stay within a column's range.
LEMMA ClockRanges ==
    ASSUME NEW bound \in Nat, NEW n \in 0 .. bound
    PROVE  Dec(n) \in 0 .. bound /\ IncTo(n, bound) \in 0 .. bound
BY SMT DEF Dec, IncTo

\* The rows a live session can be.
LEMMA LiveRows ==
    ASSUME TablesTypeOK, NEW s \in LiveSessions
    PROVE  s \in Sessions /\ session[s] \in SessionRow
BY DEF TablesTypeOK, LiveSessions, NoSession

\* Every state a car can fall back to when its session ends is a car state.
LEMMA FreshStates ==
    ASSUME TablesTypeOK, NEW c \in Cars
    PROVE  FreshDeviceStates(c) \subseteq CarState
BY DEF TablesTypeOK, FreshDeviceStates, CarState, DeviceState, PresenceState

-----------------------------------------------------------------------------
(* The types.                                                              *)

\* The tables as provisioning leaves them are well typed.
LEMMA TypeInit == TablesInit => TablesTypeOK
BY TablesAssumption DEF TablesInit, TablesTypeOK, CarState, DeviceState

\* The web tier's insert writes a row of the declared columns.
LEMMA TypeCreate ==
    ASSUME TablesTypeOK, NEW u \in Users, NEW c \in Cars, NEW s \in Sessions,
           CreateSession(u, c, s)
    PROVE  TablesTypeOK'
<1>1. session' \in [Sessions -> SessionRow \cup {NoSession}]
  BY TablesAssumption
  DEF CreateSession, TablesTypeOK, SessionRow, SessionStatus
<1>2. car' \in [Cars -> CarState]
  BY DEF CreateSession, TablesTypeOK, CarState
<1>. QED  BY <1>1, <1>2 DEF CreateSession, TablesTypeOK

\* Ending any live sessions keeps the types, whichever fresh device the
\* cars fall back to.
LEMMA TypeEnd ==
    ASSUME TablesTypeOK, NEW ss \in SUBSET Sessions, EndSessions(ss)
    PROVE  TablesTypeOK'
BY DEF EndSessions, TablesTypeOK

\* The gateway's statements on drive_sessions keep the types.
LEMMA TypeSession ==
    ASSUME TablesTypeOK, SessionStep
    PROVE  TablesTypeOK'
<1>1. ASSUME NEW s \in Sessions, AuthorizeDriveSession(s)
      PROVE  TablesTypeOK'
  <2>1. session[s] \in SessionRow
    BY <1>1 DEF AuthorizeDriveSession, TablesTypeOK, NoSession
  <2>2. session' \in [Sessions -> SessionRow \cup {NoSession}]
    <3>. DEFINE r == [session[s] EXCEPT !.status = "negotiating", !.idle = 0]
    <3>1. 0 \in 0 .. DRIVE_CONNECTION_TIMEOUT
      BY TablesAssumption
    <3>2. r \in SessionRow
      BY <2>1, <3>1 DEF SessionRow, SessionStatus
    <3>3. session' = [session EXCEPT ![s] = r]
      BY <1>1 DEF AuthorizeDriveSession, TablesTypeOK
    <3>. HIDE DEF r
    <3>. QED  BY <3>2, <3>3 DEF TablesTypeOK
  <2>. QED  BY <1>1, <2>2 DEF AuthorizeDriveSession, TablesTypeOK, CarState
<1>2. ASSUME NEW s \in Sessions, MarkDriveSessionActive(s)
      PROVE  TablesTypeOK'
  <2>1. session[s] \in SessionRow
    BY <1>2 DEF MarkDriveSessionActive, Activatable, TablesTypeOK, NoSession
  <2>2. session' \in [Sessions -> SessionRow \cup {NoSession}]
    <3>. DEFINE r == [session[s] EXCEPT !.status = "active", !.idle = 0]
    <3>1. 0 \in 0 .. DRIVE_CONNECTION_TIMEOUT
      BY TablesAssumption
    <3>2. r \in SessionRow
      BY <2>1, <3>1 DEF SessionRow, SessionStatus
    <3>3. session' = [session EXCEPT ![s] = r]
      BY <1>2 DEF MarkDriveSessionActive, TablesTypeOK
    <3>. HIDE DEF r
    <3>. QED  BY <3>2, <3>3 DEF TablesTypeOK
  <2>. QED  BY <1>2, <2>2 DEF MarkDriveSessionActive, TablesTypeOK, CarState
<1>3. ASSUME NEW s \in Sessions, EndDriveSession(s)
      PROVE  TablesTypeOK'
  BY <1>3, TypeEnd DEF EndDriveSession
<1>4. CASE ExpireDriveSessions
  BY <1>4, TypeEnd DEF ExpireDriveSessions, ExpirableSessions, LiveSessions
<1>. QED  BY <1>1, <1>2, <1>3, <1>4 DEF SessionStep

\* The gateway's statements on devices and cars keep the types.
LEMMA TypeDevice ==
    ASSUME TablesTypeOK, DeviceStep
    PROVE  TablesTypeOK'
<1>1. PICK d \in Devices :
        \/ AuthenticateDevice(d)
        \/ \E healthy \in BOOLEAN : RecordHeartbeat(d, healthy)
        \/ SetDevicePresence(d) \/ SetCarPresence(d)
        \/ MarkDeviceOffline(d) \/ MarkCarOffline(d)
  BY DEF DeviceStep
<1>0. CarOf[d] \in Cars /\ 0 \in 0 .. DEVICE_FRESHNESS
  BY TablesAssumption
<1>2. CASE AuthenticateDevice(d)
  BY <1>2, <1>0 DEF AuthenticateDevice, TablesTypeOK, DeviceState, CarState
<1>3. ASSUME NEW healthy \in BOOLEAN, RecordHeartbeat(d, healthy)
      PROVE  TablesTypeOK'
  <2>1. ChooseState(d, healthy) \in PresenceState
    BY DEF ChooseState, PresenceState
  <2>. QED  BY <1>3, <1>0, <2>1 DEF RecordHeartbeat, TablesTypeOK, Heartbeat
<1>4. CASE SetDevicePresence(d)
  <2>1. beat[d] \in Heartbeat
    BY <1>4 DEF SetDevicePresence, TablesTypeOK
  <2>. QED
    BY <1>4, <2>1 DEF SetDevicePresence, TablesTypeOK, Heartbeat, DeviceState
<1>5. CASE SetCarPresence(d)
  <2>1. beat[d] \in Heartbeat
    BY <1>5 DEF SetCarPresence, TablesTypeOK
  <2>. QED
    BY <1>5, <1>0, <2>1
    DEF SetCarPresence, TablesTypeOK, Heartbeat, CarState, DeviceState
<1>6. CASE MarkDeviceOffline(d)
  BY <1>6 DEF MarkDeviceOffline, TablesTypeOK, DeviceState
<1>7. CASE MarkCarOffline(d)
  BY <1>7, <1>0
  DEF MarkCarOffline, TablesTypeOK, CarState, DeviceState, PresenceState
<1>. QED  BY <1>1, <1>2, <1>3, <1>4, <1>5, <1>6, <1>7

\* The clock leaves no column below zero and none past its cut-off.
LEMMA TypeTick ==
    ASSUME TablesTypeOK, Tick
    PROVE  TablesTypeOK'
<1>1. session' \in [Sessions -> SessionRow \cup {NoSession}]
  <2>1. ASSUME NEW s \in Sessions
        PROVE  session'[s] \in SessionRow \cup {NoSession}
    <3>1. session'[s] = [session[s] EXCEPT
            !.ttl = Dec(session[s].ttl),
            !.idle = IF Connecting(s) THEN IncTo(session[s].idle, DRIVE_CONNECTION_TIMEOUT)
                     ELSE session[s].idle]
      BY DEF Tick
    <3>2. CASE session[s] = NoSession
      <4>1. ~Connecting(s) /\ Dec(session[s].ttl) = 0 /\ session[s].idle = 0
        BY <3>2 DEF NoSession, Connecting, Dec
      <4>2. session'[s] = [NoSession EXCEPT !.ttl = 0, !.idle = 0]
        BY <3>1, <3>2, <4>1
      <4>. QED  BY <4>2 DEF NoSession
    <3>3. CASE session[s] \in SessionRow
      <4>1. /\ Dec(session[s].ttl) \in 0 .. DRIVE_DURATION
            /\ IncTo(session[s].idle, DRIVE_CONNECTION_TIMEOUT) \in 0 .. DRIVE_CONNECTION_TIMEOUT
        BY <3>3, ClockRanges, TablesAssumption DEF SessionRow
      <4>2. PICK t \in 0 .. DRIVE_DURATION, i \in 0 .. DRIVE_CONNECTION_TIMEOUT :
              session'[s] = [session[s] EXCEPT !.ttl = t, !.idle = i]
        BY <3>1, <3>3, <4>1 DEF SessionRow
      <4>. QED  BY <3>3, <4>2 DEF SessionRow
    <3>. QED  BY <3>2, <3>3 DEF TablesTypeOK
  <2>. QED  BY <2>1 DEF Tick
<1>2. device' \in [Devices -> [state: DeviceState, age: 0 .. DEVICE_FRESHNESS]]
  BY ClockRanges, TablesAssumption DEF Tick, TablesTypeOK
<1>. QED  BY <1>1, <1>2 DEF Tick, TablesTypeOK

\* Every step keeps the types.
LEMMA TypeNext == TablesTypeOK /\ [TablesNext]_tables => TablesTypeOK'
<1>. SUFFICES ASSUME TablesTypeOK, [TablesNext]_tables PROVE TablesTypeOK'
  OBVIOUS
<1>1. CASE GatewayStops
  BY <1>1 DEF GatewayStops, TablesTypeOK
<1>2. CASE UNCHANGED tables
  BY <1>2 DEF tables, TablesTypeOK
<1>. QED
  BY <1>1, <1>2, TypeCreate, TypeSession, TypeDevice, TypeTick DEF TablesNext

\* Every column keeps to its declared values, whatever the web tier, the
\* gateway's statements and the clock interleave to.
THEOREM TablesTypesHold == TablesSpec => []TablesTypeOK
BY TypeInit, TypeNext, PTL DEF TablesSpec

-----------------------------------------------------------------------------
(* One drive per car and per driver.                                       *)

\* The clock moves deadlines and ages only.
LEMMA TickKeeps ==
    ASSUME TablesTypeOK, Tick, NEW s \in Sessions
    PROVE  /\ session'[s].status = session[s].status
           /\ session'[s].user = session[s].user
           /\ session'[s].car = session[s].car
<1>1. PICK t, i : session'[s] = [session[s] EXCEPT !.ttl = t, !.idle = i]
  BY DEF Tick
<1>2. CASE session[s] = NoSession
  BY <1>1, <1>2 DEF NoSession
<1>3. CASE session[s] \in SessionRow
  BY <1>1, <1>3 DEF SessionRow
<1>. QED  BY <1>2, <1>3 DEF TablesTypeOK

\* A step that creates no session and changes neither its user nor its car
\* keeps the drives apart.
LEMMA OneDriveKept ==
    ASSUME OneDrive,
           \A s \in Sessions : s \in LiveSessions' =>
              /\ s \in LiveSessions
              /\ session'[s].user = session[s].user
              /\ session'[s].car = session[s].car
    PROVE  OneDrive'
BY DEF OneDrive, LiveSessions

\* Only the insert could pair two drives, and it finds the car and the driver
\* without a live session, expired ones included.
LEMMA OneDriveNext == TablesTypeOK /\ OneDrive /\ [TablesNext]_tables => OneDrive'
<1>. SUFFICES ASSUME TablesTypeOK, OneDrive, [TablesNext]_tables PROVE OneDrive'
  OBVIOUS
<1>1. ASSUME NEW u \in Users, NEW c \in Cars, NEW s \in Sessions, CreateSession(u, c, s)
      PROVE  OneDrive'
  <2>1. \A t \in LiveSessions : session[t].car # c /\ session[t].user # u
    BY <1>1 DEF CreateSession, Held
  <2>2. /\ \A t \in Sessions \ {s} : session'[t] = session[t]
        /\ session'[s].user = u /\ session'[s].car = c
    BY <1>1 DEF CreateSession, TablesTypeOK
  <2>. QED  BY <2>1, <2>2 DEF OneDrive, LiveSessions
<1>2. ASSUME NEW s \in Sessions, AuthorizeDriveSession(s)
      PROVE  OneDrive'
  BY <1>2, OneDriveKept DEF AuthorizeDriveSession, LiveSessions, TablesTypeOK
<1>3. ASSUME NEW s \in Sessions, MarkDriveSessionActive(s)
      PROVE  OneDrive'
  BY <1>3, OneDriveKept DEF MarkDriveSessionActive, Activatable, LiveSessions, TablesTypeOK
<1>4. ASSUME NEW ss \in SUBSET Sessions, EndSessions(ss)
      PROVE  OneDrive'
  BY <1>4, OneDriveKept DEF EndSessions, LiveSessions, NoSession
<1>5. CASE SessionStep
  BY <1>2, <1>3, <1>4, <1>5
  DEF SessionStep, EndDriveSession, ExpireDriveSessions, ExpirableSessions, LiveSessions
<1>6. CASE DeviceStep \/ GatewayStops \/ UNCHANGED tables
  <2>1. UNCHANGED session
    BY <1>6
    DEF DeviceStep, AuthenticateDevice, RecordHeartbeat, SetDevicePresence, SetCarPresence,
        MarkDeviceOffline, MarkCarOffline, GatewayStops, tables
  <2>. QED  BY <2>1, OneDriveKept DEF LiveSessions
<1>7. CASE Tick
  <2>1. \A s \in Sessions : /\ session'[s].status = session[s].status
                           /\ session'[s].user = session[s].user
                           /\ session'[s].car = session[s].car
    BY <1>7, TickKeeps
  <2>. QED  BY <2>1, OneDriveKept DEF LiveSessions
<1>. QED  BY <1>1, <1>5, <1>6, <1>7 DEF TablesNext

\* There are no drives to begin with.
LEMMA OneDriveInit == TablesInit => OneDrive
BY DEF TablesInit, OneDrive, LiveSessions, NoSession

\* No interleaving of creations, sweeps and gateway statements gives a car two
\* drives, or a driver two cars, however many there are of each.
THEOREM OneDriveHolds == TablesSpec => []OneDrive
<1>1. TablesInit => TablesTypeOK /\ OneDrive
  BY TypeInit, OneDriveInit
<1>2. TablesTypeOK /\ OneDrive /\ [TablesNext]_tables => (TablesTypeOK /\ OneDrive)'
  BY TypeNext, OneDriveNext
<1>. QED  BY <1>1, <1>2, PTL DEF TablesSpec

-----------------------------------------------------------------------------
(* A heartbeat does not free a connected driver's car.                     *)

\* Inductive: and no heartbeat that found the car without a session is still
\* to write the row of a car whose browser has arrived.
ConnectedInv == \A s \in LiveSessions : session[s].status # "created" =>
    car[session[s].car] # "AVAILABLE" /\ RowFree(session[s].car)

TablesInv == TablesTypeOK /\ OneDrive /\ ConnectedInv

\* There are no drives to begin with.
LEMMA ConnectedInit == TablesInit => ConnectedInv
BY DEF TablesInit, ConnectedInv, LiveSessions, NoSession

\* A session statement writes the car of a connected session to a state that
\* is not AVAILABLE, and ends every session whose car it lets fall back.
LEMMA ConnectedSession ==
    ASSUME TablesInv, SessionStep
    PROVE  ConnectedInv'
<1>. USE DEF TablesInv
<1>0. beat' = beat
  BY DEF SessionStep, AuthorizeDriveSession, MarkDriveSessionActive, EndDriveSession,
         ExpireDriveSessions, EndSessions
<1>1. ASSUME NEW s \in Sessions, AuthorizeDriveSession(s) \/ MarkDriveSessionActive(s)
      PROVE  ConnectedInv'
  <2>1. s \in LiveSessions /\ session[s].car \in Cars /\ RowFree(session[s].car)
    BY <1>1
    DEF AuthorizeDriveSession, MarkDriveSessionActive, Activatable, LiveSessions,
        TablesTypeOK, SessionRow, NoSession
  <2>2. PICK state \in {"CONNECTING", "ACTIVE"} : car' = [car EXCEPT ![session[s].car] = state]
    BY <1>1 DEF AuthorizeDriveSession, MarkDriveSessionActive
  <2>3. /\ \A t \in Sessions \ {s} : session'[t] = session[t]
        /\ session'[s].car = session[s].car
    <3>1. session[s] \in SessionRow
      BY <2>1, LiveRows
    <3>. QED
      BY <1>1, <3>1 DEF AuthorizeDriveSession, MarkDriveSessionActive, TablesTypeOK, SessionRow
  <2>4. ASSUME NEW t \in LiveSessions', session'[t].status # "created"
        PROVE  (car[session[t].car] # "AVAILABLE" /\ RowFree(session[t].car))'
    <3>1. CASE t = s
      BY <3>1, <2>1, <2>2, <2>3, <1>0 DEF TablesTypeOK, RowFree
    <3>2. CASE t # s
      <4>1. t \in LiveSessions /\ session[t].status # "created"
        BY <3>2, <2>3, <2>4 DEF LiveSessions
      <4>2. session[t].car \in Cars /\ session[t].car # session[s].car
        BY <3>2, <4>1, <2>1, LiveRows DEF SessionRow, OneDrive
      <4>3. session'[t] = session[t] /\ car'[session[t].car] = car[session[t].car]
        BY <3>2, <4>1, <4>2, <2>2, <2>3 DEF TablesTypeOK, LiveSessions
      <4>4. car[session[t].car] # "AVAILABLE" /\ RowFree(session[t].car)
        BY <4>1 DEF ConnectedInv
      <4>. QED  BY <4>3, <4>4, <1>0 DEF RowFree
    <3>. QED  BY <3>1, <3>2
  <2>. QED  BY <2>4 DEF ConnectedInv
<1>2. ASSUME NEW ss \in SUBSET LiveSessions, EndSessions(ss)
      PROVE  ConnectedInv'
  <2>1. ASSUME NEW t \in LiveSessions', session'[t].status # "created"
        PROVE  (car[session[t].car] # "AVAILABLE" /\ RowFree(session[t].car))'
    <3>1. t \notin ss /\ session'[t] = session[t] /\ t \in LiveSessions
      BY <1>2, <2>1 DEF EndSessions, LiveSessions, NoSession
    <3>2. session[t].car \in Cars /\ \A s \in ss : session[s].car # session[t].car
      BY <3>1, LiveRows DEF SessionRow, OneDrive
    <3>3. car'[session[t].car] = car[session[t].car]
      BY <3>2, <1>2 DEF EndSessions
    <3>. QED  BY <2>1, <3>1, <3>2, <3>3, <1>0 DEF ConnectedInv, RowFree
  <2>. QED  BY <2>1 DEF ConnectedInv
<1>. QED
  BY <1>1, <1>2 DEF SessionStep, EndDriveSession, ExpireDriveSessions, ExpirableSessions

\* A heartbeat that passed its guard before the session was created writes
\* the car before the browser can connect, as the row's lock is its own.
LEMMA ConnectedDevice ==
    ASSUME TablesInv, DeviceStep
    PROVE  ConnectedInv'
<1>. USE DEF TablesInv
<1>1. PICK d \in Devices :
        \/ AuthenticateDevice(d)
        \/ \E healthy \in BOOLEAN : RecordHeartbeat(d, healthy)
        \/ SetDevicePresence(d) \/ SetCarPresence(d)
        \/ MarkDeviceOffline(d) \/ MarkCarOffline(d)
  BY DEF DeviceStep
<1>. USE TablesAssumption
<1>2. session' = session
  BY <1>1
  DEF AuthenticateDevice, RecordHeartbeat, SetDevicePresence, SetCarPresence,
      MarkDeviceOffline, MarkCarOffline
\* Only SetCarPresence can make a car AVAILABLE, and only SetDevicePresence can
\* leave a statement waiting; neither on the car of a connected session.
<1>3. ASSUME NEW c \in Cars, NEW s \in LiveSessions,
             session[s].car = c, session[s].status # "created"
      PROVE  car'[c] # "AVAILABLE" /\ RowFree(c)'
  <2>1. car[c] # "AVAILABLE" /\ RowFree(c)
    BY <1>3 DEF ConnectedInv
  <2>2. CASE AuthenticateDevice(d) \/ MarkDeviceOffline(d) \/ MarkCarOffline(d)
    BY <2>1, <2>2
    DEF AuthenticateDevice, MarkDeviceOffline, MarkCarOffline, RowFree, TablesTypeOK
  <2>3. ASSUME NEW healthy \in BOOLEAN, RecordHeartbeat(d, healthy)
        PROVE  car'[c] # "AVAILABLE" /\ RowFree(c)'
    BY <2>1, <2>3 DEF RecordHeartbeat, RowFree, TablesTypeOK
  <2>4. CASE SetDevicePresence(d)
    <3>1. CarOf[d] = c => beat'[d] = None
      BY <1>3, <2>4 DEF SetDevicePresence, TablesTypeOK
    <3>2. \A e \in Devices \ {d} : beat'[e] = beat[e]
      BY <2>4 DEF SetDevicePresence, TablesTypeOK
    <3>. QED  BY <2>1, <2>4, <3>1, <3>2 DEF SetDevicePresence, RowFree
  <2>5. CASE SetCarPresence(d)
    <3>1. CarOf[d] # c
      BY <2>1, <2>5 DEF SetCarPresence, RowFree
    <3>. QED  BY <2>1, <2>5, <3>1 DEF SetCarPresence, RowFree, TablesTypeOK
  <2>. QED  BY <1>1, <2>2, <2>3, <2>4, <2>5
<1>. QED  BY <1>2, <1>3, LiveRows DEF ConnectedInv, LiveSessions, SessionRow

\* Every step keeps the invariant.
LEMMA ConnectedNext == TablesInv /\ [TablesNext]_tables => ConnectedInv'
<1>. SUFFICES ASSUME TablesInv, [TablesNext]_tables PROVE ConnectedInv'
  OBVIOUS
<1>. USE DEF TablesInv
<1>1. ASSUME NEW u \in Users, NEW c \in Cars, NEW s \in Sessions, CreateSession(u, c, s)
      PROVE  ConnectedInv'
  <2>1. /\ \A t \in Sessions \ {s} : session'[t] = session[t]
        /\ session'[s].status = "created"
        /\ \A b \in Cars \ {c} : car'[b] = car[b]
        /\ \A b \in Cars : RowFree(b)' <=> RowFree(b)
        /\ car'[c] = "RESERVED"
    BY <1>1 DEF CreateSession, TablesTypeOK, RowFree
  <2>2. \A t \in LiveSessions : session[t].car \in Cars
    BY LiveRows DEF SessionRow
  <2>. QED  BY <2>1, <2>2 DEF ConnectedInv, LiveSessions
<1>2. CASE GatewayStops \/ UNCHANGED tables
  BY <1>2 DEF GatewayStops, tables, ConnectedInv, LiveSessions, RowFree, TablesTypeOK
<1>3. CASE Tick
  <2>1. ASSUME NEW s \in LiveSessions', session'[s].status # "created"
        PROVE  (car[session[s].car] # "AVAILABLE" /\ RowFree(session[s].car))'
    <3>1. s \in LiveSessions /\ session[s].status # "created" /\ session'[s].car = session[s].car
      BY <1>3, <2>1, TickKeeps DEF LiveSessions
    <3>2. car' = car /\ beat' = beat
      BY <1>3 DEF Tick
    <3>. QED  BY <3>1, <3>2 DEF ConnectedInv, RowFree
  <2>. QED  BY <2>1 DEF ConnectedInv
<1>. QED  BY <1>1, <1>2, <1>3, ConnectedSession, ConnectedDevice DEF TablesNext

\* The inductive invariant holds in every reachable state.
LEMMA TablesInvHolds == TablesSpec => []TablesInv
<1>1. TablesInit => TablesInv
  BY TypeInit, OneDriveInit, ConnectedInit DEF TablesInv
<1>2. TablesInv /\ [TablesNext]_tables => TablesInv'
  BY TypeNext, OneDriveNext, ConnectedNext DEF TablesInv
<1>. QED  BY <1>1, <1>2, PTL DEF TablesSpec

\* Once a driver has connected, no heartbeat, reconnection or sweep shows the
\* car as available before the drive has ended.
THEOREM ConnectedCarStaysTaken == TablesSpec => []ConnectedCarNotFreed
<1>1. TablesInv => ConnectedCarNotFreed
  BY DEF TablesInv, ConnectedInv, ConnectedCarNotFreed
<1>. QED  BY <1>1, TablesInvHolds, PTL
=============================================================================
