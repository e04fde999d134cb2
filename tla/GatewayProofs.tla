----------------------------- MODULE GatewayProofs -----------------------------
(* The gateway process for any number of connections, drives, cars and devices:  *)
(* it takes only steps of the tables, its maps fit together, and no drive is     *)
(* forgotten between the maps and the tables.                                    *)
EXTENDS Gateway, DriveTablesProofs

Wires == {"open", "closing", "closed"}
DeviceConnections ==
    [phase: {"idle", "authenticating", "authenticated", "device"},
     dev: Devices \cup {None}, wire: Wires]
BrowserConnections ==
    [phase: {"idle", "authorizing", "authorized", "browser", "confirming", "marked"},
     sid: Sessions \cup {None}, car: Cars \cup {None}, ttl: Nat, wire: Wires]
Jobs == [end: Sessions \cup {None}, off: Devices \cup {None}]

DeviceSocketTypes ==
    /\ dsock \in [DeviceSockets -> DeviceConnections]
    /\ \A k \in DeviceSockets : dsock[k].phase # "idle" => dsock[k].dev \in Devices
BrowserSocketTypes ==
    /\ bsock \in [BrowserSockets -> BrowserConnections]
    /\ \A k \in BrowserSockets : bsock[k].phase # "idle" => bsock[k].sid \in Sessions /\ bsock[k].car \in Cars
MapTypes ==
    /\ current \in [Devices -> DeviceSockets \cup {None}]
    /\ attached \in [Cars -> DeviceSockets \cup {None}]
    /\ reg \in [Sessions -> Drives \cup {None}]
JobTypes == jobs \subseteq Jobs /\ \A j \in jobs : j.end = None => j.off \in Devices

GatewayTypes ==
    TablesTypeOK /\ DeviceSocketTypes /\ BrowserSocketTypes /\ MapTypes /\ JobTypes

LEMMA GatewayTypesInit == GInit => GatewayTypes
<1>1. TablesInit => TablesTypeOK
    BY TypeInit
<1>2. SUFFICES ASSUME EmptyMemory(dsock, bsock, current, attached, reg, jobs)
      PROVE  DeviceSocketTypes /\ BrowserSocketTypes /\ MapTypes /\ JobTypes
    BY <1>1 DEF GInit, GatewayTypes
<1>3. IdleDevice \in DeviceConnections /\ IdleDevice.phase = "idle"
    BY DEF IdleDevice, DeviceConnections, Wires
<1>4. IdleBrowser \in BrowserConnections /\ IdleBrowser.phase = "idle"
    BY DEF IdleBrowser, BrowserConnections, Wires
<1>5. QED
    BY <1>2, <1>3, <1>4
    DEF EmptyMemory, DeviceSocketTypes, BrowserSocketTypes, MapTypes, JobTypes

-----------------------------------------------------------------------------
\* Every step of the process is one of the tables' or leaves them alone.
LEMMA TablesStep ==
    ASSUME GatewayTypes, [GNext]_gvars
    PROVE  [TablesNext]_tables
<1>1. CASE UNCHANGED gvars
    BY <1>1 DEF gvars
<1>2. CASE DeviceSocketStep
  <2>1. PICK k \in DeviceSockets :
            \/ \E d \in Devices : DeviceConnects(k, d)
            \/ StoreAuthenticates(k) \/ AttachDevice(k) \/ DeviceDrops(k) \/ DeviceClosed(k)
            \/ \E healthy \in BOOLEAN : DeviceHeartbeat(k, healthy)
            \/ \E s \in Sessions : DeviceEnds(k, s)
    BY <1>2 DEF DeviceSocketStep
  <2>2. dsock[k].phase # "idle" => dsock[k].dev \in Devices
    BY DEF GatewayTypes, DeviceSocketTypes
  <2>3. CASE StoreAuthenticates(k)
    BY <2>2, <2>3 DEF StoreAuthenticates, TablesNext, DeviceStep
  <2>4. CASE \E healthy \in BOOLEAN : DeviceHeartbeat(k, healthy)
    BY <2>2, <2>4 DEF DeviceHeartbeat, TablesNext, DeviceStep
  <2>5. CASE \/ \E d \in Devices : DeviceConnects(k, d)
             \/ AttachDevice(k) \/ DeviceDrops(k) \/ DeviceClosed(k)
             \/ \E s \in Sessions : DeviceEnds(k, s)
    BY <2>5 DEF DeviceConnects, AttachDevice, DeviceDrops, DeviceClosed, DeviceEnds
  <2>6. QED
    BY <2>1, <2>3, <2>4, <2>5
<1>3. CASE BrowserSocketStep
  <2>1. PICK k \in BrowserSockets :
            \/ \E s \in Sessions : BrowserConnects(k, s)
            \/ StoreAuthorizes(k) \/ StoreRejects(k) \/ AttachBrowser(k)
            \/ BrowserConfirms(k) \/ StoreMarksActive(k) \/ StoreRefusesActive(k) \/ MarkConnected(k)
            \/ BrowserEnds(k) \/ BrowserDrops(k) \/ BrowserClosed(k)
    BY <1>3 DEF BrowserSocketStep
  <2>2. bsock[k].phase # "idle" => bsock[k].sid \in Sessions
    BY DEF GatewayTypes, BrowserSocketTypes
  <2>3. CASE StoreAuthorizes(k) \/ StoreMarksActive(k)
    BY <2>2, <2>3 DEF StoreAuthorizes, StoreMarksActive, TablesNext, SessionStep
  <2>4. CASE \/ \E s \in Sessions : BrowserConnects(k, s)
             \/ StoreRejects(k) \/ AttachBrowser(k) \/ BrowserConfirms(k) \/ StoreRefusesActive(k)
             \/ MarkConnected(k) \/ BrowserEnds(k) \/ BrowserDrops(k) \/ BrowserClosed(k)
    BY <2>4 DEF BrowserConnects, StoreRejects, AttachBrowser, BrowserConfirms,
                StoreRefusesActive, MarkConnected, BrowserEnds, BrowserDrops, BrowserClosed
  <2>5. QED
    BY <2>1, <2>3, <2>4
<1>4. CASE SweepStep
  <2>1. CASE \E d \in Devices : PresenceSweep(d) \/ StatementGoesOn(d)
    BY <2>1 DEF PresenceSweep, StatementGoesOn, TablesNext, DeviceStep
  <2>2. CASE RegistrySweep \/ DatabaseSweep
    BY <2>2 DEF RegistrySweep, DatabaseSweep, TablesNext, SessionStep
  <2>3. ASSUME NEW j \in jobs, RunEndJob(j)
        PROVE  [TablesNext]_tables
    BY <2>3 DEF RunEndJob, EndDriveSession, LiveSessions, TablesNext, SessionStep
  <2>4. ASSUME NEW j \in jobs, RunOffJob(j)
        PROVE  [TablesNext]_tables
    BY <2>4 DEF RunOffJob, GatewayTypes, JobTypes, TablesNext, DeviceStep
  <2>5. QED
    BY <1>4, <2>1, <2>2, <2>3, <2>4 DEF SweepStep
<1>5. CASE GTick
    BY <1>5 DEF GTick, TablesNext
<1>6. CASE \E u \in Users, c \in Cars, s \in Sessions : WebCreates(u, c, s)
    BY <1>6 DEF WebCreates, TablesNext
<1>7. CASE Restart
    BY <1>7 DEF Restart, TablesNext
<1>8. CASE \E j \in jobs : FailEndJob(j)
    BY <1>8 DEF FailEndJob
<1>9. QED
    BY <1>1, <1>2, <1>3, <1>4, <1>5, <1>6, <1>7, <1>8 DEF GNext, SteadyNext
-----------------------------------------------------------------------------
(* The process's memory keeps its types.                                      *)

MemoryTypes == DeviceSocketTypes /\ BrowserSocketTypes /\ MapTypes /\ JobTypes

\* A socket that closes stays a connection, whatever its handler is at.
LEMMA ClosingTypes ==
    /\ \A c \in DeviceConnections :
          Closing(c) \in DeviceConnections /\ Closing(c).phase = c.phase /\ Closing(c).dev = c.dev
    /\ \A c \in BrowserConnections :
          /\ Closing(c) \in BrowserConnections /\ Closing(c).phase = c.phase
          /\ Closing(c).sid = c.sid /\ Closing(c).car = c.car
BY DEF Closing, DeviceConnections, BrowserConnections, Wires

LEMMA IdleTypes ==
    /\ IdleDevice \in DeviceConnections /\ IdleDevice.phase = "idle"
    /\ IdleBrowser \in BrowserConnections /\ IdleBrowser.phase = "idle"
BY DEF IdleDevice, IdleBrowser, DeviceConnections, BrowserConnections, Wires

\* Forgetting drives and deciding to end them.
LEMMA ForgetTypes ==
    ASSUME MapTypes, NEW ss
    PROVE  Unregistered(ss) \in [Sessions -> Drives \cup {None}]
BY DEF MapTypes, Unregistered

LEMMA EndJobTypes ==
    ASSUME JobTypes, NEW ss \in SUBSET Sessions
    PROVE  (jobs \cup {EndJob(s) : s \in ss}) \subseteq Jobs
           /\ \A j \in jobs \cup {EndJob(s) : s \in ss} : j.end = None => j.off \in Devices
BY TablesAssumption DEF JobTypes, Jobs, EndJob

LEMMA DeviceSocketKeepsTypes ==
    ASSUME GatewayTypes, NEW k \in DeviceSockets,
           \/ \E d \in Devices : DeviceConnects(k, d)
           \/ StoreAuthenticates(k) \/ AttachDevice(k) \/ DeviceDrops(k) \/ DeviceClosed(k)
           \/ \E healthy \in BOOLEAN : DeviceHeartbeat(k, healthy)
           \/ \E s \in Sessions : DeviceEnds(k, s)
    PROVE  MemoryTypes'
<1>0. /\ DeviceSocketTypes /\ BrowserSocketTypes /\ MapTypes /\ JobTypes
      /\ dsock[k] \in DeviceConnections
      /\ dsock[k].phase # "idle" => dsock[k].dev \in Devices
    BY DEF GatewayTypes, DeviceSocketTypes
<1> USE DEF MemoryTypes
<1>1. ASSUME NEW d \in Devices, DeviceConnects(k, d)
      PROVE  MemoryTypes'
    BY <1>0, <1>1 DEF DeviceConnects, DeviceSocketTypes, DeviceConnections, Wires,
                      BrowserSocketTypes, MapTypes, JobTypes
<1>2. CASE StoreAuthenticates(k)
    BY <1>0, <1>2 DEF StoreAuthenticates, DeviceSocketTypes, DeviceConnections,
                      BrowserSocketTypes, MapTypes, JobTypes
<1>3. CASE AttachDevice(k)
  <2>0. dsock[k].phase = "authenticated"
    BY <1>3 DEF AttachDevice
  <2>1. dsock[k].dev \in Devices /\ CarOf[dsock[k].dev] \in Cars
    BY <1>0, <2>0, TablesAssumption
  <2>2. MapTypes' /\ JobTypes' /\ BrowserSocketTypes'
    BY <1>0, <1>3, <2>1 DEF AttachDevice, MapTypes, JobTypes, BrowserSocketTypes
  <2>3. \A c \in DeviceConnections :
          [c EXCEPT !.phase = "device"] \in DeviceConnections /\ [c EXCEPT !.phase = "device"].dev = c.dev
    BY DEF DeviceConnections
  <2>4. DeviceSocketTypes'
    BY <1>0, <1>3, <2>1, <2>3, ClosingTypes, IdleTypes DEF AttachDevice, DeviceSocketTypes
  <2>5. QED
    BY <2>2, <2>4
<1>4. CASE DeviceDrops(k)
    BY <1>0, <1>4, ClosingTypes DEF DeviceDrops, DeviceSocketTypes, BrowserSocketTypes, MapTypes, JobTypes
<1>5. CASE DeviceClosed(k)
  <2>1. BrowserSocketTypes'
    BY <1>0, <1>5 DEF DeviceClosed, BrowserSocketTypes
  <2>2. DeviceSocketTypes'
    BY <1>0, <1>5, IdleTypes DEF DeviceClosed, DeviceSocketTypes, DeviceConnections, Wires
  <2>3. CASE UNCHANGED <<current, attached, reg, jobs>>
    BY <1>0, <2>1, <2>2, <2>3 DEF MapTypes, JobTypes
  <2>4. CASE dsock[k].phase = "device" /\ Known(k)
    <3>1. MapTypes'
      BY <1>0, <1>5, <2>4, ForgetTypes DEF DeviceClosed, MapTypes
    <3>2. OnDevice(k) \subseteq Sessions
      BY DEF OnDevice, OnCar, Registered
    <3>3. JobTypes'
      <4>1. dsock[k].dev \in Devices
        BY <1>0, <2>4
      <4>2. jobs' = jobs \cup (IF OnDevice(k) = {} THEN {OffJob(dsock[k].dev)}
                               ELSE {[end |-> s, off |-> dsock[k].dev] : s \in OnDevice(k)})
        BY <1>5, <2>4 DEF DeviceClosed
      <4>3. OffJob(dsock[k].dev) \in Jobs /\ OffJob(dsock[k].dev).off \in Devices
        BY <4>1 DEF OffJob, Jobs
      <4>4. \A s \in OnDevice(k) : LET j == [end |-> s, off |-> dsock[k].dev]
                                   IN  j \in Jobs /\ j.off \in Devices
        BY <3>2, <4>1 DEF Jobs
      <4>5. QED
        BY <1>0, <4>2, <4>3, <4>4 DEF JobTypes
    <3>4. QED
      BY <2>1, <2>2, <3>1, <3>3
  <2>5. QED
    BY <1>5, <2>3, <2>4 DEF DeviceClosed
<1>6. ASSUME NEW healthy \in BOOLEAN, DeviceHeartbeat(k, healthy)
      PROVE  MemoryTypes'
    BY <1>0, <1>6 DEF DeviceHeartbeat, memory, DeviceSocketTypes, BrowserSocketTypes, MapTypes, JobTypes
<1>7. ASSUME NEW s \in Sessions, DeviceEnds(k, s)
      PROVE  MemoryTypes'
  <2>1. MapTypes'
    BY <1>0, <1>7, ForgetTypes DEF DeviceEnds, MapTypes
  <2>2. JobTypes'
    BY <1>0, <1>7, TablesAssumption DEF DeviceEnds, JobTypes, Jobs, EndJob
  <2>3. QED
    BY <1>0, <1>7, <2>1, <2>2 DEF DeviceEnds, DeviceSocketTypes, BrowserSocketTypes
<1>8. QED
    BY <1>1, <1>2, <1>3, <1>4, <1>5, <1>6, <1>7

LEMMA BrowserSocketKeepsTypes ==
    ASSUME GatewayTypes, NEW k \in BrowserSockets,
           \/ \E s \in Sessions : BrowserConnects(k, s)
           \/ StoreAuthorizes(k) \/ StoreRejects(k) \/ AttachBrowser(k)
           \/ BrowserConfirms(k) \/ StoreMarksActive(k) \/ StoreRefusesActive(k) \/ MarkConnected(k)
           \/ BrowserEnds(k) \/ BrowserDrops(k) \/ BrowserClosed(k)
    PROVE  MemoryTypes'
<1>0. /\ DeviceSocketTypes /\ BrowserSocketTypes /\ MapTypes /\ JobTypes /\ TablesTypeOK
      /\ bsock[k] \in BrowserConnections
      /\ bsock[k].phase # "idle" => bsock[k].sid \in Sessions /\ bsock[k].car \in Cars
    BY DEF GatewayTypes, BrowserSocketTypes
<1> USE DEF MemoryTypes
<1> DEFINE Fits(b) == /\ b \in BrowserConnections
                      /\ b.phase # "idle" => b.sid \in Sessions /\ b.car \in Cars
<1>i. bsock[k].phase # "idle" => Fits(Idle(k))
    BY <1>0, IdleTypes DEF Idle, BrowserConnections
<1>c. bsock[k].phase # "idle" => Fits(Closing(Idle(k)))
    BY <1>i, ClosingTypes
<1>f. ASSUME NEW b, Fits(b), bsock' = [bsock EXCEPT ![k] = b]
      PROVE  BrowserSocketTypes'
    BY <1>0, <1>f DEF BrowserSocketTypes
<1>j. bsock[k].phase # "idle" =>
        /\ jobs \cup {EndJob(bsock[k].sid)} \subseteq Jobs
        /\ \A j \in jobs \cup {EndJob(bsock[k].sid)} : j.end = None => j.off \in Devices
    BY <1>0, TablesAssumption DEF JobTypes, Jobs, EndJob
<1>1. ASSUME NEW s \in Sessions, BrowserConnects(k, s)
      PROVE  MemoryTypes'
  <2>1. session[s].car \in Cars
    BY <1>0, <1>1, LiveRows DEF BrowserConnects, SessionRow
  <2>2. DEFINE b == [IdleBrowser EXCEPT !.phase = "authorizing", !.sid = s, !.car = session[s].car, !.wire = "open"]
  <2>3. b \in BrowserConnections /\ b.sid = s /\ b.car = session[s].car
    BY <2>1 DEF IdleBrowser, BrowserConnections, Wires
  <2>4. bsock' = [bsock EXCEPT ![k] = b] /\ UNCHANGED <<dsock, current, attached, reg, jobs>>
    BY <1>1 DEF BrowserConnects
  <2>5. QED
    BY <1>0, <2>1, <2>3, <2>4 DEF DeviceSocketTypes, BrowserSocketTypes, MapTypes, JobTypes
<1>2. CASE StoreAuthorizes(k)
  <2>1. session[bsock[k].sid].ttl \in Nat
    BY <1>0, <1>2, TablesAssumption DEF StoreAuthorizes, AuthorizeDriveSession, TablesTypeOK, SessionRow, NoSession
  <2>2. QED
    BY <1>0, <1>2, <2>1 DEF StoreAuthorizes, BrowserConnections, DeviceSocketTypes,
                            BrowserSocketTypes, MapTypes, JobTypes
<1>3. CASE StoreRejects(k)
    BY <1>0, <1>3, IdleTypes DEF StoreRejects, DeviceSocketTypes, BrowserSocketTypes, MapTypes, JobTypes
<1>4. CASE AttachBrowser(k)
  <2>a. bsock[k].phase = "authorized" /\ UNCHANGED dsock
        /\ (bsock' = [bsock EXCEPT ![k] = Idle(k)] \/ bsock' = [bsock EXCEPT ![k] = IdleBrowser])
    BY <1>4 DEF AttachBrowser
  <2>b. Fits(Idle(k)) /\ Fits(IdleBrowser)
    BY <2>a, <1>i, IdleTypes
  <2>1. DeviceSocketTypes' /\ BrowserSocketTypes'
    BY <1>0, <2>a, <2>b, <1>f DEF DeviceSocketTypes
  <2>2. bsock[k].phase = "authorized" /\ bsock[k].ttl \in Nat
    BY <1>0, <1>4 DEF AttachBrowser, BrowserConnections
  <2>3. [car |-> bsock[k].car, connected |-> FALSE, ttl |-> bsock[k].ttl, age |-> 0] \in Drives
    BY <1>0, <2>2 DEF Drives
  <2>4. MapTypes'
    BY <1>0, <1>4, <2>2, <2>3 DEF AttachBrowser, MapTypes
  <2>5. JobTypes'
    BY <1>0, <1>4, <1>j, <2>2 DEF AttachBrowser, JobTypes
  <2>6. QED
    BY <2>1, <2>4, <2>5
<1>5. CASE BrowserConfirms(k) \/ StoreMarksActive(k)
    BY <1>0, <1>5 DEF BrowserConfirms, StoreMarksActive, BrowserConnections, DeviceSocketTypes,
                      BrowserSocketTypes, MapTypes, JobTypes
<1>6. CASE StoreRefusesActive(k)
  <2>1. bsock[k].phase = "confirming" /\ bsock' = [bsock EXCEPT ![k] = Closing(Idle(k))]
    BY <1>6 DEF StoreRefusesActive
  <2>2. BrowserSocketTypes'
    BY <2>1, <1>c, <1>f
  <2>3. QED
    BY <1>0, <1>6, <2>2 DEF StoreRefusesActive, DeviceSocketTypes, MapTypes, JobTypes
<1>7. CASE MarkConnected(k)
  <2>a. bsock[k].phase = "marked" /\ UNCHANGED dsock
        /\ (bsock' = [bsock EXCEPT ![k] = Idle(k)] \/ bsock' = [bsock EXCEPT ![k] = Closing(Idle(k))])
    BY <1>7 DEF MarkConnected
  <2>b. Fits(Idle(k)) /\ Fits(Closing(Idle(k)))
    BY <2>a, <1>i, <1>c
  <2>1. DeviceSocketTypes' /\ BrowserSocketTypes'
    BY <1>0, <2>a, <2>b, <1>f DEF DeviceSocketTypes
  <2>2. \A r \in Drives : [r EXCEPT !.connected = TRUE] \in Drives
    BY DEF Drives
  <2>3. MapTypes'
    BY <1>0, <1>7, <2>2 DEF MarkConnected, MapTypes, Registered
  <2>4. JobTypes'
    BY <1>0, <1>7, <1>j DEF MarkConnected, JobTypes
  <2>5. QED
    BY <2>1, <2>3, <2>4
<1>8. CASE BrowserEnds(k)
  <2>1. MapTypes' /\ JobTypes'
    BY <1>0, <1>8, <1>j, ForgetTypes DEF BrowserEnds, MapTypes, JobTypes
  <2>2. QED
    BY <1>0, <1>8, <2>1 DEF BrowserEnds, DeviceSocketTypes, BrowserSocketTypes
<1>9. CASE BrowserDrops(k)
    BY <1>0, <1>9, ClosingTypes DEF BrowserDrops, DeviceSocketTypes, BrowserSocketTypes, MapTypes, JobTypes
<1>10. CASE BrowserClosed(k)
  <2>1. DeviceSocketTypes' /\ BrowserSocketTypes'
    BY <1>0, <1>10, IdleTypes DEF BrowserClosed, DeviceSocketTypes, BrowserSocketTypes, BrowserConnections, Wires
  <2>2. MapTypes'
    BY <1>0, <1>10, ForgetTypes DEF BrowserClosed, MapTypes
  <2>3. JobTypes'
    BY <1>0, <1>10, <1>j DEF BrowserClosed, JobTypes
  <2>4. QED
    BY <2>1, <2>2, <2>3
<1>11. QED
    BY <1>1, <1>2, <1>3, <1>4, <1>5, <1>6, <1>7, <1>8, <1>9, <1>10

LEMMA SweepKeepsTypes ==
    ASSUME GatewayTypes, SweepStep \/ \E j \in jobs : FailEndJob(j)
    PROVE  MemoryTypes'
<1>0. DeviceSocketTypes /\ BrowserSocketTypes /\ MapTypes /\ JobTypes
    BY DEF GatewayTypes
<1> USE DEF MemoryTypes
<1>1. ASSUME NEW d \in Devices, PresenceSweep(d)
      PROVE  MemoryTypes'
    BY <1>0, <1>1 DEF PresenceSweep, OffJob, Jobs, DeviceSocketTypes, BrowserSocketTypes, MapTypes, JobTypes
<1>2. CASE DatabaseSweep \/ \E d \in Devices : StatementGoesOn(d)
    BY <1>0, <1>2 DEF DatabaseSweep, StatementGoesOn, memory, DeviceSocketTypes, BrowserSocketTypes, MapTypes, JobTypes
<1>3. CASE RegistrySweep
  <2>1. MapTypes'
    BY <1>0, <1>3, ForgetTypes DEF RegistrySweep, MapTypes
  <2>2. Overdue \in SUBSET Sessions
    BY DEF Overdue, Registered
  <2>3. JobTypes'
    BY <1>0, <1>3, <2>2, EndJobTypes DEF RegistrySweep, JobTypes
  <2>4. QED
    BY <1>0, <1>3, <2>1, <2>3 DEF RegistrySweep, DeviceSocketTypes, BrowserSocketTypes
<1>4. ASSUME NEW j \in jobs, RunEndJob(j) \/ FailEndJob(j)
      PROVE  MemoryTypes'
  <2>1. jobs' = EndDone(j) /\ UNCHANGED <<dsock, bsock, current, attached, reg>>
    BY <1>4 DEF RunEndJob, FailEndJob
  <2>2. j.off # None => OffJob(j.off) \in Jobs /\ OffJob(j.off).off \in Devices
    BY <1>0 DEF JobTypes, OffJob, Jobs
  <2>3. JobTypes'
    BY <1>0, <2>1, <2>2 DEF JobTypes, EndDone
  <2>4. QED
    BY <1>0, <2>1, <2>3 DEF DeviceSocketTypes, BrowserSocketTypes, MapTypes
<1>5. ASSUME NEW j \in jobs, RunOffJob(j)
      PROVE  MemoryTypes'
    BY <1>0, <1>5 DEF RunOffJob, DeviceSocketTypes, BrowserSocketTypes, MapTypes, JobTypes
<1>6. QED
    BY <1>1, <1>2, <1>3, <1>4, <1>5 DEF SweepStep

LEMMA ClockKeepsTypes ==
    ASSUME GatewayTypes, GTick
    PROVE  MemoryTypes'
<1>0. DeviceSocketTypes /\ BrowserSocketTypes /\ MapTypes /\ JobTypes
    BY DEF GatewayTypes
<1>1. \A n \in Nat : Dec(n) \in Nat /\ IncTo(n, DRIVE_CONNECTION_TIMEOUT) \in Nat
    BY TablesAssumption DEF Dec, IncTo
<1>2. \A r \in Drives, t, a \in Nat : [r EXCEPT !.ttl = t, !.age = a] \in Drives
    BY DEF Drives
<1>3. \A r \in Drives : r.ttl \in Nat /\ r.age \in Nat
    BY DEF Drives
<1>4. MapTypes'
    BY <1>0, <1>1, <1>2, <1>3 DEF GTick, MapTypes
<1>5. \A b \in BrowserConnections : b.ttl \in Nat
    BY DEF BrowserConnections
<1>6. BrowserSocketTypes'
  <2>1. ASSUME NEW k \in BrowserSockets
        PROVE  /\ bsock[k] \in BrowserConnections
               /\ bsock'[k] = [bsock[k] EXCEPT !.ttl = Dec(bsock[k].ttl)]
    BY <1>0 DEF GTick, BrowserSocketTypes
  <2>2. ASSUME NEW k \in BrowserSockets
        PROVE  /\ bsock'[k] \in BrowserConnections
               /\ bsock'[k].phase = bsock[k].phase
               /\ bsock'[k].sid = bsock[k].sid /\ bsock'[k].car = bsock[k].car
    <3>1. PICK b \in BrowserConnections : b = bsock[k]
      BY <2>1
    <3>2. PICK t \in Nat : t = Dec(bsock[k].ttl)
      BY <1>1, <1>5, <2>1
    <3>3. bsock'[k] = [b EXCEPT !.ttl = t]
      BY ZenonT(30), <2>1, <3>1, <3>2
    <3>. QED  BY <3>1, <3>3 DEF BrowserConnections
  <2>. QED
    BY <1>0, <2>2 DEF GTick, BrowserSocketTypes
<1>7. QED
    BY <1>0, <1>4, <1>6 DEF GTick, MemoryTypes, DeviceSocketTypes, JobTypes

LEMMA EmptyMemoryTypes ==
    ASSUME EmptyMemory(dsock', bsock', current', attached', reg', jobs')
    PROVE  MemoryTypes'
BY IdleTypes DEF EmptyMemory, MemoryTypes, DeviceSocketTypes, BrowserSocketTypes, MapTypes, JobTypes

LEMMA GatewayTypesStep ==
    ASSUME GatewayTypes, [GNext]_gvars
    PROVE  GatewayTypes'
<1>0. TablesTypeOK'
    BY TablesStep, TypeNext DEF GatewayTypes
<1>1. SUFFICES MemoryTypes'
    BY <1>0 DEF GatewayTypes, MemoryTypes
<1>2. CASE DeviceSocketStep
    BY <1>2, DeviceSocketKeepsTypes DEF DeviceSocketStep
<1>3. CASE BrowserSocketStep
    BY <1>3, BrowserSocketKeepsTypes DEF BrowserSocketStep
<1>4. CASE SweepStep \/ \E j \in jobs : FailEndJob(j)
    BY <1>4, SweepKeepsTypes
<1>5. CASE GTick
    BY <1>5, ClockKeepsTypes
<1>6. CASE Restart
    BY <1>6, EmptyMemoryTypes DEF Restart
<1>7. CASE UNCHANGED gvars \/ \E u \in Users, c \in Cars, s \in Sessions : WebCreates(u, c, s)
    BY <1>7 DEF gvars, memory, WebCreates, GatewayTypes, MemoryTypes,
                DeviceSocketTypes, BrowserSocketTypes, MapTypes, JobTypes
<1>8. QED
    BY <1>2, <1>3, <1>4, <1>5, <1>6, <1>7 DEF GNext, SteadyNext

\* The process takes only steps of the tables, restarts and failing statements
\* included, so that what the tables promise holds whatever sockets do.
THEOREM GatewayImplementsTables == GSpec => TablesSpec
<1>1. GInit => TablesInit
    BY DEF GInit
<1>2. QED
    BY <1>1, GatewayTypesInit, GatewayTypesStep, TablesStep, PTL DEF GSpec, TablesSpec

-----------------------------------------------------------------------------
(* The maps fit together.                                                     *)

\* What the device map names is a connection of that device, or one whose close
\* handler has run.
KnownByDevice == \A d \in Devices : current[d] # None =>
    LET k == current[d] IN
    dsock[k].phase = "idle" \/ (dsock[k].phase = "device" /\ dsock[k].dev = d)

\* The two halves of PairedWithDevice.
Serving(k, c) == dsock[k].phase = "device" /\ CarOf[dsock[k].dev] = c /\ current[dsock[k].dev] = k
CarsServed == \A c \in Cars : attached[c] # None => Serving(attached[c], c)
DrivesPaired == \A s \in Registered :
    /\ attached[reg[s].car] # None
    /\ \A t \in Registered : reg[t].car = reg[s].car => t = s

PairedInv == KnownByDevice /\ CarsServed /\ DrivesPaired

LEMMA PairedInvMeans == PairedInv => PairedWithDevice
BY DEF PairedInv, CarsServed, Serving, DrivesPaired, PairedWithDevice, OnCar, Registered

LEMMA PairedInvInit == GInit => PairedInv
BY DEF GInit, EmptyMemory, PairedInv, KnownByDevice, CarsServed, DrivesPaired, Registered

\* Sessions that leave the registry, or change without changing cars, leave the
\* others paired.
LEMMA FewerPaired ==
    ASSUME DrivesPaired, UNCHANGED attached,
           \A s \in Sessions : reg'[s] # None => reg[s] # None /\ reg'[s].car = reg[s].car
    PROVE  DrivesPaired'
BY DEF DrivesPaired, Registered

\* A connection that is neither the device map's nor a car's may change freely.
LEMMA OtherConnection ==
    ASSUME GatewayTypes, PairedInv, NEW k \in DeviceSockets, NEW v,
           dsock' = [dsock EXCEPT ![k] = v], UNCHANGED <<current, attached>>,
           \/ \A d \in Devices : current[d] # k
           \/ v.phase = dsock[k].phase /\ v.dev = dsock[k].dev
    PROVE  KnownByDevice' /\ CarsServed'
<1>1. /\ \A j \in DeviceSockets \ {k} : dsock'[j] = dsock[j]
      /\ dsock'[k] = v
      /\ current \in [Devices -> DeviceSockets \cup {None}]
      /\ attached \in [Cars -> DeviceSockets \cup {None}]
    BY DEF GatewayTypes, DeviceSocketTypes, MapTypes
<1>2. KnownByDevice'
    BY <1>1 DEF PairedInv, KnownByDevice
<1>3. ASSUME NEW c \in Cars, attached[c] # None
      PROVE  Serving(attached[c], c)'
  <2>1. Serving(attached[c], c) /\ attached[c] \in DeviceSockets
    BY <1>1, <1>3 DEF PairedInv, CarsServed
  <2>2. CASE attached[c] # k
    BY <1>1, <2>1, <2>2 DEF Serving
  <2>3. CASE attached[c] = k
    <3>1. dsock[k].dev \in Devices /\ current[dsock[k].dev] = k
      BY <2>1, <2>3 DEF Serving, GatewayTypes, DeviceSocketTypes
    <3>2. v.phase = dsock[k].phase /\ v.dev = dsock[k].dev
      BY <3>1
    <3>3. QED
      BY <1>1, <2>1, <2>3, <3>2 DEF Serving
  <2>4. QED
    BY <2>2, <2>3
<1>4. QED
    BY <1>2, <1>3 DEF CarsServed

LEMMA AttachDevicePairs ==
    ASSUME GatewayTypes, PairedInv, NEW k \in DeviceSockets, AttachDevice(k)
    PROVE  PairedInv'
<1> DEFINE d == dsock[k].dev
           c == CarOf[d]
           prior == {current[d], attached[c]} \ {k, None}
<1>1. /\ dsock[k].phase = "authenticated"
      /\ current' = [current EXCEPT ![d] = k] /\ attached' = [attached EXCEPT ![c] = k]
      /\ UNCHANGED reg
    BY DEF AttachDevice
<1>2. dsock' = [j \in DeviceSockets |->
              IF j = k THEN [dsock[k] EXCEPT !.phase = "device"]
              ELSE IF j \notin prior THEN dsock[j]
              ELSE IF dsock[j].wire = "closed" THEN IdleDevice ELSE Closing(dsock[j])]
    BY DEF AttachDevice
<1>3. /\ d \in Devices /\ c \in Cars
      /\ dsock[k] \in DeviceConnections
      /\ current \in [Devices -> DeviceSockets \cup {None}]
      /\ attached \in [Cars -> DeviceSockets \cup {None}]
      /\ k # None
    BY <1>1, TablesAssumption, SocketsAssumption DEF GatewayTypes, DeviceSocketTypes, MapTypes
<1>4. dsock'[k].phase = "device" /\ dsock'[k].dev = d
    BY <1>2, <1>3 DEF DeviceConnections
<1>5. ASSUME NEW j \in DeviceSockets, j # k
      PROVE  /\ dsock'[j] = dsock[j] \/ j \in prior
             /\ \/ dsock'[j].phase = "idle"
                \/ dsock'[j].phase = dsock[j].phase /\ dsock'[j].dev = dsock[j].dev
  <2>1. dsock[j] \in DeviceConnections
    BY DEF GatewayTypes, DeviceSocketTypes
  <2>2. QED
    BY <1>2, <1>5, <2>1, ClosingTypes, IdleTypes
<1> HIDE DEF d, c, prior
<1>6. KnownByDevice'
  <2>1. ASSUME NEW e \in Devices, e # d, current[e] # None
        PROVE  LET j == current[e] IN dsock'[j].phase = "idle" \/ (dsock'[j].phase = "device" /\ dsock'[j].dev = e)
    <3>1. LET j == current[e] IN dsock[j].phase = "idle" \/ (dsock[j].phase = "device" /\ dsock[j].dev = e)
      BY <2>1 DEF PairedInv, KnownByDevice
    <3>2. current[e] \in DeviceSockets /\ current[e] # k
      BY <1>1, <1>3, <2>1, <3>1
    <3>3. QED
      BY <1>5, <3>1, <3>2
  <2>2. QED
    BY <1>1, <1>3, <1>4, <2>1 DEF KnownByDevice
<1>7. CarsServed'
  <2> DEFINE Serves(j, b) ==
          dsock'[j].phase = "device" /\ CarOf[dsock'[j].dev] = b /\ current'[dsock'[j].dev] = j
  <2>1. Serves(k, c)
    BY <1>1, <1>3, <1>4 DEF c
  <2>2. ASSUME NEW b \in Cars, b # c, attached[b] # None
        PROVE  Serves(attached[b], b)
    <3> DEFINE j == attached[b]
    <3>1. j \in DeviceSockets /\ Serving(j, b)
      BY <1>3, <2>2 DEF PairedInv, CarsServed
    <3>2. j # k
      BY <1>1, <3>1 DEF Serving
    <3>3. j # current[d]
      <4>1. current[d] = j => dsock[j].dev = d
        BY <1>3, <3>1, SocketsAssumption DEF PairedInv, KnownByDevice, Serving
      <4>2. QED
        BY <2>2, <3>1, <4>1 DEF Serving, c
    <3>4. j # attached[c]
      BY <1>3, <2>2, <3>1, SocketsAssumption DEF PairedInv, CarsServed, Serving
    <3>5. dsock'[j] = dsock[j]
      BY <1>5, <3>1, <3>2, <3>3, <3>4 DEF prior
    <3>6. dsock[j].dev \in Devices /\ dsock[j].dev # d
      BY <2>2, <3>1 DEF Serving, c, GatewayTypes, DeviceSocketTypes
    <3>7. QED
      BY <1>1, <1>3, <3>1, <3>5, <3>6 DEF Serving
  <2>3. QED
    BY <1>1, <1>3, <2>1, <2>2 DEF CarsServed, Serving
<1>8. DrivesPaired'
  <2>1. \A b \in Cars : attached'[b] = None => attached[b] = None
    BY <1>1, <1>3
  <2>2. \A s \in Registered : reg[s].car \in Cars
    BY DEF Registered, GatewayTypes, MapTypes, Drives
  <2>3. QED
    BY <1>1, <2>1, <2>2 DEF PairedInv, DrivesPaired, Registered
<1>9. QED
    BY <1>6, <1>7, <1>8 DEF PairedInv

LEMMA DeviceClosedPairs ==
    ASSUME GatewayTypes, PairedInv, NEW k \in DeviceSockets, DeviceClosed(k)
    PROVE  PairedInv'
<1> DEFINE d == dsock[k].dev
           c == CarOf[d]
<1>1. CASE dsock[k].phase # "device" /\ dsock' = [dsock EXCEPT ![k].wire = "closed"]
           /\ UNCHANGED <<current, attached, reg>>
  <2>1. /\ dsock' = [dsock EXCEPT ![k] = [dsock[k] EXCEPT !.wire = "closed"]]
        /\ [dsock[k] EXCEPT !.wire = "closed"].phase = dsock[k].phase
        /\ [dsock[k] EXCEPT !.wire = "closed"].dev = dsock[k].dev
    BY <1>1 DEF GatewayTypes, DeviceSocketTypes, DeviceConnections
  <2>2. KnownByDevice' /\ CarsServed'
    BY <1>1, <2>1, OtherConnection
  <2>3. QED
    BY <1>1, <2>2 DEF PairedInv, DrivesPaired, Registered
<1>2. CASE dsock[k].phase = "device" /\ ~Known(k) /\ dsock' = [dsock EXCEPT ![k] = IdleDevice]
           /\ UNCHANGED <<current, attached, reg>>
  <2>1. \A e \in Devices : current[e] # k
    BY <1>2, SocketsAssumption DEF PairedInv, KnownByDevice, Known
  <2>2. KnownByDevice' /\ CarsServed'
    BY <1>2, <2>1, OtherConnection
  <2>3. QED
    BY <1>2, <2>2 DEF PairedInv, DrivesPaired, Registered
<1>3. CASE /\ dsock[k].phase = "device" /\ Known(k)
           /\ dsock' = [dsock EXCEPT ![k] = IdleDevice]
           /\ current' = [current EXCEPT ![d] = None]
           /\ attached' = IF attached[c] = k THEN [attached EXCEPT ![c] = None] ELSE attached
           /\ reg' = Unregistered(OnDevice(k))
  <2>1. /\ d \in Devices /\ c \in Cars /\ k # None /\ current[d] = k
        /\ current \in [Devices -> DeviceSockets \cup {None}]
        /\ attached \in [Cars -> DeviceSockets \cup {None}]
        /\ dsock' \in [DeviceSockets -> DeviceConnections]
        /\ \A j \in DeviceSockets \ {k} : dsock'[j] = dsock[j]
    BY <1>3, IdleTypes, TablesAssumption, SocketsAssumption
    DEF Known, GatewayTypes, DeviceSocketTypes, MapTypes
  <2>2. ASSUME NEW e \in Devices, e # d, current[e] # None
        PROVE  current[e] # k
    BY <1>3, <2>1, <2>2 DEF PairedInv, KnownByDevice
  <2>3. KnownByDevice'
    BY <1>3, <2>1, <2>2 DEF PairedInv, KnownByDevice
  <2>4. \A b \in Cars : attached'[b] # None => attached'[b] = attached[b] /\ attached[b] # k
    <3>1. ASSUME NEW b \in Cars, attached[b] = k
          PROVE  b = c
      BY <2>1, <3>1 DEF PairedInv, CarsServed, Serving
    <3>2. QED
      BY <1>3, <2>1, <3>1
  <2>5. ASSUME NEW b \in Cars, attached'[b] # None
        PROVE  LET j == attached'[b] IN
               dsock'[j].phase = "device" /\ CarOf[dsock'[j].dev] = b /\ current'[dsock'[j].dev] = j
    <3> DEFINE j == attached[b]
    <3>1. j \in DeviceSockets /\ j # k /\ attached'[b] = j /\ Serving(j, b)
      BY <2>1, <2>4, <2>5 DEF PairedInv, CarsServed
    <3>2. dsock[j].dev \in Devices /\ dsock[j].dev # d
      BY <2>1, <3>1 DEF Serving, GatewayTypes, DeviceSocketTypes
    <3>3. QED
      BY <1>3, <2>1, <3>1, <3>2 DEF Serving
  <2>6. CarsServed'
    BY <2>5 DEF CarsServed, Serving
  <2>7. \A s \in Sessions : reg'[s] # None =>
            reg'[s] = reg[s] /\ s \in Registered /\ (attached[c] = k => reg[s].car # c)
    BY <1>3 DEF Unregistered, OnDevice, OnCar, Registered
  <2>8. \A s \in Registered : reg[s].car \in Cars
    BY DEF Registered, GatewayTypes, MapTypes, Drives
  <2>9. DrivesPaired'
    BY <1>3, <2>1, <2>7, <2>8 DEF PairedInv, DrivesPaired, Registered
  <2>10. QED
    BY <2>3, <2>6, <2>9 DEF PairedInv
<1>4. QED
    BY <1>1, <1>2, <1>3 DEF DeviceClosed

LEMMA DeviceSocketPairs ==
    ASSUME GatewayTypes, PairedInv, DeviceSocketStep
    PROVE  PairedInv'
<1>1. ASSUME NEW k \in DeviceSockets, NEW d \in Devices, DeviceConnects(k, d)
      PROVE  PairedInv'
  <2>1. KnownByDevice' /\ CarsServed'
    BY <1>1, OtherConnection DEF DeviceConnects
  <2>2. QED
    BY <1>1, <2>1 DEF DeviceConnects, PairedInv, DrivesPaired, Registered
<1>2. ASSUME NEW k \in DeviceSockets, StoreAuthenticates(k)
      PROVE  PairedInv'
  <2>1. \A e \in Devices : current[e] # k
    BY <1>2, SocketsAssumption DEF StoreAuthenticates, PairedInv, KnownByDevice
  <2>2. dsock' = [dsock EXCEPT ![k] = [dsock[k] EXCEPT !.phase = "authenticated"]]
        /\ UNCHANGED <<current, attached, reg>>
    BY <1>2 DEF StoreAuthenticates
  <2>3. KnownByDevice' /\ CarsServed'
    BY <2>1, <2>2, OtherConnection
  <2>4. QED
    BY <2>2, <2>3 DEF PairedInv, DrivesPaired, Registered
<1>3. ASSUME NEW k \in DeviceSockets, AttachDevice(k) \/ DeviceClosed(k)
      PROVE  PairedInv'
    BY <1>3, AttachDevicePairs, DeviceClosedPairs
<1>4. ASSUME NEW k \in DeviceSockets, DeviceDrops(k)
      PROVE  PairedInv'
  <2>1. dsock[k] \in DeviceConnections
    BY DEF GatewayTypes, DeviceSocketTypes
  <2>2. KnownByDevice' /\ CarsServed'
    BY <1>4, <2>1, ClosingTypes, OtherConnection DEF DeviceDrops
  <2>3. QED
    BY <1>4, <2>2 DEF DeviceDrops, PairedInv, DrivesPaired, Registered
<1>5. ASSUME NEW k \in DeviceSockets, NEW healthy \in BOOLEAN, DeviceHeartbeat(k, healthy)
      PROVE  PairedInv'
    BY <1>5 DEF DeviceHeartbeat, memory, PairedInv, KnownByDevice, CarsServed, Serving, DrivesPaired, Registered
<1>6. ASSUME NEW k \in DeviceSockets, NEW s \in Sessions, DeviceEnds(k, s)
      PROVE  PairedInv'
  <2>1. DrivesPaired'
    BY <1>6, FewerPaired DEF DeviceEnds, Unregistered, PairedInv
  <2>2. QED
    BY <1>6, <2>1 DEF DeviceEnds, PairedInv, KnownByDevice, CarsServed, Serving
<1>7. QED
    BY <1>1, <1>2, <1>3, <1>4, <1>5, <1>6 DEF DeviceSocketStep

LEMMA BrowserSocketPairs ==
    ASSUME GatewayTypes, PairedInv, BrowserSocketStep
    PROVE  PairedInv'
<1>1. UNCHANGED <<dsock, current, attached>>
    BY DEF BrowserSocketStep, BrowserConnects, StoreAuthorizes, StoreRejects, AttachBrowser, BrowserConfirms,
           StoreMarksActive, StoreRefusesActive, MarkConnected, BrowserEnds, BrowserDrops, BrowserClosed
<1>2. KnownByDevice' /\ CarsServed'
    BY <1>1 DEF PairedInv, KnownByDevice, CarsServed, Serving
<1>3. SUFFICES DrivesPaired'
    BY <1>2 DEF PairedInv
<1>4. ASSUME NEW k \in BrowserSockets, AttachBrowser(k)
      PROVE  DrivesPaired'
  <2>1. CASE UNCHANGED reg
    BY <1>1, <2>1 DEF PairedInv, DrivesPaired, Registered
  <2>2. CASE reg' # reg
    <3> DEFINE s == bsock[k].sid
               c == bsock[k].car
    <3>1. /\ OnCar(c) = {} /\ attached[c] # None
          /\ reg' = [reg EXCEPT ![s] = [car |-> c, connected |-> FALSE, ttl |-> bsock[k].ttl, age |-> 0]]
      BY <1>4, <2>2 DEF AttachBrowser
    <3>2. \A t \in Sessions : reg'[t] = (IF t = s THEN [car |-> c, connected |-> FALSE, ttl |-> bsock[k].ttl, age |-> 0]
                                         ELSE reg[t])
      BY <3>1 DEF GatewayTypes, MapTypes
    <3>3. \A t \in Registered : reg[t].car # c
      BY <3>1 DEF OnCar
    <3> HIDE DEF s, c
    <3>4. QED
      BY <1>1, <3>1, <3>2, <3>3 DEF PairedInv, DrivesPaired, Registered
  <2>3. QED
    BY <2>1, <2>2
<1>5. ASSUME NEW k \in BrowserSockets, MarkConnected(k)
      PROVE  DrivesPaired'
  <2>1. \A r \in Drives : [r EXCEPT !.connected = TRUE].car = r.car
    BY DEF Drives
  <2>2. \A t \in Sessions : reg'[t] # None => reg[t] # None /\ reg'[t].car = reg[t].car
    BY <1>5, <2>1 DEF MarkConnected, Registered, GatewayTypes, MapTypes
  <2>3. QED
    BY <1>1, <2>2, FewerPaired DEF PairedInv
<1>6. ASSUME NEW k \in BrowserSockets, BrowserEnds(k) \/ BrowserClosed(k)
      PROVE  DrivesPaired'
  <2>1. \A t \in Sessions : reg'[t] # None => reg[t] # None /\ reg'[t].car = reg[t].car
    BY <1>6 DEF BrowserEnds, BrowserClosed, Unregistered
  <2>2. QED
    BY <1>1, <2>1, FewerPaired DEF PairedInv
<1>7. CASE UNCHANGED reg
    BY <1>1, <1>7 DEF PairedInv, DrivesPaired, Registered
<1>8. QED
    BY <1>4, <1>5, <1>6, <1>7 DEF BrowserSocketStep, BrowserConnects, StoreAuthorizes, StoreRejects,
       BrowserConfirms, StoreMarksActive, StoreRefusesActive, BrowserDrops

LEMMA PairedInvStep ==
    ASSUME GatewayTypes, PairedInv, [GNext]_gvars
    PROVE  PairedInv'
<1>1. CASE DeviceSocketStep \/ BrowserSocketStep
    BY <1>1, DeviceSocketPairs, BrowserSocketPairs
<1>2. CASE RegistrySweep \/ GTick
  <2>1. UNCHANGED <<current, attached, dsock>>
    BY <1>2 DEF RegistrySweep, GTick
  <2>2. \A r \in Drives : \A t, a : [r EXCEPT !.ttl = t, !.age = a].car = r.car
    BY DEF Drives
  <2>3. ASSUME NEW s \in Sessions, reg'[s] # None
        PROVE  reg[s] # None /\ reg'[s].car = reg[s].car
    <3>1. CASE RegistrySweep
      BY <2>3, <3>1 DEF RegistrySweep, Unregistered
    <3>2. CASE GTick
      <4>1. reg[s] \in Drives \cup {None}
        BY DEF GatewayTypes, MapTypes
      <4>2. reg'[s] = IF reg[s] = None THEN None ELSE [reg[s] EXCEPT
               !.ttl = Dec(reg[s].ttl), !.age = IncTo(reg[s].age, DRIVE_CONNECTION_TIMEOUT)]
        BY <3>2 DEF GTick
      <4>3. QED
        BY <2>3, <4>1, <4>2, <2>2
    <3>3. QED
      BY <1>2, <3>1, <3>2
  <2>4. QED
    BY <2>1, <2>3, FewerPaired DEF PairedInv, KnownByDevice, CarsServed, Serving
<1>3. CASE Restart
    BY <1>3 DEF Restart, EmptyMemory, PairedInv, KnownByDevice, CarsServed, DrivesPaired, Registered
<1>4. CASE UNCHANGED <<dsock, current, attached, reg>>
    BY <1>4 DEF PairedInv, KnownByDevice, CarsServed, Serving, DrivesPaired, Registered
<1>5. QED
    BY <1>1, <1>2, <1>3, <1>4 DEF GNext, SteadyNext, SweepStep, PresenceSweep, StatementGoesOn, DatabaseSweep,
       RunEndJob, RunOffJob, FailEndJob, WebCreates, memory, gvars

\* The gateway's three maps stay consistent in any order of reconnections, closes,
\* pairings and sweeps, with several devices on a car and restarts at any point
\* (attachDevice, detachDevice, attachBrowser, the close handlers of server.ts).
THEOREM PairedWithDeviceHolds == GSpec => []PairedWithDevice
<1>1. GInit => GatewayTypes /\ PairedInv
    BY GatewayTypesInit, PairedInvInit
<1>2. GatewayTypes /\ PairedInv /\ [GNext]_gvars => (GatewayTypes /\ PairedInv)'
    BY GatewayTypesStep, PairedInvStep
<1>3. QED
    BY <1>1, <1>2, PairedInvMeans, PTL DEF GSpec

-----------------------------------------------------------------------------
(* No drive is lost between the tables, the registry and the handlers.        *)

\* What a step that lets go of a session in one place does in another: it leaves
\* the registry for a job that ends it, a handler for the registry or such a job,
\* and a job is gone only once the session has ended.
Confirmed(s) == s \in Registered /\ reg[s].connected
Handed(s) ==
    /\ s \in Registered => s \in Registered' \/ Ending(s)'
    /\ Confirmed(s) => Confirmed(s)' \/ Ending(s)'
    /\ In(s, "authorized") => In(s, "authorized")' \/ s \in Registered' \/ Ending(s)'
    /\ In(s, "marked") => In(s, "marked")' \/ Confirmed(s)' \/ Ending(s)'
    /\ Ending(s) => Ending(s)' \/ s \notin LiveSessions'

\* A drive moves on only by a handler that is then about to pair or confirm it.
MovedOn(s) ==
    \/ session'[s].status \in {"ended", "created", session[s].status}
    \/ session'[s].status = "negotiating" /\ In(s, "authorized")'
    \/ session[s].status = "negotiating" /\ session'[s].status = "active" /\ In(s, "marked")'

\* A job of a session ends it.
LEMMA JobEnds ==
    ASSUME NEW s, NEW d, [end |-> s, off |-> d] \in jobs'
    PROVE  Ending(s)'
<1>1. [end |-> s, off |-> d].end = s
    OBVIOUS
<1>2. QED
    BY <1>1 DEF Ending

\* Sockets and statements of the device side, and the ends decided on: whatever
\* leaves the registry has a job.
LEMMA RegistryHands ==
    ASSUME NEW s \in Sessions, UNCHANGED bsock, jobs \subseteq jobs',
           reg'[s] = reg[s] \/ Ending(s)'
    PROVE  Handed(s)
BY DEF Handed, Confirmed, In, Ending, Registered

\* One browser connection's handler goes on.
LEMMA BrowserHands ==
    ASSUME NEW s \in Sessions, NEW k \in BrowserSockets, jobs \subseteq jobs',
           \A j \in BrowserSockets \ {k} : bsock'[j] = bsock[j],
           \/ bsock'[k].sid = bsock[k].sid /\ bsock'[k].phase = bsock[k].phase
           \/ bsock[k].sid # s
           \/ bsock[k].phase \notin {"authorized", "marked"}
           \/ bsock[k].phase = "authorized" /\ (s \in Registered' \/ Ending(s)')
           \/ bsock[k].phase = "marked" /\ (Confirmed(s)' \/ Ending(s)'),
           s \in Registered => s \in Registered' \/ Ending(s)',
           Confirmed(s) => Confirmed(s)' \/ Ending(s)'
    PROVE  Handed(s)
BY DEF Handed, In, Ending

LEMMA DeviceSocketHands ==
    ASSUME GatewayTypes, NEW s \in Sessions, DeviceSocketStep
    PROVE  Handed(s)
<1>1. CASE UNCHANGED <<bsock, reg, jobs>>
    BY <1>1, RegistryHands
<1>2. ASSUME NEW k \in DeviceSockets, DeviceClosed(k)
      PROVE  Handed(s)
  <2>1. CASE UNCHANGED <<reg, jobs>>
    BY <1>2, <2>1, RegistryHands DEF DeviceClosed
  <2>2. CASE /\ reg' = Unregistered(OnDevice(k))
             /\ jobs' = jobs \cup
                    (IF OnDevice(k) = {} THEN {OffJob(dsock[k].dev)}
                     ELSE {[end |-> t, off |-> dsock[k].dev] : t \in OnDevice(k)})
    <3>1. s \in OnDevice(k) => Ending(s)'
      <4>1. s \in OnDevice(k) => [end |-> s, off |-> dsock[k].dev] \in jobs'
        BY <2>2
      <4>2. QED
        BY <4>1, JobEnds
    <3>2. QED
      BY <1>2, <2>2, <3>1, RegistryHands DEF Unregistered, DeviceClosed
  <2>3. QED
    BY <1>2, <2>1, <2>2 DEF DeviceClosed
<1>3. ASSUME NEW k \in DeviceSockets, NEW t \in Sessions, DeviceEnds(k, t)
      PROVE  Handed(s)
  <2>1. t = s => Ending(s)'
    BY <1>3, JobEnds DEF DeviceEnds, EndJob
  <2>2. QED
    BY <1>3, <2>1, RegistryHands DEF DeviceEnds, Unregistered
<1>4. QED
    BY <1>1, <1>2, <1>3
    DEF DeviceSocketStep, DeviceConnects, StoreAuthenticates, AttachDevice, DeviceDrops,
        DeviceHeartbeat, memory

LEMMA BrowserSocketHands ==
    ASSUME GatewayTypes, NEW s \in Sessions, BrowserSocketStep
    PROVE  Handed(s)
<1>0. /\ bsock \in [BrowserSockets -> BrowserConnections]
      /\ reg \in [Sessions -> Drives \cup {None}] /\ None \notin Drives
    BY SocketsAssumption DEF GatewayTypes, BrowserSocketTypes, MapTypes
\* The handlers that let go of no session and leave the registry alone.
<1>1. ASSUME NEW k \in BrowserSockets,
             \/ \E t \in Sessions : BrowserConnects(k, t)
             \/ StoreAuthorizes(k) \/ StoreRejects(k) \/ BrowserConfirms(k)
             \/ StoreMarksActive(k) \/ StoreRefusesActive(k)
      PROVE  Handed(s)
  <2>1. /\ bsock[k].phase \notin {"authorized", "marked"}
        /\ \A j \in BrowserSockets \ {k} : bsock'[j] = bsock[j]
        /\ UNCHANGED <<reg, jobs>>
    BY <1>0, <1>1
    DEF BrowserConnects, StoreAuthorizes, StoreRejects, BrowserConfirms, StoreMarksActive, StoreRefusesActive
  <2>2. QED
    BY <2>1, BrowserHands DEF Registered, Confirmed
<1>2. ASSUME NEW k \in BrowserSockets, BrowserDrops(k)
      PROVE  Handed(s)
    BY <1>0, <1>2, ClosingTypes, BrowserHands DEF BrowserDrops, Registered, Confirmed
<1>3. ASSUME NEW k \in BrowserSockets, AttachBrowser(k)
      PROVE  Handed(s)
  <2>1. bsock[k].phase = "authorized" /\ \A j \in BrowserSockets \ {k} : bsock'[j] = bsock[j]
    BY <1>0, <1>3 DEF AttachBrowser
  <2>2. CASE /\ bsock[k].sid \notin Registered /\ UNCHANGED jobs
             /\ reg' = [reg EXCEPT ![bsock[k].sid] =
                   [car |-> bsock[k].car, connected |-> FALSE, ttl |-> bsock[k].ttl, age |-> 0]]
    <3>1. \A t \in Sessions : t # bsock[k].sid => reg'[t] = reg[t]
      BY <1>0, <2>2
    <3>2. bsock[k].sid = s => s \in Registered'
      <4>1. [car |-> bsock[k].car, connected |-> FALSE, ttl |-> bsock[k].ttl, age |-> 0] \in Drives
        BY <1>0, <2>1 DEF Drives, BrowserConnections, GatewayTypes, BrowserSocketTypes
      <4>2. QED
        BY <1>0, <2>2, <4>1 DEF Registered
    <3>3. QED
      BY <2>1, <2>2, <3>1, <3>2, BrowserHands DEF Registered, Confirmed
  <2>3. CASE UNCHANGED reg /\ jobs' = jobs \cup {EndJob(bsock[k].sid)}
    <3>1. bsock[k].sid = s => Ending(s)'
      BY <2>3, JobEnds DEF EndJob
    <3>2. QED
      BY <2>1, <2>3, <3>1, BrowserHands DEF Registered, Confirmed
  <2>4. QED
    BY <1>3, <2>2, <2>3 DEF AttachBrowser
<1>4. ASSUME NEW k \in BrowserSockets, MarkConnected(k)
      PROVE  Handed(s)
  <2>1. bsock[k].phase = "marked" /\ \A j \in BrowserSockets \ {k} : bsock'[j] = bsock[j]
    BY <1>0, <1>4 DEF MarkConnected
  <2>2. CASE /\ bsock[k].sid \in Registered /\ UNCHANGED jobs
             /\ reg' = [reg EXCEPT ![bsock[k].sid].connected = TRUE]
    <3>1. \A t \in Sessions : t # bsock[k].sid => reg'[t] = reg[t]
      BY <1>0, <2>2
    <3>2. bsock[k].sid = s => Confirmed(s)'
      <4>1. \A r \in Drives : [r EXCEPT !.connected = TRUE] \in Drives
                              /\ [r EXCEPT !.connected = TRUE].connected
        BY DEF Drives
      <4>2. bsock[k].sid = s => reg'[s] = [reg[s] EXCEPT !.connected = TRUE] /\ reg[s] \in Drives
        BY <1>0, <2>2 DEF Registered
      <4>3. QED
        BY <1>0, <4>1, <4>2 DEF Registered, Confirmed
    <3>3. QED
      BY <2>1, <2>2, <3>1, <3>2, BrowserHands DEF Registered, Confirmed
  <2>3. CASE UNCHANGED reg /\ jobs' = jobs \cup {EndJob(bsock[k].sid)}
    <3>1. bsock[k].sid = s => Ending(s)'
      BY <2>3, JobEnds DEF EndJob
    <3>2. QED
      BY <2>1, <2>3, <3>1, BrowserHands DEF Registered, Confirmed
  <2>4. QED
    BY <1>4, <2>2, <2>3 DEF MarkConnected
<1>5. ASSUME NEW k \in BrowserSockets, BrowserEnds(k)
      PROVE  Handed(s)
  <2>1. bsock[k].sid = s => Ending(s)'
    BY <1>5, JobEnds DEF BrowserEnds, EndJob
  <2>2. QED
    BY <1>5, <2>1, RegistryHands DEF BrowserEnds, Unregistered
\* A close handler leaves a handler that awaits the store where it is.
<1>6. ASSUME NEW k \in BrowserSockets, BrowserClosed(k)
      PROVE  Handed(s)
  <2>1. /\ \A j \in BrowserSockets \ {k} : bsock'[j] = bsock[j]
        /\ bsock[k].phase # "browser" =>
              bsock'[k].sid = bsock[k].sid /\ bsock'[k].phase = bsock[k].phase
        /\ jobs \subseteq jobs'
    BY <1>0, <1>6 DEF BrowserClosed, BrowserConnections
  <2>2. reg'[s] = reg[s] \/ Ending(s)'
    BY <1>6, JobEnds DEF BrowserClosed, Unregistered, EndJob
  <2>3. QED
    BY <2>1, <2>2, BrowserHands DEF Registered, Confirmed
<1>7. QED
    BY <1>1, <1>2, <1>3, <1>4, <1>5, <1>6 DEF BrowserSocketStep

LEMMA SweepHands ==
    ASSUME GatewayTypes, NEW s \in Sessions, SweepStep
    PROVE  Handed(s)
<1>1. CASE RegistrySweep
  <2>1. s \in Overdue => Ending(s)'
    BY <1>1, JobEnds DEF RegistrySweep, EndJob
  <2>2. QED
    BY <1>1, <2>1, RegistryHands DEF RegistrySweep, Unregistered
<1>2. CASE DatabaseSweep \/ \E d \in Devices : PresenceSweep(d) \/ StatementGoesOn(d)
    BY <1>2, RegistryHands DEF DatabaseSweep, PresenceSweep, StatementGoesOn, memory
\* The statement has ended the session, or found it ended.
<1>3. ASSUME NEW j \in jobs, RunEndJob(j)
      PROVE  Handed(s)
  <2>1. jobs \ {j} \subseteq jobs' /\ UNCHANGED <<bsock, reg>>
    BY <1>3 DEF RunEndJob, EndDone
  <2>2. j.end = s => s \notin LiveSessions'
    BY <1>3 DEF RunEndJob, EndDriveSession, EndSessions, LiveSessions, NoSession, tables
  <2>3. QED
    BY <2>1, <2>2 DEF Handed, Confirmed, In, Ending, Registered
<1>4. ASSUME NEW j \in jobs, RunOffJob(j)
      PROVE  Handed(s)
  <2>1. jobs' = jobs \ {j} /\ j.end # s /\ UNCHANGED <<bsock, reg>>
    BY <1>4, TablesAssumption DEF RunOffJob
  <2>2. QED
    BY <2>1 DEF Handed, Confirmed, In, Ending, Registered
<1>5. QED
    BY <1>1, <1>2, <1>3, <1>4 DEF SweepStep

LEMMA StepHands ==
    ASSUME GatewayTypes, NEW s \in Sessions, [SteadyNext]_gvars
    PROVE  Handed(s)
<1>1. CASE GTick
  <2>1. ASSUME NEW k \in BrowserSockets
        PROVE  bsock'[k].sid = bsock[k].sid /\ bsock'[k].phase = bsock[k].phase
    <3>1. /\ bsock'[k] = [bsock[k] EXCEPT !.ttl = Dec(bsock[k].ttl)]
          /\ bsock[k] \in BrowserConnections
      BY <1>1 DEF GTick, GatewayTypes, BrowserSocketTypes
    <3>2. QED
      BY <3>1 DEF BrowserConnections
  <2>2. s \in Registered => s \in Registered' /\ reg'[s].connected = reg[s].connected
    <3>1. ASSUME s \in Registered
          PROVE  s \in Registered' /\ reg'[s].connected = reg[s].connected
      <4>1. reg[s] \in Drives
        BY <3>1 DEF Registered, GatewayTypes, MapTypes
      <4>2. reg'[s] = [reg[s] EXCEPT !.ttl = Dec(reg[s].ttl),
                                     !.age = IncTo(reg[s].age, DRIVE_CONNECTION_TIMEOUT)]
        BY <1>1, <3>1 DEF GTick, Registered
      <4>3. Dec(reg[s].ttl) \in Nat /\ IncTo(reg[s].age, DRIVE_CONNECTION_TIMEOUT) \in Nat
        BY <4>1, TablesAssumption DEF Drives, Dec, IncTo
      <4>4. reg'[s] \in Drives /\ reg'[s].connected = reg[s].connected
        BY <4>1, <4>2, <4>3 DEF Drives
      <4>5. QED
        BY <4>4, SocketsAssumption DEF Registered
    <3>2. QED
      BY <3>1
  <2>3. QED
    BY <1>1, <2>1, <2>2 DEF GTick, Handed, Confirmed, In, Ending
<1>2. CASE UNCHANGED gvars \/ \E u \in Users, c \in Cars, t \in Sessions : WebCreates(u, c, t)
    BY <1>2, RegistryHands DEF gvars, memory, WebCreates
<1>3. QED
    BY <1>1, <1>2, DeviceSocketHands, BrowserSocketHands, SweepHands DEF SteadyNext

LEMMA StepMovesOn ==
    ASSUME GatewayTypes, NEW s \in Sessions, [SteadyNext]_gvars
    PROVE  MovedOn(s)
<1>0. session \in [Sessions -> SessionRow \cup {NoSession}] /\ bsock \in [BrowserSockets -> BrowserConnections]
    BY DEF GatewayTypes, TablesTypeOK, BrowserSocketTypes
<1>1. CASE session' = session
    BY <1>1 DEF MovedOn
<1>2. ASSUME NEW k \in BrowserSockets, StoreAuthorizes(k)
      PROVE  MovedOn(s)
  <2> DEFINE t == bsock[k].sid
  <2>1. t \in Sessions /\ session[t] \in SessionRow
    BY <1>0, <1>2 DEF StoreAuthorizes, AuthorizeDriveSession, GatewayTypes, BrowserSocketTypes, NoSession
  <2>2. session' = [session EXCEPT ![t] = [session[t] EXCEPT !.status = "negotiating", !.idle = 0]]
    BY <1>2 DEF StoreAuthorizes, AuthorizeDriveSession
  <2>3. [session[t] EXCEPT !.status = "negotiating", !.idle = 0].status = "negotiating"
    BY <2>1 DEF SessionRow
  <2>4. bsock'[k].sid = t /\ bsock'[k].phase = "authorized"
    BY <1>0, <1>2 DEF StoreAuthorizes, BrowserConnections
  <2> HIDE DEF t
  <2>5. t = s => session'[s].status = "negotiating" /\ In(s, "authorized")'
    BY <1>0, <2>1, <2>2, <2>3, <2>4 DEF In
  <2>6. t # s => session'[s] = session[s]
    BY <1>0, <2>2
  <2>7. QED
    BY <2>5, <2>6 DEF MovedOn
<1>3. ASSUME NEW k \in BrowserSockets, StoreMarksActive(k)
      PROVE  MovedOn(s)
  <2> DEFINE t == bsock[k].sid
  <2>1. t \in Sessions /\ session[t] \in SessionRow /\ session[t].status = "negotiating"
    BY <1>0, <1>3
    DEF StoreMarksActive, MarkDriveSessionActive, Activatable, GatewayTypes, BrowserSocketTypes, NoSession
  <2>2. session' = [session EXCEPT ![t] = [session[t] EXCEPT !.status = "active", !.idle = 0]]
    BY <1>3 DEF StoreMarksActive, MarkDriveSessionActive
  <2>3. [session[t] EXCEPT !.status = "active", !.idle = 0].status = "active"
    BY <2>1 DEF SessionRow
  <2>4. bsock'[k].sid = t /\ bsock'[k].phase = "marked"
    BY <1>0, <1>3 DEF StoreMarksActive, BrowserConnections
  <2> HIDE DEF t
  <2>5. t = s => session'[s].status = "active" /\ session[s].status = "negotiating" /\ In(s, "marked")'
    BY <1>0, <2>1, <2>2, <2>3, <2>4 DEF In
  <2>6. t # s => session'[s] = session[s]
    BY <1>0, <2>2
  <2>7. QED
    BY <2>5, <2>6 DEF MovedOn
<1>4. ASSUME NEW ss, EndSessions(ss)
      PROVE  MovedOn(s)
    BY <1>4 DEF EndSessions, NoSession, MovedOn
<1>5. ASSUME NEW u \in Users, NEW c \in Cars, NEW t \in Sessions, WebCreates(u, c, t)
      PROVE  MovedOn(s)
    BY <1>0, <1>5 DEF WebCreates, CreateSession, MovedOn
<1>6. CASE GTick
    BY <1>6, TickKeeps DEF GTick, GatewayTypes, MovedOn
<1>7. CASE DeviceSocketStep
    BY <1>1, <1>7
    DEF DeviceSocketStep, DeviceConnects, StoreAuthenticates, AuthenticateDevice, AttachDevice, DeviceDrops,
        DeviceClosed, DeviceHeartbeat, RecordHeartbeat, DeviceEnds, tables
<1>8. CASE BrowserSocketStep
    BY <1>1, <1>2, <1>3, <1>8
    DEF BrowserSocketStep, BrowserConnects, StoreRejects, AttachBrowser, BrowserConfirms, StoreRefusesActive,
        MarkConnected, BrowserEnds, BrowserDrops, BrowserClosed, tables
<1>9. CASE SweepStep
    BY <1>1, <1>4, <1>9
    DEF SweepStep, PresenceSweep, StatementGoesOn, SetDevicePresence, SetCarPresence, MarkCarOffline,
        RegistrySweep, DatabaseSweep, ExpireDriveSessions, RunEndJob, EndDriveSession, RunOffJob,
        MarkDeviceOffline, tables
<1>10. QED
    BY <1>1, <1>5, <1>6, <1>7, <1>8, <1>9 DEF SteadyNext, gvars, tables

LEMMA AccountedStep ==
    ASSUME GatewayTypes, NoLeakedDrive, ActiveIsConnected, [SteadyNext]_gvars
    PROVE  NoLeakedDrive' /\ ActiveIsConnected'
<1>1. ASSUME NEW s \in LiveSessions', session'[s].status # "created"
      PROVE  s \in Registered' \/ In(s, "authorized")' \/ Ending(s)'
  <2>1. s \in Sessions /\ Handed(s) /\ MovedOn(s) /\ session'[s].status # "ended"
    BY <1>1, StepHands, StepMovesOn DEF LiveSessions
  <2>2. CASE In(s, "authorized")'
    BY <2>2
  <2>3. CASE ~In(s, "authorized")'
    <3>1. s \in LiveSessions /\ session[s].status # "created"
      BY <1>1, <2>1, <2>3 DEF MovedOn, LiveSessions
    <3>2. QED
      BY <1>1, <2>1, <3>1 DEF Handed, NoLeakedDrive
  <2>4. QED
    BY <2>2, <2>3
<1>2. ASSUME NEW s \in LiveSessions', session'[s].status = "active"
      PROVE  Confirmed(s)' \/ In(s, "marked")' \/ Ending(s)'
  <2>1. s \in Sessions /\ Handed(s) /\ MovedOn(s)
    BY <1>2, StepHands, StepMovesOn DEF LiveSessions
  <2>2. CASE In(s, "marked")'
    BY <2>2
  <2>3. CASE ~In(s, "marked")'
    <3>1. s \in LiveSessions /\ session[s].status = "active"
      BY <1>2, <2>1, <2>3 DEF MovedOn, LiveSessions
    <3>2. Confirmed(s) \/ In(s, "marked") \/ Ending(s)
      BY <3>1 DEF ActiveIsConnected, Confirmed
    <3>3. QED
      BY <1>2, <2>1, <3>2 DEF Handed
  <2>4. QED
    BY <2>2, <2>3
<1>3. QED
    BY <1>1, <1>2 DEF NoLeakedDrive, ActiveIsConnected, Confirmed

LEMMA AccountedHolds == SteadySpec => [](NoLeakedDrive /\ ActiveIsConnected)
<1>1. GInit => GatewayTypes /\ NoLeakedDrive /\ ActiveIsConnected
  <2>1. GInit => LiveSessions = {}
    BY DEF GInit, TablesInit, LiveSessions, NoSession
  <2>2. QED
    BY <2>1, GatewayTypesInit DEF NoLeakedDrive, ActiveIsConnected
<1>2. [SteadyNext]_gvars => [GNext]_gvars
    BY DEF GNext
<1>3. (GatewayTypes /\ NoLeakedDrive /\ ActiveIsConnected) /\ [SteadyNext]_gvars
        => (GatewayTypes /\ NoLeakedDrive /\ ActiveIsConnected)'
    BY <1>2, GatewayTypesStep, AccountedStep
<1>4. QED
    BY <1>1, <1>3, PTL DEF SteadySpec

\* While the process runs and the database answers, no order of closes, tickets,
\* confirmations, sweeps and awaits leaves a drive whose row nobody will end, for
\* any number of browsers and cars (authorizeDriveSession, attachBrowser, the close
\* handlers, endDriveSession).
THEOREM NoLeakedDriveHolds == SteadySpec => []NoLeakedDrive
BY AccountedHolds, PTL

\* No active row is one whose browser the registry takes for unconnected, unless the
\* handler that confirms it, or one that ends it, is still to run
\* (markDriveSessionActive, markConnected, sweep).
THEOREM ActiveIsConnectedHolds == SteadySpec => []ActiveIsConnected
BY AccountedHolds, PTL
=============================================================================
