----------------------------- MODULE QueueProgress -----------------------------
(***************************************************************************)
(* Does a driver who waits get a car?  The live queue with one driver who  *)
(* waits patiently and a fleet that stays healthy; the other drivers do as *)
(* they please.                                                            *)
(*                                                                         *)
(* The assumptions on time are those the clients are built to: the browser *)
(* polls every 2 s, well within the lease of 60 s, and a device reports    *)
(* well within the freshness of 15 s.  So the clock does not move while    *)
(* the driver's lease or a device's heartbeat is in its last tick.         *)
(***************************************************************************)
EXTENDS LiveQueue

CONSTANT Patient

ASSUME ProgressAssumption == Patient \in Users /\ QUEUE_LEASE > 1 /\ DEVICE_FRESHNESS > 1

Waiting(u) == row[u].status = "waiting"

TimelyTick ==
    /\ Waiting(Patient) => row[Patient].ttl > 1
    /\ \A d \in Devices : device[d].age < DEVICE_FRESHNESS - 1
    /\ QTick

HealthyStep(d) ==
    /\ UNCHANGED queueVars
    /\ RecordHeartbeat(d, TRUE) \/ SetDevicePresence(d) \/ SetCarPresence(d)

\* The patient driver does not leave, and no device restarts or goes offline.
PatientNext ==
    \/ \E u \in Users : Join(u) \/ Read(u) \/ (u # Patient /\ Leave(u))
    \/ \E u \in Users, c \in Cars : CreateBegin(u, c)
    \/ CreateRefused \/ CreateLapsed
    \/ \E s \in Sessions :
        \/ CreateGranted(s)
        \/ UNCHANGED queueVars /\ (AuthorizeDriveSession(s) \/ MarkDriveSessionActive(s))
        \/ QEndDriveSession(s)
    \/ QExpireDriveSessions
    \/ \E d \in Devices : HealthyStep(d)
    \/ TimelyTick

\* A web transaction runs to its end; the advisory lock is granted in turn, so
\* a poll that is asked for again and again gets it (strong fairness).
PatientFairness ==
    /\ WF_vars(TimelyTick) /\ WF_vars(QExpireDriveSessions)
    /\ \A d \in Devices : WF_vars(HealthyStep(d))
    /\ WF_vars(CreateRefused \/ CreateLapsed \/ \E s \in Sessions : CreateGranted(s))
    /\ SF_vars(Read(Patient))

PatientSpec == Init /\ [][PatientNext]_vars /\ PatientFairness

\* A driver who waits and polls is offered a car in the end, whoever else joins,
\* leaves, misses offers or drives meanwhile.
WaitingGetsOffer == Waiting(Patient) ~> row[Patient].status = "offered"
=============================================================================
