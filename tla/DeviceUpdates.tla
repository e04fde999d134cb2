----------------------------- MODULE DeviceUpdates -----------------------------
(***************************************************************************)
(* Over-the-air updates of one car's agent: the admin's request (web), the   *)
(* job's row, the gateway that offers it to the connected agent and records  *)
(* what the agent reports, and the agent itself as the gateway's code and    *)
(* protocol see it.  Drives of the car come and go meanwhile.                *)
(***************************************************************************)
EXTENDS Naturals, Sequences, FiniteSets

CONSTANTS
    Versions,   \* registered releases of the agent
    Fitting,    \* those of the runtime generation the agent reports
    JOBS,       \* bound: update jobs
    REPORTS,    \* bound: status messages on their way
    DRIVES      \* bound: drive sessions

ASSUME UpdateAssumption == Fitting \subseteq Versions /\ {JOBS, REPORTS, DRIVES} \subseteq Nat

VARIABLES
    jobs,       \* device_update_jobs, oldest first
    drive,      \* the car's drive session: none, created, or attached to the gateway
    drives,
    agent,      \* the version that runs, the job it works on, whether it connects anew
    offering,   \* offerPendingUpdate between its check and claimPendingUpdate: no; on the
                \* device's connection; on one that has gone
    reports     \* device.update.status messages the gateway has not handled yet

updateVars == <<jobs, drive, drives, agent, offering, reports>>

-----------------------------------------------------------------------------
NoUpdate == 0
Open == {"pending", "downloading", "applying"}
NewUpdate(v) == [target |-> v, status |-> "pending"]

\* requestDeviceUpdate, one transaction under the device's row lock.  It does not
\* lock the car: a drive may be created as soon as it has looked.
RequestUpdate(v) ==
    /\ Len(jobs) < JOBS
    /\ drive = "none" /\ \A i \in DOMAIN jobs : jobs[i].status \notin Open
    /\ jobs' = Append(jobs, NewUpdate(v))
    /\ UNCHANGED <<drive, drives, agent, offering, reports>>

\* create: it does not look at the update jobs.
CreateDrive ==
    /\ drive = "none" /\ drives < DRIVES
    /\ drive' = "created" /\ drives' = drives + 1
    /\ UNCHANGED <<jobs, agent, offering, reports>>

\* attachBrowser: needs the device's connection.
AttachDrive ==
    /\ drive = "created" /\ agent.connected
    /\ drive' = "attached"
    /\ UNCHANGED <<jobs, drives, agent, offering, reports>>

\* Left, expired, swept.
EndDrive ==
    /\ drive # "none" /\ drive' = "none"
    /\ UNCHANGED <<jobs, drives, agent, offering, reports>>

-----------------------------------------------------------------------------
(* The gateway.                                                             *)

\* authenticateDevice: the version that connects settles a job being applied.
Authenticate ==
    /\ ~agent.connected
    /\ agent' = [agent EXCEPT !.connected = TRUE]
    /\ jobs' = [i \in DOMAIN jobs |->
                IF jobs[i].status # "applying" THEN jobs[i]
                ELSE [jobs[i] EXCEPT !.status = IF jobs[i].target = agent.version
                                                THEN "succeeded" ELSE "failed"]]
    /\ UNCHANGED <<drive, drives, offering, reports>>

\* offerPendingUpdate, after the authentication and after every heartbeat:
\* hasActiveCar is the gateway's registry, not the drive sessions' table.
OfferStart ==
    /\ agent.connected /\ offering = "no" /\ drive # "attached"
    /\ offering' = "live"
    /\ UNCHANGED <<jobs, drive, drives, agent, reports>>

\* claimPendingUpdate, and the offer if its socket still takes it (sent).
Claimable == {i \in DOMAIN jobs : jobs[i].status = "pending" /\ jobs[i].target \in Fitting}
Claim(sent) ==
    /\ offering # "no" /\ offering' = "no"
    /\ sent => offering = "live"
    /\ jobs' = [i \in DOMAIN jobs |->
                IF i \in Claimable THEN [jobs[i] EXCEPT !.status = "downloading"] ELSE jobs[i]]
    /\ agent' = IF sent THEN [agent EXCEPT !.offered = @ \cup Claimable] ELSE agent
    /\ UNCHANGED <<drive, drives, reports>>

\* The device's connection is closed: messages for the agent on it are lost, its
\* reports on it are still handled.
ConnectionGone(a, left) ==
    /\ agent' = [a EXCEPT !.connected = FALSE, !.offered = {}]
    /\ offering' = IF offering = "no" THEN "no" ELSE "gone"
    /\ reports' = {[r EXCEPT !.old = TRUE] : r \in left}

\* recordUpdateStatus: the statuses a report may follow.  Every message has a
\* handler of its own and a statement on any connection of the pool, so reports
\* land in any order; one that does not fit closes the socket it came on.
MutantFollows(status) == Open \cup {"failed"}
Follows(status) == IF status = "failed" THEN {"downloading", "applying"} ELSE {"downloading"}
RecordStatus(r) ==
    /\ LET fits == jobs[r.job].status \in Follows(r.status)
       IN  /\ jobs' = IF fits THEN [jobs EXCEPT ![r.job].status = r.status] ELSE jobs
           /\ IF fits \/ r.old THEN reports' = reports \ {r} /\ UNCHANGED <<agent, offering>>
              ELSE ConnectionGone(agent, reports \ {r})
    /\ UNCHANGED <<drive, drives>>

-----------------------------------------------------------------------------
(* The agent (external): it takes one offer at a time, reports, installs and *)
(* restarts; its connection may break at any time.                           *)

Report(i, status) ==
    /\ agent.connected /\ Cardinality(reports) < REPORTS
    /\ reports' = reports \cup {[job |-> i, status |-> status, old |-> FALSE]}

TakeOffer(i) ==
    /\ i \in agent.offered /\ Report(i, IF agent.job = NoUpdate THEN "downloading" ELSE "failed")
    /\ agent' = [agent EXCEPT !.offered = @ \ {i}, !.job = IF @ = NoUpdate THEN i ELSE @]
    /\ UNCHANGED <<jobs, drive, drives, offering>>

\* The artifact is refused, or ready to be applied.
Fetched(status) ==
    /\ agent.job # NoUpdate /\ ~agent.ready /\ Report(agent.job, status)
    /\ agent' = [agent EXCEPT !.job = IF status = "failed" THEN NoUpdate ELSE @, !.ready = status = "applying"]
    /\ UNCHANGED <<jobs, drive, drives, offering>>

\* The restart that installs, and the one that falls back to the version before.
Install(v) ==
    /\ agent.ready /\ v \in {agent.version, jobs[agent.job].target}
    /\ ConnectionGone([agent EXCEPT !.version = v, !.job = NoUpdate, !.ready = FALSE], reports)
    /\ UNCHANGED <<jobs, drive, drives>>

Disconnect ==
    /\ agent.connected /\ ConnectionGone(agent, reports)
    /\ UNCHANGED <<jobs, drive, drives>>

UpdatesInit ==
    /\ jobs = <<>> /\ drive = "none" /\ drives = 0 /\ offering = "no" /\ reports = {}
    /\ \E v \in Versions :
        agent = [version |-> v, job |-> NoUpdate, ready |-> FALSE, offered |-> {}, connected |-> FALSE]
UpdatesNext ==
    \/ CreateDrive \/ AttachDrive \/ EndDrive \/ Authenticate \/ OfferStart \/ Disconnect
    \/ \E r \in reports : RecordStatus(r)
    \/ \E v \in Versions : RequestUpdate(v) \/ Install(v)
    \/ \E sent \in BOOLEAN : Claim(sent)
    \/ \E i \in DOMAIN jobs : TakeOffer(i)
    \/ \E status \in {"applying", "failed"} : Fetched(status)

-----------------------------------------------------------------------------
\* The verdict on an update is given once: reports that arrive after it, from
\* a connection replaced in between, change nothing, and success is only said of
\* a device that runs the target (recordUpdateStatus, authenticateDevice).
VerdictStands ==
    [][\A i \in DOMAIN jobs : jobs'[i] # jobs[i] =>
        /\ jobs[i].status \in Open
        /\ jobs'[i].status = "succeeded" => agent.version = jobs[i].target]_updateVars

\* "Gateway offers an update only while the car has no active drive session"
\* (docs/superpowers/specs/2026-08-21-signed-pi-agent-ota-design.md:111).
OfferedOutsideDrives ==
    [][\A i \in DOMAIN jobs : jobs'[i] # jobs[i] /\ jobs'[i].status = "downloading"
                              /\ jobs[i].status = "pending" => drive # "attached"]_updateVars
=============================================================================
