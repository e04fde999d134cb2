# Verification of RC Mania

RC Mania lets people drive real radio-controlled cars from a browser. This
directory holds TLA+ models of the repository, the TLC configurations that check
them, and TLAPS proofs of the results that matter most. The core is *who drives
which car, and when the car is free again*: the live queue, the sessions' tables and
the gateway. Around it are the driver's page, accounts and profile, payments and
ledger, the simulated rides, the edge service, spectators and the agent's updates.

## 1. The system

| Component | Code | State | Operations |
|---|---|---|---|
| Live queue | `apps/web/app/live-queue-store.ts`, `use-live-queue.ts`, `/api/queue` | `queue_entries` rows (status, joined_at, expires_at) | join, poll (read), leave; every transaction advances the queue |
| Session creation | `apps/web/app/drive-session-store.ts` | `drive_sessions` rows, the accepted queue row, `cars.state` | accept an offer: `create` |
| Gateway store | `apps/gateway/src/postgres-store.ts` | `drive_sessions`, `cars`, `devices`, credentials, update jobs | authorize, mark active, end, expire; device authentication, heartbeat, presence, offline |
| Gateway process | `apps/gateway/src/server.ts`, `sessions.ts`, `presence.ts` | sockets, `devices`, `SessionRegistry`, sweep timers | device and browser connections, pairing, relays, closes, sweeps |
| Device updates | `device-update-store.ts`, gateway store and server | `device_update_jobs`, the agent's version | request, offer, claim, status, settle at authentication |
| Viewer presence and client | `viewer-presence.ts`, `viewer-socket-client.ts`, `use-viewer-count.ts` | spectators' sockets, the count shown | attach, detach, ping, broadcast; connect, reconnect |
| Browser drive client | `real-ride-screen.tsx`, `ride-session-client.ts`, `ride-connection-attempt.ts`, `control-loop.ts`, `ride-video-safety.ts`, `adaptive-video.ts`, `keyboard-drive-model.ts` | one attempt: socket, peer, data channels, armed flag, video watchdog, keys | connect, arm, disarm, send, fail, close; profile requests |
| Trim and audio preferences | `steering-trim*.ts`, `ride-audio-preferences.ts`, their routes and stores | slider, revision, timers; one row each | slide, save, load, retry |
| Accounts | `apps/web/auth/*`, `account-dialog.tsx` | users, credentials, identities, one-time links, sessions | register, verify, resend, sign in, reset, delete |
| Profile | `profile-dialog.tsx`, `/api/account/profile`, `/api/account/delete` | the row of `nicknames`, the rate limit, the dialog | load, save, delete, close |
| Payments | `apps/api/src/billing`, `apps/worker` | `stripe_events`, job queue, wallet lots, ledger entries | receive webhook, process job |
| Domain package, simulation API | `packages/domain`, `apps/api/src/simulation` | rides, fair queue, ledger, in memory | offer, accept, negotiate, end, debit |
| Edge service | `apps/edge` | operator stop, last sequence, SQLite outbox | activate, apply, stop, append |

How they interact. A browser polls `/api/queue` every 2 s; the first N waiting
drivers are *offered* one of the N available cars for 15 s. Accepting an offer
creates a `drive_sessions` row and reserves the car. The browser then opens a
WebSocket to the gateway with a ticket for that row; the gateway authorizes it in
the database, pairs it in memory with the car's device connection, and relays
WebRTC signalling. When the browser reports its connection, row and registry are
marked connected; from then on commands and video go between page and car
directly. The drive ends when a side says so, a socket closes, a 20 s connection
deadline or the 5 minute drive deadline is swept. The web tier and the gateway share
nothing but the database: the car's and device's rows are what the queue reads to
know which cars are available. Spectators and update offers use the gateway's sockets
too; Stripe's webhook and the worker share a job queue in Redis and the database.

What is hard here:

- the two tiers write the same rows with different transaction disciplines: the
  web tier holds one advisory lock, the gateway mostly auto-commits single
  statements, so that a guard can be stale when its row is written;
- every gateway handler awaits the database, and the socket's own close handler,
  sweeps and other sockets run in between;
- the same drive is recorded in the database and in memory, each with its own
  timeouts and sweeps;
- processes may stop at any point, and only the database and Redis survive it;
- queue rows, offers and sessions run out at deadlines that several readers
  evaluate at different moments;
- the page hears of its peer, its channels, its video, its window and the driver's
  fingers in any order, and has to keep the car still whenever one is missing;
- saves of the page carry revisions because answers overtake one another and a request
  that timed out may still be carried out;
- account requests are answered before their work is done, and several of them read
  a row and write it later.

`PROJECT.json` lists the hazards one by one at their lines.

## 2. The modules

    CarLending          what the tables promise: cars are lent to invited users
        ^ implements
    LiveQueue  ------->  DriveTables  <-------  Gateway
        ^     extends     sessions, cars, devices    extends
    QueueProgress, AdvanceLoop

    KeyboardControl  <--  DriveClient, KeyboardDrive         (MCDriveClient)
    Profile                                                  (MCDriveClient)
    Accounts                                                 (MCAccounts)
    RideAudio  SteeringTrim  AdaptiveVideo  Viewers          (MCServices)
    Payments  Ledger  RideService  Edge  DeviceUpdates       (MCServices)

The proofs are in `DriveTablesProofs`, `LiveQueueProofs`, `AdvanceLoopProofs`,
`GatewayProofs`, `DriveClientProofs` (with KeyboardDrive), `AccountsProofs` (with Profile),
`RidePageProofs` (SteeringTrim, Viewers, RideAudio) and `ServicesProofs` (AdaptiveVideo,
RideService, Payments, Ledger, Edge, DeviceUpdates). The MC modules give the constants
values.

### The core

**DriveTables** has the rows (`session`, `car`, `device`) and one action for each
transaction or auto-committed statement on them. `authenticateDevice`,
`authorizeDriveSession`, `markDriveSessionActive`, `endDriveSession` and
`expireDriveSessions` are transactions, hence one action. `PresenceRegistry.heartbeat`
is a run of statements: `RecordHeartbeat` (last_seen_at), `SetDevicePresence` (the
device row, and the evaluation of the `not exists (live session)` guard of the
car's update), `SetCarPresence` (the write). The last two are separate because
under READ COMMITTED the sub-select keeps the snapshot of its statement while
the update waits for the car's row; `beat` holds the heartbeat in between.
`markDeviceOffline` is two statements, with `falling` in between. `RowFree`
says that a row another statement already waits for is not overtaken.

**LiveQueue** adds `queue_entries`: the latest row of each user (`row`), the order
of the live rows (`ahead`, so that joins in one instant may be ordered either
way by the random id, as `order by joined_at, id` does), and `link`, the
session created from a row (`drive_sessions.queue_entry_id`). Each transaction
takes `pg_advisory_xact_lock`, so each is one action; only `create` is split
(`CreateBegin`, then `CreateRefused`, `CreateLapsed` or `CreateGranted`), because it
waits for the car's and the device's row with `for update` and reads the clock
again afterwards. `accepting` is the holder of the lock. `endDriveSession` and
`expireDriveSessions` also release the queue row (`Released`).

**AdvanceLoop** is `advanceLiveQueue` as the loop of the code, a turn a step (`Visit`, of
the first row that is left), and the same once more on what it left (`Rerun`).
LiveQueue uses a closed form of it, `Advanced`, which is easier to read and to prove
about; this module shows that both agree.

**QueueProgress** restricts LiveQueue to a fleet that stays healthy and one driver
who polls in time, for the liveness of waiting.

**CarLending** is the abstract specification: users are invited, an invited user is
lent a free car, cars are taken back, every car comes back. LiveQueue implements it
with the refinement mapping `Lending` (holder: the user of the car's live session;
invited: the users whose offer has time left, so that a creation which waited for
a row past the deadline has nobody to lend to).

**Gateway** is the process. A connection is a record: what its handler is at
(`phase`) and whether its socket is open, closing, or has run its close handler
(`wire`). A handler is one action up to an `await` and one after it; the close
handler can run in between, since Node delivers the event whenever the handler
is suspended. `current`, `attached` and `reg` are the `devices` map of `server.ts`
and the two maps of `SessionRegistry`. `jobs` are statements decided on and not run yet
(`endDriveSession`, then `markDeviceOffline`). `Restart` empties all of it and
keeps the tables. `WebCreates` is `CreateSession`; which driver gets it is LiveQueue's
business.

Time in the core: deadlines are counted down in ticks, ages are counted up to the
largest value a query can tell apart. A tick may happen at any moment (in safety
runs), so the relation of a deadline to every step in between is covered; durations
of 1 or 2 ticks suffice to have "not yet", "exactly at" and "past" for each.

Abstractions of the core:

- Row ids: `Sessions` is a pool of ids; an ended row returns its id. The gateway may
  still remember an ended session, so there (`WebCreates`) an id returns only once
  the process has forgotten it.
- One heartbeat of a device is under way at a time (they come every 5 s).
- `joinOrRefresh` is one action although it reads the cars twice: a gateway statement
  between the two reads has the same effect as a gateway statement between this
  transaction and another that only advances the queue (a `Leave` of a user who is
  not queued).
- The clock a statement compares with is read when the statement is sent; the model
  reads it when the statement runs. `create` is split where the code itself cares, and
  `MarkConnected` leaves open whether a timeout that has passed was seen, since
  `server.ts` reads the clock before it awaits the database.
- `SetDevicePresence` is three statements up to the point where the third has evaluated
  its guard: the device's update, the read of `admin_blocked`, the guard. The write of the
  car's row, which may come much later, is a step of its own.
- `DeviceDrops` and `BrowserDrops` stand for everything that closes a socket from
  outside the handlers modelled: network loss, ping and authentication timeouts,
  a malformed message, a relayed message for a session that has ended.
- `admin_blocked` is a constant, since no code writes it. One user authenticates a
  browser socket with one ticket, once.

### The driver's browser

**DriveClient** is the page: `attempt` is the stage of `RideConnectionAttempt`, `loop`
`BrowserControlLoop` (armed, in which direction), `told` and `sent` what the reliable
channel and the last command of the fast one said, `video` the element and
`RideVideoSafety`, `held` the fingers, `pressed` and `touch` what the page takes for them.
One action is one event's handler with every call it makes, since JavaScript runs one
at a time. `Retry` merges the click, the effect's clean-up and its re-run, which React
commits without another event of these in between. The pad lets go in the step that
disarms it. Touch is full throttle; tilt steering is left out.

**KeyboardControl** has the axis and the intent the keys give, shared with
**KeyboardDrive**: `KeyboardDriveModel`'s ramps. Every key change and every sample reads
the clock, which does not go back (`performance.now`). Durations are scaled down, the
order between them kept; positions are compared as fractions (cross-multiplied).

**AdaptiveVideo** is `AdaptiveVideoPolicy` against the car: evidence is counted in
samples, a request may be acknowledged in or after its window, the connection has gaps.
The channel keeps its order; the car applies requests one at a time and may drop one that a
later one supersedes (`docs/adaptive-low-bandwidth.md`: "with only the latest pending
request").

**Profile** is the dialog and its three requests, each step by step at the server:
session lookup (which creates a missing row of nicknames), rate limit, statement. A
request the dialog aborted goes on; so does one of another tab. Nickname and avatar
are one value, messages are left out, identical requests are merged.

**SteeringTrim** and **RideAudio** are the two savers: a slider whose saves overtake one
another and are told apart by a revision of the page, and preferences whose row carries
the revision, edited in two tabs over requests that fail and still arrive. A save is one
step at the server in both: the select of the session with the update of the car's trim
(`SaveTrim`), and the update of the preferences with the read that follows when it met
another revision (`SaveRow`). Nothing said of them depends on what runs in between.

### Services

**Accounts** is one mail address: its accounts over time, credential, Google identity,
links and sessions. Work after the response is in `jobs`. A transaction is one step
where its row locks make it so; `registerPendingAccount` (`joining`), Google sign-in
(`visit`) and password sign-in (`signIn`) are split where they read without a lock. The
lookups by identity and by address are one step; used and expired link rows are
dropped; at most one job of a kind waits; a refusal by a rate limit is no step; a link
may expire at any time after its mail left.

**Viewers** is `ViewerPresence`, the ping sweep and the page's socket client. A cut
connection looks open to the gateway until a ping is not answered; the answer to a
ping comes before the next (`Pong`, the network is faster than 45 s unless cut).

**Payments**: the webhook inserts the event, enqueues, answers; either process may crash
between any two steps, a job whose lock ran out goes back to the queue while its run
lives on, and the second time is failed (BullMQ's defaults; `Stalled` is marked as such).
The transaction of the worker is one step: it locks the event. `credits` counts ledger
entries; two things keep it at one, the event's status and the unique keys of the inserts
(`InsertedOnce`).
Stripe's retries are `Deliver`.

**Ledger** is `TimeLedger`: the list of entries is kept as the sums that its filters
take of it, `debitFifo` as its beginning and the turns of its loop (`TakeFrom`), between
which nothing else runs, since it never awaits. Of the entries `append`
takes besides the debits, those that name no lot are there; a negative one that names a
lot is not, and no caller makes one. **RideService** is `SimulationService` over
`FairRideQueue` and `RideOrchestrator`. **Edge** is `EdgeSafetyGate` and `EdgeOutbox`, with
restarts that forget the first and keep the second, and appends that throw after the gate
has acted. Its requests are those of the declared body types: `rideId` is a string.
`main.ts` does not validate that, and right after a restart a null `rideId` would equal the
null `activeRide` of the gate (`safety.ts:44`), outside what the model and its theorem
cover.

**DeviceUpdates** is the job's row from the admin's request to its verdict. The request
locks the device's row, hence one step; the offer is split at its await; reports land in
any order, because each message has a handler and a pooled statement of its own. The
agent is external and does what the protocol lets it do. Drives of the car are there as
far as the request and the offer look at them.

## 3. The runs

| Run | Instance | What it shows |
|---|---|---|
| `queue` | 2 users, 1 car, 2 sessions, calm devices, fair | the queue against the drives: types, `OneDrive`, `OffersAtTheFront`, `DriverNotQueued`, `AcceptedRowHasDrive`, `ConnectedCarNotFreed`, `OfferNotExtended`, `OfferWithdrawnForCapacity`, `OffersMatchCapacity`, and the refinement `LendsCars` with its liveness |
| `queue_progress` | 3 users, 1 car, healthy fleet | `QueueOrder`, `PlacesKept`, `WaitingGetsOffer` |
| `advance_loop` | every queue of up to 4 rows, 0 to 3 available cars | `AdvancedIsTheLoop`, `AdvanceSettles` |
| `gateway_drives` | 2 sessions, 2 connections of each kind, at most 3 at once | `NoLeakedDrive`, `ActiveIsConnected`, `PairedWithDevice` |
| `gateway_restart` | 1 session, 1 connection of each kind, crashes and failing statements | `RegistryForgets`, `DisconnectedGoesOffline` |
| `drive_client` | one page with 3 keys; five keys over 7 instants; one profile with 3 requests | `ControlsSafe`, `NoStuckKey`, `AttemptSettles`, `FrozenStops`; `HeldKeysSteady`; `ChosenNameGone` |
| `services` | nine services, below | `AudioSavedIsStored`, `AudioEditSettles`, `TrimStaysPut`, `PolicyKnowsCamera`, `CountAnnounced`, `ViewerComesBack`, `NeverOvercharged`, `AcceptedIsPaidOnce`, `DrivenIsCharged`, `StopHolds`, `VerdictStands` |
| `accounts` | 1 account, 2 links of a kind, 1 session, 1 loss | `LinksFitCredential`, `ResetSignsOut`, `RegistrantGetsIn` |
| `tables_heartbeat` | 1 car, 1 session | violation of `HeartbeatFreesNoCar` |
| `gateway_offline` | as `gateway_restart`, without crashes | violation of `DisconnectedIsOffline` |
| `ota_during_drive` | the updates of `services` alone | violation of `OfferedOutsideDrives` |
| `account_deletion` | 2 accounts of the address, 1 session | violation of `DeletedKeepsNothing` |

Components that share no state need no product of their states. `MCServices` and
`MCDriveClient` are harnesses: a variable `part`, fixed in the initial state, names the
component that moves while the others rest, so that a run checks each component on
behaviours of its own and the number of states is the sum, not the product. A
component's invariants hold trivially where it rests; each of them is about the
behaviours in which `part` names it, and a mutant of that component breaks it there.

Why these bounds are enough.

- *Core.* Every conflict in the tables is between two sessions of one car or one driver,
  so two sessions and two users cover the pairs; three users are needed for an order to
  be non-transitive. `Calm` keeps at most one device statement under way, with healthy
  heartbeats; the statements of the web tier overlap it freely. What two cars add (a
  driver with two cars, two offers at once) is covered by the theorems, for every number
  of cars. A gateway race has at most a handler that awaits, the close of its socket and
  one more connection, hence three connections at once; `FewInFlight` keeps at most two
  statements under way there, and `gateway_restart` goes without that limit.
- *Page.* `W` and `S` cancel each other and `A` is on the other axis; the freeze takes 2
  ticks without a frame (1 s in the code). Ramps: a turn of 2 or 3 instants, a run-up of 2, and 7
  instants give each ramp time to be begun, disturbed and finished.
- *Profile.* One name besides the generated one, one change a minute, and 3 requests at
  once: a save, a deletion and a lookup.
- *Services.* Two tabs with two edits and one lost request; 3 slides, so that the first
  save may return after the third; 3 camera profiles, with windows of 1 or 2 samples (the
  order of the windows is the code's); 2 spectators for 2 places and 2 breaks; 2 events,
  one of a user without a wallet, 2 attempts, 2 deliveries and 2 crashes; 3 lots that
  expire at different times, 2 debits and one compensation without a lot; 3 queue entries of the
  simulation, which outlive two offers; 2 rides, sequence numbers 0 to 2 and 2 outbox
  rows, with appends that may fail; 3 releases of which 2 fit, 2 jobs, 2 reports, 1 drive.
- *Accounts.* Properties are about one account and its links; `account_deletion` has a
  second account of the same address, since deletion frees it. One loss is one lost mail
  or one restart of the server.

Symmetry is used in runs without liveness only; users, sessions and sockets are
interchangeable. Deadlock is checked where the clock can always tick (the core); the page
may be closed, an account deleted, and the services' counters are bounded, so
`drive_client`, `accounts` and `services` stop legally.

## 4. Fairness

- `WF(Tick)`: time passes. `WF(RegistrySweep)`, `WF(DatabaseSweep)`, `WF(PresenceSweep)`,
  `WF(QExpireDriveSessions)`: `setInterval(..., 5_000)` in `server.ts`.
- `WF(SetCarPresence)`, `WF(StatementGoesOn)`: PostgreSQL grants a row to a waiting
  statement.
- `SF` of running a pending statement in `GSpec`: a restart loses what is pending, so
  weak fairness would promise nothing; the assumption is that a process restarted
  again and again still gets a statement through at times. A single statement may
  fail (`FailEndJob`).
- `SF(Read(Patient))` and the timed clock in QueueProgress: the advisory lock is
  granted in turn, the browser polls every 2 s against a lease of 60 s, a device
  reports every 5 s against a freshness of 15 s.
- `ClientFairness`: the attempt's timeout and the video watchdog's interval fire.
- `AudioFairness`: the save's timer fires; a request is carried out or fails; an answer
  that came is handled.
- `ViewersFairness`: the ping sweep runs; sockets that were closed say so; the page's
  timers fire; the network delivers.
- `AccountsFairness`: weak for what the server does by itself (scheduled work, mail);
  strong for the person, who opens the dialog and goes on trying: between two tries
  the dialog may be closed or busy. Nothing forces a mail to arrive (`LOSSES`).
- Nothing is assumed of other browsers, devices, drivers, Stripe or the agent.

## 5. Mutants

A definition named `Mutant...` stands before the definition it could replace, and is
a bug a maintainer could write: an index condition without the driver, a guard read
from unexpired rows only, a sweep that forgets its statement, an answer taken without
its revision, a failed job removed instead of kept. `PROJECT.json` pairs each with a
property, which TLC finds violated when the mutant takes the definition's place. No
specification uses them.

## 6. Proofs

TLC's instances are small; the theorems hold for any value of the constants: any
number of users, cars and devices, any assignment of devices to cars (several per car
included), any durations, events, attempts, rides and names. They assume only what each
module's `...Assumption` says: users and cars are finitely many, devices belong to cars,
durations are positive, `None` is no id and no registry entry, sequence numbers and attempts are naturals.

- `TablesTypesHold`: the columns keep their declared values.
- `OneDriveHolds`: no two live sessions share a car or a driver. Inductive together
  with the types: only `CreateSession` could break it, and its guard `Held` counts the
  expired rows as the unique indexes do.
- `ConnectedCarStaysTaken`: the car of a session past "created" does not read AVAILABLE.
  That is not inductive: a heartbeat that passed its guard before the session
  existed may still have to write the row. The strengthening `ConnectedInv` adds that
  no such heartbeat is left once the browser has been authorized, which holds because
  `authorizeDriveSession` has to get the same row and row locks are granted in turn.
  The case of ending a session uses `OneDrive`: the car that falls back is no other
  live session's.
- `TypesHold`, `DriverNotQueuedHolds`, `AcceptedRowHasDriveHolds`: the conjunction of the
  three invariants (`QueueInv`) is inductive. The argument splits the steps three
  ways. A queue transaction creates no session, and each row either keeps its link and
  whether it is accepted (`KeptRow`; `AdvancedRow` shows that of `advanceLiveQueue`) or is a
  new row of a user that does not drive (`NewRow`). A granted creation links the row to an
  id without a live session, and `AcceptedRowHasDrive` itself says that nobody else's link
  leads there. A step of the gateway or the clock ends sessions together with the rows
  linked to them, or changes no status (`QuietKeeps`).
- `ImplementsTables`: every step of the queue is a step of the tables or leaves them
  alone. `OneDriveHolds` and `ConnectedCarStaysTaken` therefore hold of the queue too, which
  is how the run `queue` checks those two properties.
- `QueueOrderHolds`, `OffersAtTheFrontHolds`: `OrderInv` adds the two to `QueueInv`. An
  inserted row keeps the order strict because the rows it may precede are a suffix
  (`BehindOrdered`). The offers are at the front after every advance, whatever they were
  before it: the order is transitive, so the rows that count against one row also count
  against every row behind it (`EligibleBefore`, by the cardinality of subsets), and an
  advance offers to every eligible row that stays (`AdvancedOffer`). `QueueInv` is needed
  where the gateway ends a drive: the row it releases was accepted, hence no live row.
- `GatewayImplementsTables`: every step of the gateway, the failing statements and the
  restarts included, is a step of the tables or leaves them alone, so that
  `OneDriveHolds` and `ConnectedCarStaysTaken` hold whatever its sockets do. It needs the
  types of the process's memory (`GatewayTypes`): a handler acts on the car and session
  its socket was authenticated for.
- `PairedWithDeviceHolds`: the pairing of drives with cars and of cars with connections is
  inductive once `KnownByDevice` is added: the connection that the devices map names for a
  device is that device's, or one whose close handler has already run. Without it a
  device that reconnects could be taken for another's. It relies on a connection being
  new when it is made, which is why `DeviceConnects` takes none from the pool that the
  map still names.
- `AcceptedIsPaidOnceHolds`: `PaymentInv` says, of each event, that its job was made before
  Stripe was told (`MadeOnce`), that the credit and the mark come together and whoever is
  past the commit left a processed event (`Committed`), and that a job is active exactly
  while a run holds its lock (`Held`). The part that is easy to forget is that a run
  which lost its lock still has an event to work on: without it a stalled run could mark
  an event nobody inserted. One lemma per process keeps it.
- `StopHoldsAlways`: `GateInv` compares what the gate remembers with its history. After a restart it remembers nothing, but then no ride is active and every command
  is refused; as long as one is, a stop made is a stop remembered and every accepted
  sequence is at most the last.
- `ChosenNameGoneHolds`: inductive as it stands, because only `updateOwnProfile` writes a
  chosen name and it looks at the account in the same statement; the requests that were
  under way when the account went may put the row back, with a generated name.

- `PlacesKeptHolds`: `PlaceInv` adds to `OrderInv` that the rows joined in this instant are
  the last ones and still have time (`TiedLast`): only among them can a row that is
  inserted go before another. A step of the queue is then a transaction that
  advances rows in a kept order (`Deal`) or drops rows and brings deadlines nearer (`Quiet`).
- `OfferNotExtendedHolds`, `OfferWithdrawnForCapacityHolds`: from the same split. A `Deal`
  renews waiting rows only. It takes an offer back only from a row with as many
  rows counting against it as there are cars; these are before it, hence hold offers too
  (`OffersAtTheFront`), so that with its own more offers stood than cars are left.
- `OffersMatchCapacityHolds`: after an advance, a row has an offer iff it has fewer live
  rows before it than there are cars (`AdvancedCapacity`). The live rows before an
  eligible row are among those that counted against it, since every lapsed offer before
  it is gone; the rows that counted against any other have all stayed.
- `PatientQueueIsOrdered`: the steps of QueueProgress are steps of the queue, hence
  `QueueOrder` and `PlacesKept` hold of `PatientSpec` too, which is what `queue_progress` runs.
- `AdvancedSettles`: `Advanced` is idempotent. A row that the first advance lets stay
  keeps exactly the rows that counted against it, so its eligibility is the same, and its
  deadline is not over.
- `AdvancedIsTheLoopHolds`, `AdvanceSettlesHolds`: `LoopInv` says that the rows the loop has
  left to come to are closed under "behind", that those it has been to are as `Advanced` has
  them, and that `entries.length` counts the ones that stayed. The step needs that
  the row it comes to has exactly the visited ones before it, and that it is eligible by
  the number kept iff it is by the rows that count (`FirstLeft`), which is where
  `EligibleBefore` comes in: if a lapsed row before it was kept, no row behind is eligible.
  The second theorem follows from `AdvancedSettles`.
- `LendsSafely`: the safety half of the refinement to `CarLending`. Each step maps to
  `Invite`, `Lend`, `TakeBack` and so on, or to a stutter; `LendingInv` adds to `QueueInv` and
  `OneDrive` that the row of the driver whose creation waits for row locks is still offered
  (whether in time is what the creation itself looks at again), and that `Holder` is the user of the only live session of the car.
- `NoLeakedDriveHolds`, `ActiveIsConnectedHolds` (of `SteadySpec`, where the database
  answers): inductive once split into what a step lets go of and what takes it over. A
  session leaves the registry only for a job that ends it, a handler that awaits hands
  it to the registry or to such a job, a job is gone only when the row has ended (`Handed`);
  and a row moves on only by a handler that is then about to pair or to confirm it
  (`MovedOn`). The pairing facts above exclude that a handler finds another drive's entry.
- `ControlsSafeHolds`, `NoStuckKeyHolds`: `ClientInv`. Armed is told by an open channel
  (`ArmedTold`) and asked for only where it may be (`RequestSafe`); that in turn rests on the
  watchdog publishing a frame as soon as it is recent (`FreshPublished`) and on a
  page that no longer listens having closed it (`ListensToDrive`). `KeysHeld` says what the
  page takes for held is held, `InputMeant` that the input is that of those keys or the pad.
- `HeldKeysSteadyHolds`: `RampInv` bounds the beginnings of ramps by the present and
  gives a beginning of its own to a held reverse only; the output is compared in
  its cross-multiplied form, products of times being left to the SMT solver.
- `LinksFitCredentialHolds`, `ResetSignsOutHolds`: `AccountsInv`. A registration that is about
  to join an account holds one that the cleanup spares, because it has the Google
  identity, or that was deleted meanwhile (`JoinsAnAccount`); what a sign-in has read is
  the present password or has been overtaken by a reset (`SignInRead`), and so on for
  the sessions. `Spares` is what every other step does for both.
- `TrimStaysPutHolds`: `TrimInv` says that there is one save per move, none of the last move
  while the timer runs, and that a save carries the value of its move.
- `CountAnnouncedHolds`: inductive with the sockets' types; `broadcastPresence` runs at
  each change of the count, and the steps that only break a connection leave the count alone.
- `AudioSavedIsStoredHolds`: `AudioInv`, tab by tab: a page knows no revision the row has not
  had, what it has given up was made from a revision it knew, and what is under way
  carries what it shows unless that is dirty. A save given up can only be carried out if
  the row still is at its base, which a page that says saved has gone past.
- `PolicyKnowsCameraHolds`: `VideoInv`. The channels keep their order, hence the last answer
  tells what the camera runs, and the request that is open is the last one made; the
  car never drops that one.
- `DrivenIsChargedHolds`: `RideInv`: the first entry of the queue stays accepted once there
  is a ride, so its offer is taken once; the transition to COMPLETED is marked in the
  ride's keys as it happens, never before.
- `VerdictStandsHolds`: `UpdateInv` and `Ruled`: each handler changes only a job that is still
  open, and only the comparison with the running version says that one succeeded.
- `NeverOverchargedHolds`: `LedgerInv`: while a debit is half way, what it has still to take
  and what it has taken make up what was asked. The balance that lets it in plays no
  part, which is why it may be too large without harm to this.

The constants are as free as that in these too. `RideAudio` assumes that the writer of the
row's first version (`Before`) is none of the tabs, `Ledger` that no entry is of zero
seconds (`append` refuses one).

Left to TLC: liveness (the second half of `LendsCars`, `WaitingGetsOffer`, `RegistryForgets`,
`DisconnectedGoesOffline`, `AttemptSettles`, `FrozenStops`, `AudioEditSettles`,
`ViewerComesBack`, `RegistrantGetsIn`), which is out of the prover's reach, and the four
violations, which are counterexamples. Every safety property of the passing runs is
proved.

## 7. Findings

- `tables_heartbeat`: the store's test says "does not let a heartbeat free a car before
  its session is explicitly ended"
  (`apps/gateway/src/postgres-store.test.ts:67`). It can, between the session's creation
  and the browser's arrival: the heartbeat's guard is evaluated before the wait for
  the row that `create` has locked. The queue counts sessions too, so that the car is not
  offered; `cars.state` is wrong until the browser is authorized.
- `gateway_offline`: "WebSocket disconnect or heartbeat older than 15 seconds: `OFFLINE`"
  (`docs/superpowers/specs/2026-08-13-real-car-enrollment-webrtc-design.md:123`). A
  heartbeat under way at the disconnect puts the device back to AVAILABLE; the
  sweep finds it up to 15 s later (`DisconnectedGoesOffline`). Until then the queue offers
  a car that no driver can reach.
- `ota_during_drive`: "Gateway offers an update only while the car has no active drive
  session" (`docs/superpowers/specs/2026-08-21-signed-pi-agent-ota-design.md:111`).
  `offerPendingUpdate` looks at the registry and then awaits `claimPendingUpdate`; a browser
  that attaches in between has its drive when the offer is sent. The agent refuses it.
- `account_deletion`: the deletion "removes password credentials, verification/reset
  tokens, and OAuth identities"
  (`docs/superpowers/specs/2026-08-24-account-profile-privacy-design.md:135`). A registration
  that has found a Google account adds its password after the deletion; a Google
  sign-in that has found a password account adds its identity.

Not findings, since nothing promises otherwise, but worth knowing: the profile form can be
edited while the profile still loads and is then overwritten; a session lookup that had
found the user before a deletion puts a row of nicknames back, with a generated name; a flush of the
audio preferences drops the timer that would have loaded them; a failed debit
(`debitFifo`) keeps the entries it appended before it threw.

## 8. Not modelled, and why

- *Relayed signals and telemetry* (`sessions.ts`, `relayFrom...`). A late signal of an ended
  session closes the socket it came on, which `DeviceDrops` and `BrowserDrops` allow at any
  time; what the signals say is WebRTC's. A module of the exchange itself is the next one
  to write.
- *Enrolment, credentials, battery columns, registration of releases*: single inserts and
  updates whose races are those of a unique index.
- *Tilt steering, statistics sampling, route detection, the touch pad's analogue throttle*:
  geometry and browser measurements.
- *The dead-letter copy of a failed job*: sent and not waited for, read by nobody.
- *`carTransitions`, the outbox's `acknowledge` and `pending`*: used by tests only.
- *Schemas, parsing, configuration and cryptography* (`packages/contracts`, `packages/config`,
  `packages/device-auth`); *operational pages* (read-only queries); *presentation, static
  pages, deployment files*; the Pi agent, which is not in the repository.

Worth proving next: that the seconds of a ledger are conserved (what its rides were charged
is what its lots lost), and that a lot pays only once those that expire sooner are empty.
