# Home-AI-Core: a TLA+ verification project

This directory holds TLA+ models of Home-AI-Core, the TLC configurations that
check them and proofs that TLAPS checks.  It is kept beside the code: every
definition that models code is mapped to the lines it stands for in
`PROJECT.json`, together with the runs, the mutants that show each property can
fail, the hazards the properties are aimed at, and the theorems.

    tlc -workers 2 -config JobEngine.cfg MCJobEngine.tla
    tlapm JobEngineProofs.tla

## 1. The system

Home-AI-Core is a Go service (`cmd/home-ai-core`, unprivileged) with an HTTP API,
a React web interface and a SQLite store, and a second process,
`cmd/home-ai-core-updater` (the *helper*, root), that does everything privileged -
Docker, disks, Samba, network, updates of Core - on request over a Unix socket.
A Windows client uses the same API.  Both processes can die at any time; the
store, the containers and the files on disk survive.

### 1.1 Inventory

| component | state it keeps | operations | interacts with | what is hard | what makes it correct |
|---|---|---|---|---|---|
| **Job engine** `internal/jobs`, `internal/state/jobs.go` | jobs table; `active` cancel functions; wake channel | Submit, Cancel, Clear, worker loop, progress, recovery, stop | API (submits, cancels), event log, handlers | two workers, cancellations at any moment, a crash between claim and outcome, ignored write errors, lost wake-ups | a job has one worker and one outcome; a handler is not replayed; every job ends |
| **Event log and streams** `internal/events`, `internal/realtime`, `internal/api/event_*` | event_log; hub of clients; per connection channel, topics, session | Publish, subscribe, deliver, drop, close, history page | everything publishes; web and Windows clients consume | delivery from a snapshot, full channels, revoked sessions, reconnect | a stream has no silent gap or duplicate; publishers never wait; catch-up is complete |
| **Module admission** `internal/api/module_runtime.go`, `frigate_ui.go`, `frigate_catalog.go` | `moduleSubmitMu`; the jobs table | submit, list, forward Frigate's writes, confirm an image | browsers, job engine, registry | three queries over jobs that move; a tag that moves after the confirmation | one module job at a time; only an approved image gets installed |
| **Module planner and catalogue** `internal/modules/planner.go`, `internal/api/module_catalog.go` | none (pure); cached catalogue | PlanInstall, ValidateManifest, load | registry | dependency graphs, version ranges, three sources that may fail | a plan can be carried out, and is found when there is one; nobody is offered less than is published |
| **Module registry** `internal/modules/registry.go`, `internal/state/modules.go` | modules table; `mu` | InstallManifest, UpgradeManifest, Control, Remove | job handlers call it, it calls the helper | a saga over two processes: cancellation, crash, refused write at any step | the row tells what Docker runs; a version that works is never lost |
| **Docker module helper** `docker_module_ops.go`, `docker_module_upgrade.go` | containers and their names; `moduleOperationMu` | install, start, stop, restart, remove, upgrade, commit, rollback | Docker CLI | every command can fail, with or without its effect; the caller may leave | two containers never share one data directory |
| **Frigate** `frigate_module.go`, `frigate_recovery.go`, `internal/frigate` | journal, copy of the configuration, containers | install, control, upgrade, commit, rollback, recover | helper | the candidate migrates the shared configuration; death at any step | old code never runs on migrated data; the registered version can be restored |
| **Home Assistant** `docker_homeassistant*.go` | a directory per container, `active.json` | install, control, upgrade, commit, rollback | helper | no journal: the names of containers are the state | as for Frigate |
| **AI GPU assignment** `docker_ai_gpu_*.go` | container and its devices, cached image | prepare, apply, undo | helper | one `/data` for old and new | one agent on the data, some agent stays |
| **Recorder (NVR)** `docker_module_storage.go` | data directory or link, disk, assignment | activate, install, control, remove | helper, storage | the disk and its assignment change at any step | no recording disappears from view |
| **Core updater** `internal/updater`, `update_ops.go` | phase; offer; prepared bundle; backup; live binary and web; result file | check, download, install, rollback, reconcile | GitHub, helper, systemd restarts Core in the middle | two processes, one of which replaces the other; assets replaced during a download; two mutexes over one phase | only one signed, newer build becomes ready; a failed update leaves the old version running; a way back remains |
| **File data service** `internal/filedata`, `internal/api/files.go` | files, upload parts and metadata, trash, quotas | create, chunk, complete, put, move, trash, restore, purge | SMB sees the same files | a death between two renames, promised space, clients of SMB in between | every visible file is whole; the last copy goes only when asked; promised space is there |
| **Security** `internal/security`, `internal/state/security.go` | users, sessions, grants, profiles, bootstrap token | bootstrap, login, passwords, disable, roles, grants | every request | hashes computed between two transactions | one founder, an administrator remains, no session outlives what it was opened with |
| **SMB sharing, user lifecycle, NAS folders and quotas** `internal/smb`, handlers in `internal/api` | grants, folders, Samba's configuration, kernel quotas | change access, folders, quotas; suspend, commit, refresh, reconcile | security, helper, kernel | two stores that must agree over failures and restarts | nothing is served that is not granted; all of it is served after a change that succeeded |
| **Storage** `internal/api/storage*.go`, `storage_ops.go` | partitions, mounts, purposes, pools | partition, format, mount, assign, make a pool | helper, kernel | names of disks move; no lock | a pool's file system stays; a purpose is the one assigned |
| **Network** `network_ops.go`, `network_profiles.go`, `ifupdown_profiles.go` | WireGuard files and interfaces, profiles of three backends | save, remove, add and remove a peer, apply | helper, kernel | goroutines without a lock; a failed command is undone | what is saved is what runs and what a boot brings up; others' stanzas are left alone |
| **Windows client library** `internal/windowsclient` | profile, copy queue, running transfer | synchronise, queue, upload with retries | file data | lost answers, chunks served late, edits in between | what is reported was there; nothing foreign is replaced; copies end |
| **State store** | SQLite | migrate, statements | all | - | one connection, each statement atomic |
| **Windows application, web interface, HTTP shell, Docker runtime, system information, identity, transport, packaging** | none that outlives a request, or written once | - | - | - | - |

`PROJECT.json` lists the same components with their files and what is left out
of each.

### 1.2 How they interact

An HTTP request that changes something long-lived submits a *job*.  A worker of
the job engine claims it and runs its handler; handlers of module jobs call the
*module registry*, which writes its row and calls the *helper* over the socket;
the helper runs Docker commands.  Every step is announced on the *event log*,
whose durable events go to SQLite first and then to the connected WebSockets.
Cancelling a job cancels the handler's context, which closes the registry's
connection to the helper, which the helper notices some time later.

## 2. Modules

| module | what it is | checked by | proved in |
|---|---|---|---|
| `JobLifecycle` | abstract: the statuses of one job row and the moves between them | `jobs`, as a property of `JobEngine` | |
| `JobEngine` | the engine, statement by statement | `jobs`, `jobs_cancel` | `JobEngineProofs` |
| `EventBus` | event log, hub, connections | `events` | `EventBusProofs` |
| `EventCatchUp` | a consumer that follows the documented reconnect flow, EXTENDS `EventBus` | `events`, `events_page`, `events_gap` | `EventBusProofs` |
| `DockerHelper` | the helper's Docker commands for one module, one step each | `modules` | `ModuleRegistryProofs` |
| `ModuleRegistry` | the registry's sagas over its row and the helper, EXTENDS `DockerHelper` | `modules`, `modules_cancel` | `ModuleRegistryProofs` |
| `CoreUpdater` | the update of Core: `updater.Service` and the helper's installation and rollback, with systemd between them | `updater` | `CoreUpdaterProofs` |
| `FileData` | uploads, moves, trash, space | `host`; through `FileSync` in `filesync` | `FileDataProofs` |
| `FileSync` | the Windows client's copies over the wire, EXTENDS `FileData` | `filesync` | `FileDataProofs` |
| `Shares` | tables of access, folders and quotas, and what Samba and the kernel make of them | `access` | `AccessProofs` |
| `Accounts` | accounts, passwords and sessions | `access` | `AccessProofs` |
| `HostNetwork` | WireGuard and interface profiles | `host` | `HostProofs` |
| `Storage` | partitions, purposes, pools | `host` | `HostProofs` |
| `DockerSaga` | what the special container operations have in common | `sagas` | `SagasProofs` |
| `FrigateUpgrade`, `HomeAssistantUpgrade`, `AIDevices`, `NVRStorage` | one operation of each, EXTENDS `DockerSaga` | `sagas` | `SagasProofs` |
| `Containers` | the four beside each other, and what they promise together | `sagas` | `SagasProofs` |
| `ModuleAdmission` | from the browser to the registry | `sagas` | `SagasProofs` |
| `ModulePlanner`, `ModuleCatalog` | plans and offers, functions of one state | `sagas` | |
| `UpdateSource` | releases, offer, download and the two verifications | `sagas` | `SagasProofs` |
| `MC*` | the instances TLC explores | | |

`MCHost`, `MCAccess` and `MCSagas` each check several modules in one run: an
extra variable chosen at first says which of them runs, and the variables of the
others stay; so does `Containers`, for the four sagas.  This is no composition, and it
claims none: those modules share no state (disjoint files, containers and tables, or
one lock over all of them).  The compositions are `FileSync` over `FileData`, `ModuleRegistry` over `DockerHelper`,
`EventCatchUp` over `EventBus`, and the four sagas over `DockerSaga`.

### 2.1 Job engine

`job[j]` is the row of job `j` in the jobs table, with the columns the
properties tell apart; `log[j]` the final events of the job in event_log;
`starts[j]` counts handler entries (a history variable).  In memory there are the
wake channel (`wake`, one slot), `Service.active` (`active`), and for each worker
its place in `worker`/`runOne` (`pc`), the job it claimed, what the handler
returned and whether its context is cancelled.  Each HTTP cancellation and each
`Submit` is a process of its own (`cpc`, `submit`).

One action is one SQL statement or transaction, or one operation on shared
memory: the store opens a single connection, so statements do not interleave
with each other, but anything may happen between two of them.  `ClaimNextJob`,
`ReadClaimed`, `Activate`, `EnterHandler`, `ReturnFromHandler`, `Deactivate`,
`ReadCurrent`, `MarkJobCancelled`/`RecordOutcome` and `EmitOutcome` follow
`runOne` from top to bottom; `RequestJobCancel`, `ReadCancelled`, `CancelHandler`
and `AnswerCancel` follow `Cancel`.  `Stop` is SIGTERM after the API has drained,
`Exit` and `Crash` lose the memory, `RecoverInterruptedJobs` is what the next
process does first.  A store call may fail (`Fault`, bounded): the engine ignores
most of these errors and so does the model.

Events that no property reads (job.queued, job.started, job.progress) are left
out; their emission is part of the neighbouring step.

### 2.2 Events

An event is its topic at its cursor in `log`.  `AppendEvent` is the insert that
assigns the cursor, `Snapshot` the copy of the client table in
`Hub.PublishEvent`, `Offer` the non-blocking send of `deliver` - or the removal
of a client whose channel is full.  A connection is greeted, registered, then
selects between its channel, its commands, the once-a-second session check and
being dropped; `Take` checks the session once more and skips what the actor may
not see; `Write` hands the event to the consumer.  `since[c][t]` and `late[c]`
are history variables: from which cursor a topic was subscribed, and how many
events were written after the session ended.  Topic patterns are abstracted to
sets of topics; heartbeats, command replies and events without a cursor are left
out.  `matches` and the send in `deliver` are one step: the lock that
`unsubscribe` takes is released in between, so an event may in the code be sent
just after its topic was left, which the properties allow.

`EventCatchUp` adds the consumer: it remembers the last cursor it processed, pages
through `/api/v1/events/history`, and opens a stream once a page is empty.

### 2.3 Modules

`row` is the module's row (image and status; a larger image number is a newer
version), `box` what Docker has under the three names a module can use.  The
helper is a program counter over the Docker commands of each operation
(`helper`); `Command(step, can, effect, ok, bad, killed)` gives a command its
three outcomes: it succeeds, it cannot succeed, or it fails - or is killed
because its context was cancelled - with or without its effect.  `linked`,
`cancelled` and `answer` are the connection: the caller may leave, the helper
notices later, and from `docker stop` on an upgrade is detached from its caller.
The registry is one program counter (`core`), because `submitModuleJob` admits
one module job at a time and `Registry.mu` one operation.

Home Assistant, Frigate, the recorder's disk and the AI GPU switch have paths of
their own in the helper (2.8).  Requests refused before anything
changes are not shown.

### 2.4 Update of Core

`state` is the phase and version in `Service.state`, `saved` what state.json has of
it, `unsaved[t]` what thread `t` has put into memory and not yet written: the write
happens outside the lock.  Three threads write: the check (`StartCheck`,
`EndCheck`, deciding by the phase it read before it asked GitHub), the operation
under `opMu` (`Download` to `Refused`) and one reader of `State`, which consumes
install-result.json (`ReadResult`, `ApplyResult`, `RemoveResult`).  Several readers
at once write the same phase; one is modelled.

The helper (`helper`) walks through `performInstall` or `performManualRollback`:
copy what is installed (`backup`, whose `label` is metadata.json; `kept`, for a
rollback), stop Core, replace the binary, move the web files `aside`, put the new
ones in place, start Core, wait for it, replace itself.  A failure before Core is
stopped ends the operation (`GiveUp`), one afterwards undoes it (`GiveBack`,
`StopAgain`, `RestoreBinary`, `RestoreWeb`).  An installation and a rollback differ
in the source of the new files (`New`) and of the undo (`Safe`).  `running` is the
version of the Core process, `live` what is installed, `wanted` whether systemd is
to keep Core running.

`mishaps` is a history variable with two purposes.  What the environment does -
either process dies, systemctl stop fails after stopping the unit, a file cannot be
written, the helper's answer is lost, a step of an undo fails - is bounded by
`MaxMishaps` kinds.  What the code does to itself is only noted: `overtaken` (a
write came after another it did not know of), `stale` (the success of an earlier
update was told - by a check, by a result left behind - while the next one was under
way), `interrupted` (Core was stopped in the middle of a request), `wreck_kept` (an
installation replaced the backup by a copy of mixed files).  Each property names the kinds it does not hold under, and
the hazards in `PROJECT.json` those that the code accepts.

### 2.5 Files and the Windows client

`FileData` is `internal/filedata` behind `internal/api/files.go`.  `fileMutationMu`
admits one mutation at a time, so `op` is one program counter; each step is one
change of the file system, between two of which Core may die, the call may fail
(`GiveUp`, or `Botch` when the undoing fails too) and clients of SMB write the
visible `tree`.  `part` and `meta` are the two files of an upload, `item` and
`origin` those of an entry in the trash: the code never changes both at once, and
what is half of one is listed by nobody.  Content is a sequence of blocks, so a
mixture of versions would show.  The folders are on one pool: `PoolAllowance` is
what `filePoolWriteAllowance` and `reservedPoolAllowance` leave of it, `CapAllowance`
what the quota of a folder, or of the user who owns it, leaves (`fileWriteAllowance`).
Administrators change quotas (`fileFolderManagement`, `fileUserQuotas`) and the
pool's `reserve` (`filePoolCapacityPolicy`), which looks at no upload: `raised` tells
that it was raised while there were some (history).

`FileSync` puts the client on top: `agent` is where `SyncOnce` or the queue's
transfer is, `wire` the request under way, `late` one that the client has given up
and Core may still serve.  A chunk is sent again after a lost answer and after an
error of the server, a full pool among them (`Retried`, `SendAgain`).  `way` is the configuration (driver, conflict policy,
`--restart-stale`), `row` the transfer as the queue's file has it, `seen` what the
target has held during the run (history), `told` what was reported.

### 2.6 Access

`Shares` has the four tables that decide who may reach a folder, and on the other
side Samba (`smbd`, `conf`), the directories and the kernel's limits.  Every
change suspends Samba, commits, and has the configuration made anew: `op` walks
through that, `waiting` are requests that passed their permission check and wait
for the mutex, `reconciling` is the retry after a start of Core
(`ReconcileFileAccess`).  A call may fail at every step, with or without effect,
Core and the helper may die and the host may reboot.  A call that Core gives up on,
because the client of the request went away or Core died, goes on in the helper (`late`)
beside whatever holds the mutex next; `astray` says that one of them has changed Samba
since the last suspension that had none beside it (history).

`Accounts` has users and sessions.  A request reads, computes a hash for a long
time, and writes: it is a program counter per client (`task`) whose steps are
transactions.  A password is a number; a session remembers the password and the
number of disablings it was opened under (history), and whether it was verified
before the last change (`late`).

### 2.7 The host

`HostNetwork` follows `network_ops.go`, `network_profiles.go` and
`ifupdown_profiles.go` command by command for each goroutine of the helper; what
wg-quick, systemctl, ifup, networkctl and nmcli do is external.  The temporary file
of a tunnel (`temp`) and that of a networkd profile (`draft`) are shared by all calls
about it; writing one is one step.  ifup leaves an interface alone that it holds to be
`up`, so an ifdown that fails, or is missing, is not made good by it: `unheeded` are
the interfaces where that happened (history).  `Storage` has the
disks' names apart from the disks, since the kernel may exchange them at a boot;
a request checks, then works in the helper (`work`), and nothing locks two of them
apart.  A request goes by the tree of devices that lsblk gave (`tree`); when its device is
not in there (`seen` is false in `Ask`: lsblk failed, or spells the path otherwise) the
check passes, the helper does its work and no row follows.  `want` is what the
administrator last said (history), `blurred` the places with overlapping requests or
with one whose device Core did not find, `doubtful` the file systems that were there or
got a pool there.

### 2.8 The special containers

`DockerSaga` gives the vocabulary: containers under their names (`box`), the
version of the data in each directory (`data`, migrated forward whenever a newer
image runs on it), the operation's step (`pc`), the registered image (`row`), and
whether a removal was asked for (`removed`, history), and
`Command`, `Check` and `Write` with their outcomes: success, failure without
effect, failure with it; Core may die (`CoreDies`) and so may the helper
(`HelperDies`) at every step.  `FrigateUpgrade` adds the verified copy of the
configuration (`backup`) and the journal (`disk`, and `mem` as the running
operation holds it); `HomeAssistantUpgrade` the committed record `active`;
`AIDevices` the cached GPU image; `NVRStorage` the path to the recordings, a
directory or a link, the `place`s with what they hold, and what Docker has
`bound`.

### 2.9 From a browser to the registry

`ModuleAdmission` has browsers' requests (`req`, a program counter), the mutex
`submitMu`, the jobs with their statuses, the published images (`upstream`) and the
registered one (`record`).  The three listing queries are three steps, and jobs go
on between them.  `ModulePlanner` and `ModuleCatalog` are functions: a state is one
input, their properties compare the result of the code's loop with an independent
definition (`Needed` and `Below` are closures, `Plannable` says when a plan should
exist).  `PlanInstall` is a walk over the graph, as in the code; it is recursive,
so nothing is proved in these modules.

### 2.10 Where updates come from

`shelf` is what is published, asset by asset: the publisher may replace an asset
of the newest version at any time (`Publishing`).  `core` is the updater's state
and the step of its download; `offer`, `offerFile` the answer of the last check in
memory and on disk, `stateFile` the saved phase, `store` the files of each
version.  Each file of the download is a step, and so are both verifications;
`HelperInstalls` is the second one, in `stageSignedUpdate`, with the installation
that `CoreUpdater` has in detail as one step.  `kept` is the helper's backup: an
installation replaces it by what runs, also one that fails later, and a rollback
(`RollBack`, `HelperRollsBack`) leads to it and leaves it there.

## 3. What the runs check

The passing runs take between one and four minutes.

| run | instance | shows |
|---|---|---|
| `jobs` | two shifts: 2 workers on an installation and an ordinary job; 1 worker on an ordinary job and one without handler, with a failed store call; 1 canceller, 1 crash | `RowConsistent`: status, timestamps, error and progress of a row agree whoever wrote last, and every variable has its type; `OneWorkerPerJob`; `FinalEventIsTrue`: the log agrees with the row; `StartedAtMostOnce`: interrupted handlers are not replayed; `ImplementsLifecycle`: refinement of `JobLifecycle`; `JobsFinish`: none starves although a wake-up is lost, and all end unless a write failed |
| `jobs_cancel` | 1 canceller | **violated**: `CancelReachesHandler` (finding 1) |
| `events` | 2 publishers, 1 consumer, 3 events of 2 topics, channel of 1, pages of 1, 2 connections; free, or following the documented flow | `StreamIsSound`: no silent gap, no repetition; `AtMostOneLate`; `ClientsAreServed`: no publisher waits for a client, dropped and expired streams close, what is queued is written |
| `events_page`, `events_gap` | 1 hidden topic; 2 publishers | **violated**: `HistoryReachesEnd`, `CatchUpComplete` (findings 2, 3) |
| `modules` | 2 images, 2 faults, 1 refused manifest, 1 hang-up, 1 death of each process | `RowTellsContainers`, `OneOwnerOfData`, `RecordedImageSurvives`, `InstallConverges` |
| `modules_cancel` | 1 hang-up | **violated**: `SwapIsSettled` (finding 4) |
| `updater` | 2 releases, 4 requests, 1 kind of mishap | `ServiceSurvives`: whichever step fails, one whole version runs, and the right one; `WayBack`: while the files are not of one version a complete copy is offered, and what then reports success has repaired them; `ReportsAreTrue`: a rollback leads where it says and success is told of the running version; `HandedOverSettles` |
| `filesync` | 4 ways to copy, files of 2 chunks, 2 tries, 1 edit, 1 lost answer or death of the client, 1 mishap of Core, 1 write by others | `CopyIsSafe`: what is reported was there, nothing foreign is replaced; `Synced`: the target becomes and stays the file; `QueueSettles` |
| `access` | shares: 2 users, 2 folders, 2 requests, 1 waiting, 1 mishap; accounts: 2 accounts, 2 sessions, 2 clients, 6 requests, 4 passwords, 1 failure | `SharesAreRight`: Samba serves grants only, and all of them after a change that succeeded; `QuotaIsEnforced`, both until a call Core gave up on changes Samba late; `FoldersAreKept`: owners keep access, directories are there, `Reconciled`; `AdministratorsDecide`; `LoginsAreSound` |
| `host` | network: 1 tunnel, 2 peers, 1 interface, 2 goroutines, 3 calls, 1 fault; storage: 3 partitions on 2 disks, 2 requests, 2 troubles, the second a boot, 1 device not found; files: 2 folders of one user, 3 paths, 4 requests, 1 mishap, 1 write over SMB | `NetworkIsAsSaved`: what was saved last runs and comes up again, except after a failure nobody looks at; `PoolSurvives`, `PurposesHold`: pools and purposes stay, except where Core did not find the device or requests overlapped; `FilesAreSound`: whole visible files, resumable sessions; `PromiseKept`: accepted uploads fit while nobody raises the reserve; `LossIsAsked` |
| `sagas` | 3 images, 3 directories, 4 requests, 2 faults, 2 deaths; admission with 2 clients and 2 jobs, or with 1 client and a tag that moves; every graph of 3 modules; every answer of the sources of the catalogue; 2 versions and 2 builds of Core, 1 upload, 1 loss | `DataFitsCode`: no image runs on data it cannot read and no recording is left behind; `OneWriterOfData`; `RegisteredKept`; `RecordsAreTrue`: journal, record and answers agree with the containers; `AdmissionIsExclusive`: one module job, no native write beside it, a complete listing; `InstalledWasApproved`; `PlansAreSound`: plans can be carried out and are found; `CatalogueIsSound`: offers are of what was published and fit the host; `UpdatesAreSound`: an offered update of Core is newer (`OfferIsNewer`), one that is ready is signed and of one build (`ReadyIsOneBuild`) |

### 3.1 Bounds, and why they are enough

*Jobs.*  Rows interact only through the claim order and the shared workers: two
jobs and two workers give every pair of interleavings, one caller gives every
placement of a cancellation (two callers on one row write the same columns).  One
crash reaches recovery from every state; the state after recovery is an initial
state with other rows.
*Events.*  Connections share nothing but the hub and the loop of a publisher, so
one consumer sees every order of offers; two publishers are needed for events to
overtake each other, three events and a channel of one for overflow in the middle
of a stream, a second connection for a stale snapshot.
*Modules.*  Operations touch one module; two images are an old and a new version;
two faults let a recovery command fail too.
*Update.*  Two releases are the running one and its successor; a rollback goes back
between them, and then the other way.  Four requests allow a download, an
installation, a rollback and a check in every overlap, or a second installation
after a failed one.  One kind of mishap, any number of times, shows which kind
breaks what.
*Copies.*  Two chunks have a beginning, a middle and an end; two tries let a retry
meet the request it repeats; one fault, one mishap and one edit meet at every
step.  Three upload ids are a
session, its replacement and one left stale.
*Access.*  One change under way and one that waits show every overlap, since the
mutex admits one; the second user may come only later.  A host where Samba is not
configured serves nothing, so it is explored from one state of the tables only.  Two clients give every
pair of overlapping requests on an account, four passwords a change against a
reset against the one before.
*Host.*  Two requests overlap in pairs and a third is made afterwards (network);
two disks can exchange their names, and the storage starts with
nothing, the first disk's first partition or the other disk mounted; one request's device
is not found, before anything has failed (`OneIsUnseen`); four file requests are two uploads that
compete for the last blocks, or an upload, a move and what comes back from the
trash.  The reserve has two values, so that it can be raised and lowered.  In `filesync` the pool is too large to fill up, so that a
chunk is sent again for a lost answer or a failed write there.
*Sagas.*  Two faults let both a command and its undoing fail, two deaths interrupt
the recovery of the first; four requests are an upgrade, its retry, its recovery
and a start or stop in between.  Admission runs with two tabs while nothing new is
published, and with one tab while tags move: the lock keeps two tabs apart whatever
is published, and the theorems of section 4 hold for all of it together.  Three images are an old one, a failed
candidate and a third.  Two builds of a version are what a replaced asset needs;
one of them may be unfit.

Most behaviours end when their requests are spent, so deadlock is checked in
`jobs`, `events` and `modules` only.

### 3.2 Fairness, and why the code justifies it

*`jobs`* (`MCFairness`): workers that can run do run, the ticker fires, handlers
return (each has timeouts of its own), a stopped process exits and recovery runs.
Nothing is assumed of callers, cancellations, crashes or faults.
*`events`* (`Fairness`): publishers and connections run; Go's `select` picks among
ready cases at random, so a case that is ready again and again is taken (strong
fairness of `Take`, `CloseSlow`, `CloseExpired`); a write to a WebSocket has a
five-second deadline, so it returns.  A consumer of the documented flow keeps
asking while it is disconnected.
*`modules`* (`RetryingSpec`): both processes run, and an administrator, or the
recovery of the job engine, retries an installation (strong fairness: an attempt
may find the helper busy any number of times).
*`updater`* (`FairSpec`): the goroutines of both processes run, the helper answers,
systemd starts a wanted Core again, and a client keeps asking for the state (strong
fairness of the reader: Core may restart between two of its steps; the web
interface polls).  Nothing is assumed of checks and downloads.
*`filesync`* (`FairSpec`): `watchSyncProfiles` goes on after a failed run, the user
runs the queue again, requests under way are served or fail, Core finishes what it
began.
*`access`* (`SharesFairness`): the holder of the mutex goes on, whoever waits for it
gets it, and Core goes on trying to reconcile, as its loop does.
`host` and `sagas` state no fairness and check no liveness.

## 4. What is proved

Every theorem is of a specification as the runs check it, for all values of its
constants that satisfy the named assumption of its module.  TLC evaluates those
assumptions in every run.  Most assumptions say no more than that bounds are numbers
and that the mark of a missing row is not a row.

| module | theorem | states |
|---|---|---|
| `JobEngineProofs` | `TypeCorrect` | `Spec => []TypeOK` |
| | `RowsConsistent` | `Spec => []RowConsistent` |
| | `ClaimsExclusive` | `Spec => []OneWorkerPerJob` |
| | `NoSecondStart` | `Spec => []StartedAtMostOnce` |
| | `FinishedRowsStay` | `Spec => TerminalIsFinal` |
| | `EventsTell` | `Spec => []FinalEventIsTrue` |
| | `Refinement` | `Spec => ImplementsLifecycle` |
| `EventBusProofs` | `StreamsAreSound` | `Spec => []StreamIsSound` |
| | `OneLateAtMost` | `Spec => []AtMostOneLate` |
| | `HistoryHasNoHole` | `FollowSpec => []PagesHaveNoHole` |
| `ModuleRegistryProofs` | `ImageIsKept` | `Spec => []RecordedImageSurvives` |
| | `DataIsExclusive` | `Spec => []OneOwnerOfData` |
| | `RowIsTold` | `Spec => []RowTellsContainers` |
| `CoreUpdaterProofs` | `ServiceIsKept` | `Spec => []ServiceSurvives` |
| | `WayBackIsKept` | `Spec => []WayBack` |
| | `ReportsAreKept` | `Spec => []ReportsAreTrue` |
| `FileDataProofs` | `FilesHold` | `Spec => []FilesAreSound` |
| | `LossesAreAsked` | `Spec => LossIsAsked` |
| | `PromisesHold` | `Spec => []PromiseKept` |
| | `CopiesAreSafe` | `SyncSpec => CopyIsSafe` |
| `AccessProofs` | `SharesKept` | `SharesSpec => []SharesInv` |
| | `SharesHold` | `SharesSpec => []SharesAreRight` |
| | `AdministratorsHold` | `SharesSpec => AdministratorsDecide` |
| | `FoldersHold` | `SharesSpec => [](OwnerKeepsFolder /\ FolderHasDirectory)` |
| | `QuotasHold` | `SharesSpec => []QuotaIsEnforced` |
| | `LoginsHold` | `AccountsSpec => LoginsAreSound` |
| `HostProofs` | `PoolsAreKept` | `StorageSpec => []PoolSurvives` |
| | `PurposesAreKept` | `StorageSpec => []PurposesHold` |
| | `NetworkIsKept` | `NetworkSpec => NetworkIsAsSaved` |
| `SagasProofs` | `OneAtATime` | `AdmissionSpec => []AdmissionIsExclusive` |
| | `OnlyApproved` | `AdmissionSpec => InstalledWasApproved` |
| | `OffersAreNewer` | `SourceSpec => []OfferIsNewer` |
| | `ReadyIsSound` | `SourceSpec => []ReadyIsOneBuild` |
| | `UpdatesSound` | `SourceSpec => []UpdatesAreSound` |
| | `RunningIsSound` | `SourceSpec => []RunningFits` |
| | `DataAlwaysFitCode` | `ContainersSpec => []DataFitsCode` |
| | `OneWriterStays` | `ContainersSpec => []OneWriterOfData` |
| | `RegisteredStays` | `ContainersSpec => []RegisteredKept` |
| | `RecordsStayTrue` | `ContainersSpec => []RecordsAreTrue` |

Each module follows the same line: the parts of an inductive invariant, lemmas
about the operators the model is built from, one lemma per action or group of
actions that changes the same things, the theorem that the invariant holds, and
the properties that follow from it.

### 4.1 Job engine

From `EngineAssumption` (installations are known jobs, `None` is no job or worker,
bounds are numbers, reported progress is at most full).  All theorems rest on one
inductive invariant, `IInv`.  Neither row consistency nor the single start is
inductive alone: whether a worker may write an outcome depends on the row still
being live, which depends on nobody else holding it, which depends on recovery
running before any claim.  `IInv` therefore adds to the two parts of `RowConsistent`:
`Owners` (a worker has a job exactly in the places where it owns one, no two the
same, none before recovery; a filed cancel function belongs to the job's worker),
`OwnedRows` (between the claim and the write of the outcome the row is running or
cancel_requested), `StartsCounted` (where a handler has been entered and where not)
and `Outcomes` (a worker that will record an outcome has one).  `StepKinds`
classifies what a step may do to a row, from which `TerminalIsFinal` and the
refinement follow.  `EventsTell` adds `EventsFit`: as long as no write failed, what
a worker is about to announce is already the status of its row, and a row that is
final stays so until it is cleared.

### 4.2 Events

From `BusAssumption` (visible topics are topics, a channel has room for one event,
"all" names no consumer).  `BusInv` has a part per client and one per publisher.
`Offers` says that no two publishers publish the same event and whom each has yet to
offer it to.  `Once` and `PassedOn` give the absence of repetitions: what is on the
stream, being written and queued are disjoint, and the publisher of each is past the
client.  `NoGap` is the promise itself with what was sent as a set, `LateOnce` what the
last check of the session still lets through.  Snapshots that publishers took of the
hub make it hard: an event may be offered to a connection that subscribed after it
was appended, or that has been closed since.  `HistoryInv` adds to these what a
consumer has got that reads pages; the cursor of the page it reads is the least
event it has not seen, or beyond all.

### 4.3 Modules

From `HelperAssumption` and `RegistryAssumption` (images are positive numbers, bounds
are numbers).  `KeepInv` first says who waits for whom: `Linked` (a linked caller
waits for exactly the request the helper works on, and the helper is done once the
caller was told so), `StepOfRequest` and `RowStays` (the row does not change under the
helper's feet).  Then where images are: `DoneIsSo` (what an "ok" has established),
`KeptHere` (the container that has the recorded image, step by step through the
swap) and `UpgradeIsSo`.  `DataIsExclusive` adds `OneRuns` (which of the three
containers may run at which step, while Docker obeys and the helper lives);
`RowIsTold` adds `Exact`, the state of the three containers at every step of an
operation that nothing has disturbed.

### 4.4 Update of Core

From `UpdaterAssumption` (releases are positive numbers, bounds are numbers).
`UpdateFits` has four groups of parts, each under the mishaps its promise survives, so
that they can be proved one after the other.  `HelperFits` and `CoreFits` hold always:
in which steps Core is stopped, who waits for the helper, which threads are gone with
the process.  `ServiceFits` says of every step of an installation or rollback which
version the binary, the web files, the files set aside and the backup are of
(`LiveFits`, `AsideFits`, `CopyFits`, `ProcessFits`); that the undo finds what it
restores depends on the copy having been complete before Core was stopped.  `WayFits`
keeps of this what a death of the helper leaves, and what an operation has made of it when
it reports success.  `SuccessFits` follows a success from
the result file through the readers, the threads about to persist, the phase and its
file: all of them tell of the binary in place (`MemoryFits`); once an operation is with the
helper the phase tells of none, and by the time the helper has stopped Core its file
does not either (`HandFits`, `SwapFits`).  The last is not always so: the attempt to prove
it showed that a result left behind by a failed removal, or a check that began earlier,
tells of the old success while the next update is under way (noted as `stale`), and that
state.json still tells of it when every write of the phase has failed since
(`outdated`).  `ReportsAreTrue` excepts both.  Lost answers, lost results and any other
failed write are not excepted.

### 4.5 Admission

From `AdmissionAssumption` (finitely many clients, `NoClient` is none of them, version
1 is a version).  Three queries one after the other over jobs that go on: `SeenEmpty`
says that a status found empty stays empty while the lock is held, because a job only
moves to later statuses and only the holder of the lock adds one; `WillFind` the
converse for a listing without the lock, that what was missed will be met by a later
query.  `Confirmed` follows the confirmed image from the dialog through the row of the
job to the registry.

### 4.6 Where updates come from

From `SourceAssumption` (versions and builds are positive numbers, build 1 exists,
every set of versions has a highest, as finite sets have).  `sagas` checks
the two parts of `UpdatesAreSound`, `OfferIsNewer` and `ReadyIsOneBuild`; `RunningFits` is only proved, because a plausible
break of it needs more losses than the bounds of the run.  None is inductive.  That what is ready is
one build depends on what each step of the download has established while every asset
could be replaced behind it: `Fetched` says, step by step, which files agree with the
hash read first.  That Core, starting again, offers only what is newer depends on what
the file says and who wrote it (`AnswersAreNewer`), that it may believe a saved "ready"
on the file being what memory was (`FileIsState`).  What runs is what the helper has
verified or what it had kept, and that is what ran before (`BuildsFit`): the backup stays
after a rollback, which is then offered from the version it leads to, and a failed
installation relabels it with what runs.  `WorkHasVersion` keeps the version an operation
was handed over with, so that the report is heeded when Core starts again.

### 4.7 Files

From `FileAssumption` (finitely many paths, uploads and entries of the trash, ids of
different things are different, `None` is no id, content or session, a version has a
block).  `FilesInv` says of the mutation under way that what it has read still holds
(`OpFits`, a part per mutation), although clients of SMB write between its steps:
they touch neither uploads nor the trash, and where they wrote is `intruded`.
`HalvesFit` counts the halves against deaths and failed clean-ups.  `LossesAreAsked`
looks at each step that can make a content vanish.  `PromisesHold` is an accounting:
`PoolUse` and `CapUse` add to what is held and what was promised the blocks that
the mutation under way has yet to write or to promise, and only an admission lets
either grow, which is where the code compares it with the pool and with the quotas of
the folder and of its owner.  A quota is not lowered below it; the reserve may be raised
over it, which breaks no promise as long as there is none (`Unpromised`), and ends the
theorem's once an upload was under way.  Its
lemmas are about cardinalities of the sets of blocks when one file, part or entry
changes.

`CopiesAreSafe` adds `SyncAssumption` (the target is a path, there is a version of the
client's own, a request is sent at least once) and rests on `FilesInv`, because Core goes
on with its own steps below the client's.  `SyncInv` says in addition that the upload the
client works on is one for the version it copies (`Belongs`, also while it is being
created), that a completion asked for by the client is of a part equal to that version
until the file is installed and has been seen at the target afterwards (`FinishFits`),
and that a request given up is still one the profile allows (`RequestFits`).  What a
chunk contains matters nowhere: the checksum is compared before the file is installed.
`Belongs` needs that an id names one upload for good.  In an earlier model a request could
be answered with the id of an upload that was gone but that the client still named, and
the proof failed there; the ids of the code are random, so Core hands out
`FreshUploads` only.  That a foreign file stays (`ForeignStaysAlways`) follows from the
rename that replaces nothing and from `Vacant`.

### 4.8 Access

From `SharesAssumption` (finitely many folders, some administrator is there at first, a
folder's owner is a user, and no user is taken for the absence of one).  `SharesInv`
says what is true while the mutex is held: `WorkFits` (whoever asked is an administrator still, though a user's role may be taken by the change that
came before), `NothingServed` (from the suspension to the new configuration Samba has
an empty one, or none where it had none), `ServedFits` (what Samba has, is about to be
given, or will be given back after a rejected test, is granted, and all that is due is
in it).  The last two end with the first step of an abandoned call that changes Samba
(`LateStepKeeps`), and begin anew where `smb.suspend` empties the configuration with
Samba stopped and no such call left (`EmptyConfigKeeps`); `SambaFits` has the types
of what such calls carry.  Users can be created beside the mutex: this adds grants, never takes one, and
what it adds is not due yet (`CreateUserKeeps`).  That one administrator remains needs
no counting: whoever asked was checked after the mutex was won and cannot take their
own role.  `FoldersHold` adds that an owner has the grant, and `DirectoriesInv`: in which
places of a creation or a deletion its folder may be without a directory, and that
the others without one are no more than the cuts.

`QuotasHold` needs `QuotasFit`: every configuration Samba has, is about to be given or
would get back after a rejected test calls a folder writable only if the tables and the
kernel, as they are now, make it safe (`Writable`), and a limit of the kernel that a row
records is that row's quota.  A configuration outlives no change of a quota, of the
kernel's limit or of an owner, because these happen while Samba has none
(`NothingServed`); a kernel limit set for a row that could not be written afterwards, or
left where another folder of the same owner failed, is seen when the next configuration
is made.  What then limits a user is a sum over the folders they own, and what can be
written is a subset of them.  That a sum of natural numbers grows with its set is an
induction over finite sets, which the library states with an operator as parameter; here
it is done without one: of the subsets for which a statement fails one is smallest
(`Smallest`, by well-foundedness of the natural numbers), and the statement holds for it
as well.  In this way the lemmas on sums show that the recursive function behind the fold
exists (`SumsExist`), has one value (`SumsAgree`), does not depend on the order of
elements (`SumOfOne`) and grows (`SumGrows`).

From `AccountsAssumption`, `AccountsInv` says of every session that was not revoked that
it was opened with the password and in the period its user has now (`SessionFits`), of
every half-done request that what it has read it still can rely on (`TaskFits`), and
that the founder is there to be seen (`Founder`).

### 4.9 Storage

From `StorageAssumption` (finitely many slots, there is a naming of the disks, names are
numbers, since the code sorts rows by path, and `Nothing` is neither a UUID nor a
purpose).  `PoolsFit` relates three readings of the same disk: what is there
(`DisksFit`), what each request has read of it under names that another boot may have
given to another disk (`WorkFits`), and what it is about to destroy (`WorkIsSafe`).  A
request's own file system has a UUID nobody else uses until the disk is changed; a
request whose target another one has meanwhile met is `blurred`, as is one whose device
was not found, and of every other the
check it made still holds when it acts.  A file system that was under a request with no
device found is `doubtful` from then on, whatever becomes of it.  `FirstSlot` - a name leads to the first slot
that bears it - is an induction over a finite set, done with the library's `WFMin` on
the set of counterexamples.

`PurposesFit` adds what the partitions are for.  The code looks a row up by the UUID of a
file system or else by a path, and a request goes by the tree of devices it read before;
a format changes the UUID and leaves the row.  What holds this together is `OneHome`:
while the disks keep their names, a UUID is borne at one path only, over the disks, the
rows and the trees that requests have read.  Hence a row is about the partition at its
path (`ResolvedByPath`), `SetStoragePurpose` replaces exactly that row and is never
refused (`SetByPath`), and the purpose that a format carries over is the one on record
(`RecordedHere`).  `SlotsHold` then says of every slot that is not blurred that its row is
the administrator's last word and a pool on it has it for files - or, between the helper's
deletion and Core's clearing of the rows, that a request is there which will clear them -
and `RequestsKnow` what each request still knows when it acts: that the partitions it
saw are there with the file systems it saw, that none it will destroy has a pool, that a
created partition it had not seen has none.  `Around` is the frame of every step: another
request on one of its slots would have blurred it.  TLC checked `PurposesFit` over all
states of the storage part of `host`, and over ten million states with four
requests on two partitions, before it was proved.

### 4.10 Network

From `NetworkAssumption` (`Absent` is no configuration, bounds are numbers).
`NetworkFits` says of every tunnel that no overlap or failed undo has marred, at which
step its one goroutine is and how file, temporary file, interface and boot service
differ there (`Midway`), and that without one they agree (`Settled`).  Of every
interface it says who will bring up what was saved last (`WillRun`): the interface runs
it, or a goroutine that is between the write and the command that loads it will find
what it needs (`Applies`).  With ifupdown it needs that the interface is down by then,
which the step before sees to unless it failed; with networkd that what it renamed was its
own, or that another save, whose file it took, fails at its own rename and leaves the
loading to it.

### 4.11 The special containers

From `SagaAssumption` (images and directories are positive numbers, image 1 and
directory 1 are among them, bounds are numbers) and `AgentAssumption` (the agent has a
CPU image and a GPU image, 1 and 2).  The four modules have an invariant each, and
`ContainersInv` is that of the part that runs.  Lemmas about the Docker commands come first:
`StartStep` to `CreateStep` say what a command leaves when it may have failed, whatever
it is part of.

`FrigateInv` is about the journal on disk, the journal in memory, which may be one write
ahead (`Follows`), the copy and the two images on one directory.  `PendingFits` is its
heart: as long as the journal is not settled, Core's registered image decides which
containers there can be (`Before`, `Amid`, `Past`), and either the copy is what the
journal says it is, or the directory itself has data the old image reads.  It holds
across a death between any two steps, because recovery surveys everything before it acts
and each of its steps leaves a state from which it can begin again, or refuses.

`HAInv` has no journal to lean on.  `CastFits` lists the casts of containers that can be
found under the three names; `DirectoriesFit` says that every container has a directory of
its own with data it can read, and that the record in active.json is of such a pair.
`UpgradeFits` and `FinishFits` place the old and the new container at each step, and
`Beside` says that the way back knows both by their directories.

`RegisteredStays` is about containers, and data, that go only when their removal was
asked for.  Frigate's and Home Assistant's invariants say which image a container under
"main" or "previous" has; `StillThere` says that there is one, as long as a module is
registered and no removal was asked for (`removed`, until the next installation).  Nearly
all steps take nothing from these two names (`Harmless`); of the others each module says
what it leaves (`FrigateStaysThere`, `HAStaysThere`, `RecorderStaysThere`).

`AIInv` has one directory for all containers; that an agent remains
(`AgentSurvives`) depends on the order of the undo, and that two never run on
counting failures (`FailuresFit`): a candidate outlives a rollback only by a second one.

`NVRInv` compares the newest recording in the three places a path can lead to.
`PathFits` says what the path is at each step, `DiskFits` that the disk has all of the
old directory once it can be reached through the link, and `SeenFits` that every
recording made outside of a trial is where the running container looks, as long as
nothing lies under the mount point of a disk that is away.

### 4.12 What stays with TLC

- Liveness, everywhere: `JobsFinish`, `ClientsAreServed`, `InstallConverges`,
  `HandedOverSettles`, `Synced`, `QueueSettles` and `Reconciled`.  Fairness and ENABLED are
  beyond the prover; `FoldersAreKept` ends in one and is proved but for it.
- `PlansAreSound` and `CatalogueIsSound`: `PlanInstall` is recursive, and the catalogue's
  operators are checked for every answer of their sources.

## 5. Findings

1. *Cancel during the claim* (`jobs_cancel`).  `Cancel` looks for the cancel
   function after it has committed cancel_requested, but `runOne` files it only
   after the claim has committed and been read back: a cancellation in between is
   answered, and the handler runs to its end with a live context.
2. *Hidden events stall the history* (`events_page`).  The page limit is applied
   before the actor's filter and no cursor of the page is returned.
3. *The documented reconnect order loses events* (`events_gap`).  What is
   published between the history request and the new subscription is skipped as
   soon as a later event arrives live.
4. *A cancelled upgrade is neither recorded nor undone* (`modules_cancel`).  The
   helper, detached from its caller, completes the swap; the registry has returned
   and the row keeps the old manifest, the previous container blocks later
   upgrades.

### 5.1 Behaviours the properties exempt

These were met while modelling.  Some the models contain, and a property makes room
for them in words; the others lie outside the models and limit what the properties
say of the code.  The documentation contradicts the first four only.

*Against the documentation.*  The models contain these four.  TLC finds a trace of each
when the property named is stated without its exemption; of the first, when
`helper.pc = "keep" => live.web # 0` is added to it.

- An offered rollback that can never run.  "Restores the previous Core/Web/helper
  backup when one is available" (`docs/update-system-v2.md:88`): if the helper dies
  between the two renames of the web files, there are none.  The rollback is offered,
  since the backup is complete, and fails each time at its first copy, that of the live
  web files (`update_ops.go:167`); an installation removes the backup (`:58`) before it
  fails in the same way.  The files have to be put back by hand.  `WayBack` promises that
  a complete copy is offered, not that it can be gone back to.
- A revoked grant that is served again (`docs/decisions/0035-users-folder-quotas.md:7`).
  `smb.apply` runs under the context of the HTTP request.  When its client goes away,
  Core returns and frees the mutex, while the helper finishes under a context of its
  own: beside the next change, which has suspended Samba and committed the revocation,
  it writes the configuration made before and reloads Samba with it
  (`smb_reconcile.go:44`, `smb_ops.go:252`).  The change after that, or a restart of the
  helper, sets it right.  `SharesAreRight` and `QuotaIsEnforced` except the time in
  between (`astray`).
- An ifup that decides nothing.  A failing `ifdown --force` is dropped, as is its
  absence, because "the following ifup is decisive" (`ifupdown_profiles.go:407-410`).
  ifup leaves an interface alone that its state says is up, and succeeds: the save is
  reported as done, and the old profile runs on.  `ProfileIsApplied` excepts such an
  interface (`unheeded`).
- A reserve raised over promised space (`docs/decisions/0035-users-folder-quotas.md:16`).
  Core keeps space for the uploads it has accepted, but `filePoolCapacityPolicy` stores
  a higher reserve of the pool without looking at them (`files.go:1282`); their next
  chunk is refused with 507 (`:1183`).  `PromiseKept` excepts it (`raised`).

*Containers.*  If the helper dies while a candidate runs, a later start of the module
starts the old container beside it on the same data (`docker_module_upgrade.go:74`);
of the AI Agent two containers may also run after two failed commands, because the
undoing starts the old one even when it could not remove the new one.  After a crash
of Core a row may name a container that is gone (`registry.go:355`).  An upgrade of
Frigate that was interrupted before its copy was complete needs a recovery by hand
(`frigate_module.go:409`).  If writing the journal of the copy fails and the helper dies
between the two renames that put the configuration back, the journal says nothing of a
copy and the directory is missing: every later recovery is refused, with the copy
intact.  A write of Frigate's own interface can pass beside a
helper that still works for a cancelled job; WebSockets of Frigate are GET requests
and are not counted as writes.  The recorder's claimed target directory is never
removed when the activation fails, so later ones are refused; a death of the helper
between stop and restart leaves the recorder stopped with no operation to start it.

*Update.*  The check, download, rollback and the reader of the result each decide by a
phase they read earlier (`service.go:212`, `482`, `1063`, `1141`, `444`); Core may
die, or begin something else, within the 750 ms before the helper acts (`main.go:598`).
A result whose file could not be removed, or a check that began before, can tell of an
earlier update's success while the next one is under way (`service.go:444`, `212`).
The error of a write of state.json is ignored: when every write since an earlier success
fails, the Core that the helper starts next tells of that success although it runs
another version (`service.go:1067`).  After any death of Core an update may stay in the
phase it was in: `HandedOverSettles` promises nothing then.

*Files and access.*  A pool on which a folder has a hard (project) quota is not
modelled: there the allocations of folders are subtracted as well
(`pool_reservations.go:23-43`, `64-74`), and setting one compares it with what the folder
uses, not with what other folders' uploads were promised (`nas_management.go:97-113`);
`PromiseKept` says nothing of such pools.  A user created with access is an action without
an actor, since creation does not wait for the mutex: `AdministratorsDecide` is about the
changes that do.  A helper that restarts alone leaves Samba suspended until the
next change (`smb_reconcile.go:56`).  Without `--restart-stale` one stale session stops every later
synchronisation of that file.

*Host.*  The check whether a partition is in use passes when the partition is not found:
lsblk fails (`block.go:44-51`), or the path is spelled otherwise (`storage.go:81`), and
the helper cleans it and goes on; no purpose is then cleared or moved either
(`storage.go:201-211`).  `PoolSurvives` and `PurposesHold` except the partitions that this
happened to.  `wg show` failing for any reason is taken for a tunnel that is down
(`network_ops.go:623`); `TunnelIsItsFile` excepts the tunnel.  `ip link set down` leaves
ifup's state, so that the next save brings nothing up if its ifdown fails:
`ProfileIsApplied` excepts interfaces with such a history (`unheeded`), and those whose
last save failed and said so.  Purposes bear device paths, which another boot may give to another disk
(`storage_purposes.go:107`; `nvr_storage.go:43` relies on them).

*Jobs and events.*  `job.queued` can follow `job.started` (`engine.go:103`),
created_at is compared as text without trailing zeros (`jobs.go:123`), and
`latest_cursor` of a history page may lie beyond the page (`event_history.go:51`).
Recovery leaves the progress of a job it queues again as it was (`jobs.go:286`), which
`RowConsistent` allows.  The result a job stores is not modelled, nor is a claim whose
transaction fails (`jobs.go:113-148`): the worker returns and is woken again.
Applying a GPU mode is no job: `AdmissionIsExclusive` does not speak of it, only the
helper's lock orders it.

## 6. Not modelled, and why

*Left out for good.*  User interfaces (web, Windows window, tray, shell), pure input
(system information, camera discovery, disk health), proxies (Frigate's and Home
Assistant's pages, the AI Agent's chat), encodings, the transport between the two
processes, start-up files and packaging.  They keep no state that an order of events
could spoil, or only display it.

*Abstracted.*  Real time: a timeout may strike at any moment.  SQLite: a committed
statement is durable and atomic.  Paths: names are plain, directories and the check
of paths are left out of `FileData`.  Signatures: a signature fits the bytes it was
made for or it does not.  The replacement of the helper's own binary is one step,
an automatic restart of containers after a reboot of the host is not shown, the
publisher changes only the newest version, and the catalogue of Frigate only moves
forward.

*Not yet.*  Grants of resources other than folders, rate limits, Samba passwords,
pools with project quotas and several pools in `FileData`, the suspension of Samba
around a change of a pool's reserve, volatile routes, the Windows client's release
channel and certificate pins.

## 7. Plan

Done, in this order: the job engine with its proofs; events; modules and their
helper; the update of Core and its source, with its proofs; files and the Windows
client; access; the host; the special containers; admission, planner and
catalogue; then the proofs of the registry, of admission, of events, accounts, files and
shares; then those of the update of Core, storage, network, the special containers and the
Windows client's copies.
What is left, most useful first:

1. An abstract module of "one version of a container serves its data" that
   `FrigateUpgrade` and `HomeAssistantUpgrade` implement; their invariants of section
   4.11 have what the mapping needs.
2. Project quotas and several pools in `FileData`, directories, and the creation and
   removal of pools across `Storage` and `Shares`.
3. The Windows client's release channel.
