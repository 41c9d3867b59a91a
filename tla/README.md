# LocaStack: TLA+ models and proofs

LocaStack runs local development services (databases, brokers, object stores) as
Docker Compose stacks. A stack is a file, `locastack.yaml`, in a project folder.
Two kinds of process change it: the dashboard server, which runs operations in
the background and reports them over HTTP and a WebSocket, and `locastack`
commands in terminals. Both use one core of operations (`src/packages/core`)
over one set of adapters (`src/packages/engines`): a SQLite state database, one
secrets file per stack, Docker and Docker Compose. The dashboard
(`src/packages/dashboard`) is a page that builds its picture from messages and
sends forms that may be old by the time they arrive.

The core itself is sequential code with many awaits. What is hard about it is
what happens between two of them: another operation of the server, another
process, a call that fails, a process that dies, a client that joins late. This
directory models those parts, checks them with TLC and proves most of their safety
properties with TLAPS.

Contents: [1 Components](#1-components) · [2 Modules and the code](#2-modules-and-the-code) ·
[3 Properties](#3-properties) · [4 Runs](#4-runs) · [5 Bounds](#5-bounds) ·
[6 Fairness](#6-fairness) · [7 Proofs](#7-proofs) · [8 Findings](#8-findings) ·
[9 What the models show beside the properties](#9-what-the-models-show-beside-the-properties) ·
[10 Not modelled](#10-not-modelled) · [11 Plan](#11-plan) · [12 How to run](#12-how-to-run)

Paths below are relative to `src/packages`.

## 1 Components

### The server

| component | state it keeps | operations | with whom |
|---|---|---|---|
| Operation registry, `server/.../observer/op-registry.ts`, `ops/ops.service.ts` | map of operations in start order: state, event buffer, listeners; tail of the promise chain of each project; journal rows | `start`, `exclusive`, `consume`, `push`, `subscribe`, `prune`, `list` | the HTTP modules start operations; the event stream and the observer subscribe; the status channel is poked when an operation settles |
| Logs channel and backpressure, `channels/logs.channel.ts`, `backpressure.ts` | per container one upstream, batch, timer, history; per socket a gate with its count of skipped lines | subscribe, pump, flush, end, fail, write, drain | Docker's log stream, Bun's socket buffer |
| Status channel, `channels/status.channel.ts` | per project listeners, last status, load in flight, dirty flag; Docker events stream | subscribe, refresh, publish, fail, poke, debounce, retry | Docker Compose `ps`, Docker events, the stats channel, the registry of operations |
| Stats channel, observer dispatch | last sample per container, throttle, history, upstream and its retry; subscriptions per socket | subscribe, pump, sample, flush; dispatch of messages | Docker stats; the WebSocket |
| HTTP modules (`modules/*`) | none of their own | check a request, start an operation in the lane of its project, or answer at once | core operations |
| Server start, dashboard file | `dashboard.json`: url, pid, token | search, listen, write, check, delete | other servers and commands that look for one |

### The core and its stores

| component | state it keeps | operations | with whom |
|---|---|---|---|
| Project registry, `core/.../project-registry.ts` | `projects`: name to folder | claim, check owner, register, unregister, create, roll back | stack files that users edit; Compose projects and volumes keyed by the name |
| Port allocation, `resolve/ports/allocator.ts` | pinned ports of every stack | choose, probe, validate, pin, release | other processes that bind ports; `UNIQUE(port)` in the store |
| File lock and secret store, `engines/.../file-lock.ts`, `secret-store.ts` | lock file with its owner's pid and token, queue in memory, secrets file | acquire, take over, put back, release; ensure, set and forget secrets | every process that runs an `up` |
| Service operations (`core/src/ops`) | entry in the stack file, stored secret, rendered compose project, container, volume, snapshots | add, update, start, stop, remove, rotate, snapshot, restore, delete snapshot, import, up, down, unregister | all of the above |
| State database, `engines/.../sqlite` | the tables and their version, the legacy `state.json`, the copy before an upgrade | open, copy, migrate, import, one atomic update at a time | all processes |
| Snapshot index and journal | rows of snapshots and of operations, archives and sidecars | insert, delete, finish, trim | registry of operations, snapshot operations, the Snapshots tab |
| Catalog, planning, resolution | none: functions of definitions and the stack file | accept, merge, bind, order, resolve, render later commands | all operations |
| Stack files, environment variables, link markers | `locastack.yaml`; a block in a file of the user | load, edit, write; derive, write between markers | the user's editor; `env`, `link-env` |
| Compose import | none | parse, map, preview, check again, write | the import dialog |
| Data tab | none | run a query, list, seed | Docker exec |
| Service status, port suggestions | none kept: list, inspections, probes of one collection | collect, suggest | the status channel, the rows and cards |
| Docker client, transport, exec | open connections, the socket and version found | logs, stats, events, exec with deadline and caps | the daemon |
| Compose runner, volume archiver | the child in progress | up, down, rm, archive, restore, as streams of events | the docker command line |
| Setup, doctor, daemon discovery | a plan of steps | inspect, build, ask for consent, run, wait for the daemon | platform, package managers, the user |

### The clients

| component | state it keeps | operations |
|---|---|---|
| Command line | none | `up`, `down`, `env`, `dashboard`, `setup`, `doctor`... |
| Dashboard observer client | counted subscriptions, socket and its backoff, the picture built from snapshots and deltas, the operation it follows | connect, reconnect, subscribe again, apply, follow, track |
| Dashboard forms: config page, import dialog, Snapshots tab | what is typed, previewed and listed; requests on their way | edit, preview, send, close |
| Other pages, packaging | state of the browser; none | |

### What is hard here

* **Nothing excludes a command.** The lanes of the server exclude operations of
  the server from each other. A command is another process: it meets the server
  only in transactions of the state database and in the lock of the secrets file.
* **Read, await, act.** Owner checks, port probes, loads of a status, plans of
  setup and the judgement of a stale lock are old when they are acted upon. Some
  are repeated in a transaction, some carry a dirty flag, some are not repeated.
* **Several stores, no transaction over them.** The password of a database is in
  the secrets file, in the rendered project and, baked in at first start, in the
  volume; snapshots carry a copy, and are a row, an archive and a sidecar. Every
  operation moves them one call at a time.
* **Clients come late, read slowly and leave.** Replay and live events, history
  and batches, snapshots and deltas must join without a gap or a repetition; a
  form is filled in on a picture that is old, and its answer may come after it closed.
* **Bounded buffers.** Events, settled operations, log lines, outputs of a query,
  socket buffers and attempts all have limits, and what is dropped must be told or
  be harmless.
* **Other programs.** The docker command line, helper containers and the daemon
  fail, go away and outlive the process that started them.

`PROJECT.json` lists 40 hazards at the line where each bites, with the
properties that cover it.

## 2 Modules and the code

An action is the code between two awaits, or one call of a file system, a store
or Docker, with everything it changes. A property's comment says which code
behaviour it is about. A definition whose comment begins with *Faulty* is a
plausible bug of the definition after it: every property of a passing run is
known to be violated when one of these takes its place (`mutants` in
`PROJECT.json`). They are in no `Next`.

| module | models | composed of |
|---|---|---|
| `ProjectLane` | what a lane promises: jobs of a project, first in, first out, one at a time | |
| `OpRegistry` | lanes, buffers, retention, journal, HTTP streams | implements `ProjectLane` (refinement mapping `Lane`) |
| `LogStream` | logs channel, gate per socket, subscriptions of the hub | |
| `StatusChannel` | the status channel of one project and what its listeners make of the messages | |
| `ServiceStatus` | one collection of a project's status: list, inspections, probes, suggestions, and the rows drawn from them | |
| `StatsChannel` | the stats channel of one container, its pages and the overlay of the status channel | |
| `ObserverClient` | the dashboard's socket and store, and the hub | |
| `OpFollow` | the page that follows an operation | |
| `ProjectRegistry` | who owns a project name: server operations, commands and editing users | |
| `PortAllocation` | the optimistic allocation and the pins | |
| `FileLock` | the lock file between processes, the queue within one | |
| `SecretStore` | locked read-modify-write of the secrets | extends `FileLock` and conjoins its steps |
| `ServiceData` | one service's entry, secret, rendered project, container, volume, snapshots | |
| `SnapshotRequests` | the Snapshots tab, the check of a request, its turn in the lane, row, archive and sidecar | |
| `StateDatabase` | opening, copying, migrating and importing one database by several processes | |
| `Startup` | commands that start at once, `dashboard.json` | extends `StateDatabase` |
| `SetupPlan` | facts, doctor's checks and the plan, as functions of a machine | |
| `Setup` | consent, the runner of a plan, Start Docker | extends `SetupPlan` |
| `DockerCommands` | compose runner and volume archiver over the docker command line | |
| `Catalog` | definitions: which are accepted, how layers merge | |
| `StackPlan` | binding, order, what templates name, variables | extends `Catalog` |
| `ComposeImport` | preview and import of a compose file | extends `StackPlan` |
| `StackEdit` | a stack file edited by operations, an import and its user | extends `ComposeImport` |
| `ConfigForm` | the page that configures a new service | |
| `ImportDialog` | the two steps of the import dialog | extends `ConfigForm` |
| `Scan` | what a step makes of a state along a sequence, and theorems about it | |
| `DockerFrames` | frames, lines and caps of Docker's output | instances of `Scan` |
| `ContainerStreams` | one read of a container's log | extends `DockerFrames` |
| `DockerExec` | one run of a command in a container | extends `DockerFrames` |
| `DataTab` | query, listing and seed, to what the caller is told | extends `DockerExec` |
| `DockerTransport` | socket and version that requests share | |
| `OpRegistryProofs`, `ObserverProofs`, `ProjectsProofs`, `ServiceProofs`, `DockerProofs`, `StackProofs`, `MachineProofs` | theorems about the modules each extends | |
| `MC...` | values of the constants for one run, and the scenarios it is composed of | |

`map` in `PROJECT.json` gives the lines of every definition. In short:

**OpRegistry.** A *job* is a call of `start` (an operation with events) or of
`exclusive` (direct work, such as deleting a snapshot). `after[j]` is the promise
a job waits for and `tail[p]` the map of tails, so the chain of the code is there
as it is: a job knows only the one before it, and the callback that drops a
settled tail (`Unhook`) is a step of its own. `Begin`, `JournalStart`, `Yield`,
`EndStream`, `Throw`, `EndDirect` are the stages of `consume`; `Push` is `push`:
terminal once, buffer cut to `maxEvents`, listeners told before they are cleared.
`Look` and `Start` prune (by age, then by capacity). `JournalFinish` is the
write nobody waits for. `Follow` and `Leave` are `OpEventsService.stream`.
`pushed` is history: everything the operation ever pushed.

**LogStream.** Lines are numbers. `upstream` is the `LogsEntry`, `sock[s]` the
subscription with its `LogGate` and what the client got. `level` is the socket's
send buffer (`low`, `high`: a send pauses the gate, `full`: a send is dropped);
`Congest`, `Shrink` and the container are the environment.

**StatusChannel.** One `entry` per generation of watchers; a load belongs to the
watch that started it and may outlive it (`LoadIgnored`). A load reads Docker in
one step and publishes in another. `Poll` is the interval, the poke or any other
reason to reload; `EventArrives` and `DebounceFires` are the events path.
A row is the state of a service; a view is what a listener holds after the
messages it was sent. `heard`, `asked`, `answered` are history.

**ServiceStatus.** A collection reads the pins, lists the containers once and then
inspects, probes and searches service by service; boxes, strangers on ports and
pins move between any two of these. A box holds its port while it runs; `bind`
says that its error is a port it could not bind. `Offered` and `Card` are what
the page makes of a row and of all of them.

**StatsChannel, ObserverClient, OpFollow.** A sample is the moment it was taken; a
pump is one call of `pump`, which may end after the next was opened. `down` and
`up` are the messages on their way; a lost connection loses both. Events of an
operation are numbered; `Lost` is the error `followOp` records itself.

**ProjectRegistry.** A call walks through `find`, `load`, `owner`, `stale`,
`others`, `files`, `write` and `compose`; or through `free`, `vacant`, `save` and
`rollback` for a creation: each `pc` is an await of the code. `WriteClaim` is the
transaction of `claimProjectName`, which judges the claim again against the
registry of that moment and the files read before. Names and services are
sequences of words, so that `ContainerName` clashes as it does in the code
(`ls-shop-api-db`). `keeping[c]` and `holding[c]` are history: folders that
declared, or held, the name of call `c` ever since `c` knew it.

**PortAllocation.** `ReadState` takes the snapshot, `TakeFixed`, `KeepPin` and
`Probe` choose service by service, `Pin` is the transaction: stale, start over;
out of attempts, fail; valid, write. `NoPortTwice` is the store's constraint;
meeting it would be pc `conflict`.

**FileLock, SecretStore.** `Create` is the hard link, `Check` reads the holder,
`Rename`, `Judge`, `Restore`, `Discard` are `takeOver` one file system call at a
time, `Release`, `RemoveOwn` are `releaseIfOwned`. Values of secrets are named after
the call that generated them, so a second generation shows.

**ServiceData.** `op[a]` is what the server's lane or a command is doing:
`Provision` (secrets and ports), `WriteCompose`, `WriteEnv` (two files, two
steps), `Start`, `RemoveContainer`, `RemoveVolume` and so on. Any of them may
fail (`Abort`) or be cut off by a dying process. `volume` is the password the
data was initialised with, or `NoValue` when there is no volume. `alone` is
history: nobody else came between the steps of this operation.

**SnapshotRequests.** A tab shows a list that may be old and sends one request at a
time; `LookUp` and `Precheck` are `snapshots.service.ts`, `JoinLane` its turn;
`Begin...` read file and index again, and the rest are the steps of the three
operations. `ServerGone` loses what waited and leaves what ran where it was;
`harmed` are the ids whose creation or deletion was cut short.

**StateDatabase, Startup.** An opening reads the version, copies, migrates, reads
`state.json`, imports and renames; every statement that commits alone is a step,
`BEGIN IMMEDIATE` and the migrator's transactions are atomic. A schema is the
number of migrations applied. A command searches for a dashboard, takes a port,
listens, writes the file, and on its way out removes it if it is its own.
`held` and `settled` are history.

**SetupPlan, Setup.** A machine is a record (Homebrews, kegs, apps, sockets,
context, `DOCKER_HOST`). `Facts`, `Doctor` and `BuildSetupPlan` are the
inspector, doctor and the planner; `Able` says whether a planned command can succeed on
a machine and `Does` what it then changes. `Setup` runs a plan in a terminal while the dashboard starts Docker and
the user changes the machine.

**DockerCommands.** One call at a time of the runner or the archiver: its child,
the two pipes with the newest lines kept, the helper container with its script one
file at a time, the archive and its partial file. Children die, hang and are
cancelled; the process dies and leaves its helper. `stuck` are files the helper's `rm`
failed on, which its script passes over.

**Catalog, StackPlan, ComposeImport, StackEdit.** A template is the set of the
paths in it, a variable name a sequence of words, an override file a definition
with its faults. `PlanOrder`, `Plans` and `Resolves` are functions; `StackEdit`
gives them a file that operations and the user edit. An operation reads it to check its input
(`BeginAdd`...), reads it again (`ReadFile`) and writes what it made of that (`WriteFile`);
linking reads (`Link`) and writes (`WriteLinked`) the env file. `op.read` and `linking.read` are history.

**ConfigForm, ImportDialog.** The form, the YAML draft and what the server said of
a request, with the requests on their way while the user types on; the dialog's
review, and previews and imports that nobody cancels. `FollowImport` is the one GET after an
import, which may find the project, miss it or fail; `OpenProject` what follows when it found it.

**DockerFrames, ContainerStreams, DockerExec, DataTab, DockerTransport.** Bytes are
numbers and one character takes two, so that a frame, a chunk or a cap may fall
inside it. The demultiplexer, the line assembler, the capped collector, the CSV
reader and the quoting of arguments are folds of sequences; those of `DockerFrames` are instances of `Scan`, where the
loop of the code is a step and `After` its fold over bytes, characters or frames. The run of a
command is a state machine with its deadline, its kill and its connection, from the search for the
daemon (`Located`) on. A connection may end early without an error (phase `lost`) or with one
(`broken`), and what was on its way is then lost from anywhere on (`LinkLost`). A row of a query is
a sequence of fields, and `TagWord` one that looks like a command tag of psql.

## 3 Properties

Each module of a component has one type invariant (`TypeOK`, `...Typed` or the first
conjunct of its inductive invariant). The others, by what they are about; *I* is an
invariant, *A* an action property, *R* a refinement, *L* liveness.

**Operations and what is told about them**

| property | | says |
|---|---|---|
| `LaneExclusive` | I | what has begun on a project finds every earlier job of it over |
| `LaneImplemented` | R | the promise chains implement `ProjectLane!Spec` |
| `EverySettles` | L | an accepted operation settles, however the ones before it end, and its followers are told |
| `StreamComplete` | I | one outcome, which the journal agrees with; a follower has the events in order, without gap or repetition, and its stream ends with the terminal event |
| `EveryLineAccounted` | I | no line of a log is lost, repeated or moved without the client being able to tell; the end comes last and is told |
| `ViewsInStep` | I | snapshot and deltas give every subscriber the status last published, which is as new as the newest request |
| `StatusTold` | I | one row per service, each as its container and port are when neither moved since the list; no container in conflict with its own port; a port offered is free to take |
| `Converges` | L | who keeps watching sees the project as it is, though events get lost |
| `UpstreamShared` | I | pages and overlay share one upstream, which lives exactly as long as its listeners; a page draws each sample once and in order |
| `HubAgrees` | I | once messages arrived, the hub's subscriptions are the channels in use; a channel in use always has a socket or a scheduled reconnect |
| `PictureConverges` | L | the picture of a watched project becomes the project, over any number of lost connections |
| `FollowedTruly` | I | a page that follows an operation over broken responses applies its events once and in order, and records an error of its own only when the end did not arrive |

**Stores that processes share**

| property | | says |
|---|---|---|
| `NamesHeld` | I | names and folders are one-to-one, and no operation reaches compose on a name another folder held all along |
| `TakeoverJustified` | A | a claim takes a name only from a folder whose file gave it up meanwhile |
| `PinsHold` | A | no port is pinned twice, the store's constraint is never what prevents it, an allocation starts over only after a real change, a pinned automatic port is kept |
| `UpdatesSerial` | A | one live process at a time is inside `update`, and a stored secret changes only through a call that means to change it |
| `EveryCallSettles` | L | a call of a live process ends, whoever died with the lock |
| `PasswordKept` | A | data and stored password part only along named roads (section 9) |
| `SnapshotsTrue` | A | a snapshot keeps the password of its data, and an undisturbed, successful restore gives back both |
| `RemovalComplete` | A | an undisturbed, successful removal with volumes leaves neither |
| `SnapshotsHold` | I | whatever tabs confirm on old lists, a restore fits the service and is not disturbed; rows, archives and sidecars agree but for ids whose work was cut short |
| `OpeningSafe` | A | an opening fails on a broken `state.json` only, imports it into an empty database only, and never sets it aside unimported |
| `PinsWrittenWhole` | I | no update and no import leaves a port pinned twice, and an update is refused only when it would |
| `FindsRunning` | A | a command starts a dashboard only if none served and was named by the file during its whole search |
| `CleanAfterStop` | I | when every command ended by itself, `dashboard.json` is gone |

**Plans, files and forms**

| property | | says |
|---|---|---|
| `PlansSound` | I | a planned stack is in an order in which uses come first, and what accepted definitions plan renders: at start, in rendered commands later, in variables |
| `EditsHarmless` | A | an operation on a file that its user edits meanwhile changes its own entry and its own variables only: a save since its check survives, unless it falls between the last read and the write |
| `PreviewImportable` | I | whatever the user leaves checked of a preview, the import accepts while catalog and machine stay |
| `FormsTrue` | A | what a form showed is what is written; a review is that of the file it names; the page of an import opens only once its project was found, and one that was written is only missed when its name or folder was taken |
| `OnlyAsAgreed` | I | what runs in the terminal is the plan printed last and agreed to; Start Docker starts one runtime at a time, without a password, and does nothing else |
| `Heals` | I | a setup whose steps succeeded leaves a machine that doctor accepts, or says what is left to do |
| `HostObeyed` | I | with `DOCKER_HOST` set, nothing is started or installed where it does not point |

**Docker**

| property | | says |
|---|---|---|
| `VolumesSafe` | I | a finished archive is the whole volume; a restore never leaves less than the old files or the archived ones, in place or staged; one told as done leaves the archived files, and of others only those it could not delete |
| `RemovalTold` | I | one event says how a call ended; a removal told as done was done |
| `ResultAgrees` | I | output and exit code are the process's own, cut only if the result says so, and whole with an exit code but for the mark of half a character; over a connection that ended early, a beginning |
| `AnswerTrue` | I | rows shown are whole rows of what the tool printed, in order and as wide as the header, all of them unless the answer says so or the connection ended early; what runs is what was typed |
| `SeedTrue` | I | a seed is told as done only if its process exited with 0 and read the whole text of the file, or a beginning of it over a connection that ended before the end of stdin was sent |
| `LinesWhole` | I | each line of a log reaches the reader whole, once and with its own stream, however frames and chunks cut it |
| `VersionOfSocket` | I | a request goes to the socket whose version it was negotiated with |
| `ReturnsInTime` | L | every run of a command ends by its deadline, unless it waits for good for an answer it cannot stop waiting for |

Four more (`SubscriberAnswered`, `DownSparesData`, `SecretsKept` between three
processes, and `HostObeyed` on Linux) are what the repository says and the code does
not do: section 8.

## 4 Runs

Where parts share nothing, one run holds several *scenarios*: the initial state picks
one, and a behaviour is of that part alone. States are distinct states; times are on two workers.

| run | module, configuration | scenarios | states | time |
|---|---|---|---|---|
| `operations` | `MCOpRegistry` | one event each in three jobs without a reader; two jobs with a reader | 314 thousand | 2:45 |
| `observer` | `MCObserver` | `status` (`StatusChannel`), `rows` (`ServiceStatus`), `stats` (`StatsChannel`), `socket` (`ObserverClient`), `follow` (`OpFollow`) | 545 thousand | 1:55 |
| `projects` | `MCProjects` | `names` (`ProjectRegistry`), `ports` (`PortAllocation`) | 1.45 million | 3:00 |
| `secret_store` | `MCSecretStore` | a server with two calls, a command with one | 549 thousand | 1:20 |
| `service_data` | `MCServiceData` | one service, the server and one command | 2.97 million | 3:05 |
| `stack` | `MCStack` | `stack` (`StackEdit`), `link` (the same with its linked file), `config` (`ConfigForm`), `import` (`ImportDialog`) | 559 thousand | 2:45 |
| `machine` | `MCMachine` | `setup` (`Setup`), `startup` (`Startup`), `commands` (`DockerCommands`), `snapshots` (`SnapshotRequests`) | 984 thousand | 2:10 |
| `docker` | `MCDocker` | `data` (`DataTab`), `logs` (`ContainerStreams`), `transport` (`DockerTransport`), `channel` (`LogStream`) | 841 thousand | 3:30 |
| `status_join` | `MCStatusJoin.cfg` on `StatusChannel` | `SubscriberAnswered` is violated | | |
| `registry_down` | `MCRegistryDown.cfg`, `DownSpec` of `MCProjects` | `DownSparesData` is violated | | |
| `secret_race` | `MCSecretRace.cfg`, `Race...` of `MCSecretStore` | `SecretsKept` is violated by three processes | | |
| `setup_host` | `MCSetupHost.cfg`, `HostSpec` of `MCMachine` | `HostObeyed` is violated on Linux | | |

Deadlock is checked in `operations`, `secret_store`, `secret_race`, `service_data`
and `status_join`. In the others a part may really stop: a command has ended, a log was read,
the bounded number of operations has run out.

Symmetry is used in `projects` (callers, stacks) and `service_data` (values), which
check no liveness and choose no least element of the symmetric sets.

## 5 Bounds

Every bound is a constant of its module, named in a comment. Limits of the code that
are small here (buffers, attempts, samples) are constants too, so that they are met.

* **Operations** (`MaxJobs` 3, `MaxSteps` 1, `MaxTime` 1, `Capacity` 1, `MaxEvents` 1).
  Three jobs are needed for a tail that is neither the first nor the last of its lane, and
  for a tail dropped while a newer one waits. Two with capacity 1 make eviction meet a
  reader, and a buffer of one event overflows before, while and after it attaches. The
  three jobs of the first kind have no reader and no ticks (`Bounded`). The proofs have no bound.
* **Status** (`MaxChanges` 2, `MaxWatches` 2, one service that is there or gone). Two
  changes fall on both sides of a load's read; two watches let a load of a dropped
  entry end under a new one. More services only enlarge a delta, and `ViewsStayInStep`
  is proved for any number.
* **Rows** (`MaxLooks` 2, `MaxEvents` 1, `MaxProbes` 1, four ports). One change falls
  between any two of list, inspection and probe; a second look starts from what the
  first showed. One probe of three candidates runs out.
* **Stats** (`MaxPumps` 3, `MaxTime` 3, `History` 2, `HistoryPoints` 1, `MaxRing` 2, `Fresh` 1, `MaxKept` 2).
  One upstream may end after the next was opened, and that one be replaced again.
* **Socket** (`MaxUsers` 2, `MaxSteps` 2, `MaxDrops` 1, `MaxUpdates` 2, two channels). A
  channel is given up and taken again around one lost connection, with a delta on either side of it.
* **Following** (`Emits` 3, `Buffer` 3, `Attempts` 2, `MaxBreaks` 2). A response breaks off
  before, inside and after an event, twice, with an attempt to spare and without.
* **Names** (`MaxCalls` 3, 2 at a time, 2 folders, `MaxEdits` 1). A third call starts
  after two met. The names are chosen so that containers of different projects clash.
* **Ports** (range of 3, `MaxAttempts` 2, `MaxRuns` 3, `MaxOthers` 2). The range runs out when
  two stacks hold a pin and another program a port. Two attempts are the least at which
  giving up differs from starting over; the code has 5.
* **Secrets** (3 calls, 2 processes, 2 keys, `MaxCrashes` 1). Two calls of one process
  queue in memory; one key is touched by every kind of call, the other by some.
* **Service data** (2 values, `MaxSnaps` 1). A value that nobody uses any more may be
  generated again, which stands for further fresh values.
* **Snapshots** (`MaxRequests` 3, `MaxSurprises` 1, 2 tabs, 2 ids). One request is prepared while
  a second runs and a third waits in the lane; one edit or one death falls between any two steps.
* **Database and start** (3 processes, `LockAttempts` 3 = `MIGRATION_ATTEMPTS`, `Kills` 1,
  `Ports` 2, binaries with two or three migrations). A third process opens what the
  second repaired after the first was killed.
* **Setup** (`MaxRuns` 1, `MaxClicks` 2, `MaxOutside` 1, some 600 machines). The machines
  vary where the planner looks; clicks and changes by the user are combined on the Mac in `Shared`.
* **Docker commands** (`RunnerLines` 1, `HelperLines` 1, `MaxStreams` 2, `MaxPrinted` 1, `MaxFaults` 1).
  Two calls, so that the second finds what the first left, both of the archiver or both of the compose
  runner, which share nothing; one line more than is kept.
* **Stack file** (`MaxOps` 2, `MaxEdits` 1, files of up to four services). One edit falls
  between check and read, or read and write, of either operation; in `link` it is one of the linked
  file or of the names. The overrides and a preview vary in `stack` only.
* **Forms** (`MaxKeys` 2, `MaxMoves` 3, `MaxNews` 1; `MaxOpens` 2, `MaxChanges` 1, `MaxReads` 2,
  `MaxImports` 2). The user types before and after sending; a second preview or import is under
  way when the first one's answer comes.
* **Output** (pieces of five bytes, characters of one or two, caps of 3 to 20 bytes,
  `StderrCap` 2, `MaxObjects` 2, two streams; rows of one to three fields, narrower and wider
  than their header, or of command tags only). Every cut inside a character, a quoted field
  and a row occurs, and each cap is met exactly, missed by one and not met.
* **Log channel** (`MaxLines` 2, `BufferLines` 1, `Tails` 1, 2 sockets). One line can wait in the batch
  while another is in the history, skipped, or queued above the threshold.
* **Transport** (2 requests, 2 daemons, `FetchAttempts` 3, `Switches` 3). A runtime is stopped,
  another started and that one stopped while a request waits for a search another one began.

## 6 Fairness

Safety is checked and proved of `Init /\ [][Next]_vars` (the `Spec` of `SecretStore`
also carries its fairness). Liveness assumes, per module:

* **OpRegistry**: `WF(JobStep(j))`. The event loop runs every ready callback, and
  each handler's generator ends: it runs Docker commands, which end, fail or are
  aborted. Nothing is assumed of `Look`, `Tick`, `Follow` or `Leave`.
* **StatusChannel** (`StatusFairness`): `WF(Poll)`, since `setInterval` keeps firing while
  someone watches; `SF` of reading and of ending a load with success, so a daemon that
  is up again and again is seen again and again. Docker events are not assumed to
  arrive: `Converges` rests on polling alone.
* **ObserverClient** (`ObserverFairness`): `WF` of the idle and reconnect timers
  (`IdleClose`, `SocketReconnects`), of a socket that opens, of the messages on an open connection in both
  directions, and of the hub's answer to a subscription. The connection may be lost
  `MaxDrops` times; a connection that is lost for ever shows nothing.
* **SecretStore**: `WF` of the steps of each call and of its deadline passing. No
  process has to die. A dead process does nothing more.
* **DockerExec** (`Deadline`): `WF` of the deadline timer and of what its abort ends: the request
  that creates the exec, the opening, the reading. Nothing is assumed of daemon and process. What carries neither the signal
  nor a time-out is `Unstoppable`: the search for the socket and GET /version before a request, also that of the kill,
  a connection that is being made, and the poll for the exit code. A run that stays in one of these
  for ever is the exception that `ReturnsInTime` makes.

## 7 Proofs

53 theorems, five of them `Scan`'s about what a fold does, all about every value of the constants that satisfies the named
assumptions of the modules. TLC evaluates the assumptions in the runs above. They say that bounds are natural
numbers, that `NoJob`-like values are none of the things they stand beside, and what
the code's types say of its inputs. Bounds such as `MaxCalls` are any natural number: they bound runs, not proofs.

| module | theorem | states |
|---|---|---|
| `OpRegistryProofs` | `TypeCorrect` | `TypeOK`: among other things, a settled operation holds no listener |
| | `LanesExclude`, `StreamsComplete` | `LaneExclusive`, `StreamComplete` |
| | `ChainIsLane` | `LaneImplemented`, the safety part of the refinement, which is all of it |
| `ObserverProofs` | `ViewsStayInStep` | `ViewsInStep` |
| | `HubAlwaysAgrees` | `HubAgrees` |
| | `UpstreamAlwaysShared` | `UpstreamShared` |
| | `FollowsTruly` | `FollowedTruly`, if the buffer holds the events of an operation |
| | `StatusIsTold` | `StatusTold` |
| `ProjectsProofs` | `RegistryTyped`, `NamesBoundOnce` | types; names and folders one-to-one |
| | `HoldersUntouched`, `TakeoversJustified` | `NamesHeld`, `TakeoverJustified` |
| | `PortsTyped`, `PinsStayDistinct`, `RetriesArePaidFor`, `PortsAreStable` | the parts of `PinsHold` |
| | `PinsAlwaysHold` | `PinsHold` |
| `StackProofs` | `TwoProcessesExclusive`, `TwoProcessesTyped`, `TwoProcessesKeep` | exclusion, types, kept secrets, if there are at most two processes |
| | `TwoProcessesSerial` | `UpdatesSerial`, if there are at most two processes |
| `ServiceProofs` | `ServiceTyped`, `PasswordStays` | types, `PasswordKept` |
| | `LinesAreWhole` | `LinesWhole`: for every log and every cut of it into frames and chunks |
| | `ResultsAgree` | `ResultAgrees`: for every command, every cap, every cut of its output and every loss of the connection |
| | `SeedsAreTrue` | `SeedTrue`: for every text, however the socket takes it and wherever the connection ends |
| | `SnapshotsKeepPassword`, `RestoresAgree`, `SnapshotsAreTrue` | the parts of `SnapshotsTrue` and the whole |
| | `RemovalsComplete` | `RemovalComplete` |
| `DockerProofs` | `VersionIsOfSocket` | `VersionOfSocket` |
| | `RemovalsAreTold`, `VolumesStaySafe` | `RemovalTold`, `VolumesSafe` |
| | `EveryLineIsAccounted` | `EveryLineAccounted` |
| `StackProofs` | `ValidatedRenders` | what accepted definitions name is found: the rendering half of `PlansSound`, for every catalog and stack |
| `StackProofs` | `FormsAreTrue` | `FormsTrue`: both forms, for every definition, text, file and number of edits, requests and lost answers |
| `MachineProofs` | `StartPlanUnattended`, `UnattendedSafeHolds`, `OneStartHolds` | about the planner and the click |
| | `OnlyAsAgreedHolds` (from `RunsWhatWasShownHolds`, `StartsDockerOnlyHolds`) | `OnlyAsAgreed` |
| | `HostIsObeyed` | `HostObeyed`, under `HostFits` |
| | `PinsAreWrittenWhole` | `PinsWrittenWhole` |
| | `FileIsCleaned`, `RunningIsFound` | `CleanAfterStop`, `FindsRunning` |
| | `OpeningIsSafe` | `OpeningSafe`, under `FewBinaries` |
| | `SnapshotsAlwaysHold` | `SnapshotsHold` |

How the arguments go:

* **LanesExclude.** `LaneExclusive` is not inductive: a job knows only the job it
  waits for. `LaneInv` adds that the tail of a lane is its newest job, or that there is
  none and every job of the lane has been unhooked (`TailIsNewest`); that a job is
  chained to the newest one before it (`ChainedToPrevious`); and that a job that left
  the queue found everything before it unhooked (`OthersOver`). The delicate step is
  `Unhook`: it drops the tail only if it is still its own.
* **ChainIsLane.** `LaneInv` again, and one lemma per kind of step: a job joins, begins or
  leaves the abstract lane, or the lane does not see it. What has begun is at
  the head because everything before it is over.
* **StreamsComplete.** `StreamInv`: `pushed` ends with its only terminal event exactly
  when the operation settled; the buffer is an end of `pushed`; a follower that is
  attached has read up to `pushed`, one that waits for its replay holds the buffer of
  the moment it came; the journal is written from the outcome and once.
* **ViewsStayInStep.** `StatusInv`: a subscriber's view is `last` or it is waiting; a load in
  flight belongs to the entry or to one that is gone; what a load read is at least as
  new as the requests before its start, and later requests are in `dirty` (`LoadsTrue`). `ApplyDelta`: a
  status taken through the difference to the next one is the next one.
* **HubAlwaysAgrees.** `ClientInv`: the newest message on its way about a channel, or the hub if there
  is none, says whether the channel is used (`WordKept`), so order and repetition of messages do not matter;
  and a socket, a retry or the idle timer always sees to the connection (`ConnectionKept`).
  A lost connection empties both sides, and reopening sends one subscription per channel in use.
* **StatusIsTold.** `LookInv`: the rows so far are those of the services before the current one, and each is true
  by itself (`RowTrue`); what the list saw of a container that did not move is what it is (`SeenTrue`);
  a service whose port is probed does not run, and only its port decides (`DraftTrue`).
  `BusyProbe` and `DetailsTrue` compare the code's probe and classification with what `StatusTold` expects,
  and `MovesKeep` says that a change only touches the services it moves: its own and those whose port it takes or leaves.
* **UpstreamAlwaysShared.** `StatsInv`: the one pump that runs is the controller's, an entry that is due to be opened
  again is not open (`UpstreamInv`), and the overlay listens to the container it last found running (`OverlayInv`).
  A pump that ends late finds that it is not the entry's. `SamplesInv`: the ring is in order and ends by now, so
  what is trimmed, cut and sent is; `NewerInOrder` says, by the least length at which it could fail, that the filter of a page keeps what is in order
  and later than its last sample, so what it joins to is in order too.
* **FollowsTruly.** `FollowInv`: what is applied, then what the connection still carries, is a gapless run from the
  first event; the buffer the server replays starts there, which is the assumption `Buffer >= Emits`.
* **NamesBoundOnce.** Inductive with `TypeOK`; `WriteClaim` removes the entries of
  its folder and of its name in the transaction in which it adds its own.
* **HoldersUntouched, TakeoversJustified.** `HoldInv` adds `CallKnows`: the history
  variables tell the truth about the present, and after the owner check only the
  call's own folder can have held its name all along.
* **PinsStayDistinct, PortsAreStable.** `Chosen` describes a half-made choice: no
  port twice, none that another stack held in the snapshot, kept pins where they
  were, no kept pin given to another service. `IsStillValid` carries this from the
  snapshot to the state of the transaction.
* **RetriesArePaidFor.** `Paid`: some number of writes accounts for the attempts,
  and while nothing was written since, the snapshot *is* the state.
* **TwoProcesses...** One call of each process is past the queue (`OneActive`).
  `Owned`: a holder's token is on the lock file, unless a call of the other process
  has just renamed it aside; that one is then not holding, and no third process can
  create a lock before it is put back. `Fresh`: what a call read is still what is
  stored. Three processes break exactly this (`secret_race`).
* **PasswordStays** and its neighbours. `NobodyBeside`: an operation that is still alone has nobody
  beside it, so what its earlier steps established still holds (`Reliable`): which
  secret the rendered project carries, that the volume is gone before a rotated value
  is stored, what a removal (`RemovedSoFar`) and a restore (`RestoredSoFar`) have done.
* **SnapshotsAlwaysHold.** `SnapshotInv`: the lane holds whoever waits or works once, and only
  its head works (`LaneOK`); a request is at a step its kind leads to (`Placed`); what
  the head has found nobody else changed since (`Undisturbed`); and row, archive and sidecar of
  every id agree up to the step a creation or deletion is at (`Backed`), but for the ids in `harmed`.
* **VersionIsOfSocket.** `TransportInv`: of all searches only the kept one is under way, and the kept socket is what it
  found (`SocketKept`); the kept negotiation asks that very search, or one that failed (`VersionKept`), so a
  version learned from an older daemon is never the kept one.
* **RemovalsAreTold.** `CallInv`: the child carries out the command the call is at (`ChildOfCall`); a call tells
  lines until it fails or ends, and then nothing more (`ToldOK`); each phase of a removal that exited well while
  nobody else acted has removed its part (`Achieved`).
* **VolumesStaySafe.** `HelpersInv`, with `CallInv`: a helper beside which nobody began is the last to have begun, and
  while it works nobody else does (`LastToBegin`), so each step of its script finds what the one before left; what root,
  staging folder and archive hold at each step (`AtOf`, `Archived`) makes a stop anywhere harmless. The script
  goes on behind an `rm` or an `mv` that failed, but ends well only when the staging folder is empty, so the archived files are in place then. `CallWaits`: the
  helper has exited or is gone by the time the call renames its archive, reports or ends.
* **EveryLineIsAccounted.** `LogsInv`: a client's `from`, what it was told and what its gate skipped add up to what the
  upstream has read less what waits in the batch (`SockOK`), history and batch are the lines up to the cursor
  (`UpstreamOK`), and whatever paused a gate is still there or a drain is due (`GateOK`). `WriteKeeps`, `ResumeKeeps` and
  `DeliverKeeps` carry this through one message. What a client counts is a recursive function of what it was told;
  `Countable` and `CountsAgree` show by a least counterexample that it exists and is the only one, `CountJoined` adds it up.
* **LinesAreWhole.** `Scan` proves of any step what a fold does after nothing, after one more and after two sequences
  joined (`AfterNone`, `AfterMore`, `AfterJoined`), and that what each step keeps the fold keeps (`AfterKeeps`): the only
  inductions over data, on the set of lengths at which a claim could fail. From them `PushTakes`: pushing a chunk leaves what is left of
  everything pushed when its complete frames are taken off, so frames do not depend on where chunks were cut; `DecodeJoined`
  and `PartsJoined` say the same of characters and of lines. `StreamInv` then relates the reader to the writes that were
  sent: the texts told so far are a prefix of what each stream wrote (`FramesTake`), completed lines are the parts
  of them (`Assembles`), and at the end what the decoders and the assembler still hold is the rest (`FramesEnd`, `FlushedTexts`).
* **ResultsAgree.** The demuxer's side is that of `LinesAreWhole` (`ReadTo`, `ReadTakes`, `ReadAll`). `KeptOf` says what the
  collector keeps of a text: all of it, or a proper beginning that is marked as cut; `Clipped` and `FrameKept` show that
  `clip` gives that of one frame (the bytes of two texts add up, `ByteLengthJoined`), `Collects` of all. `InTouch`: until
  the loop ends the output is `KeptOf` what the demuxer has told, and there is a rest that with the wire makes up the frames
  that were sent: none while the connection lasts, anything once it is lost (`LostKeeps`). So `FollowedEnds` has everything read at the
  end of an output (`link.ended`, after the last write), and a beginning, perhaps with the mark of half a character (`StartsLike`,
  `CutOfJoined`), at the end of a lost connection; a run that was stopped has a beginning too (`FollowedSound`). `ProcessInv` orders the process behind its request, and a result is kept because a process that
  is over stays so (`ResultLasts`). `FollowedEnds` is where the half character comes from: `TextGrows` says that one at the end
  of the text stands for at least one character more, so the mark that is cut off still makes the output shorter.
* **SeedsAreTrue.** `SeedInv`, with the invariant of `ResultsAgree`: over an open connection what the daemon received and what
  the socket has yet to take make up the request and, once it is queued, stdin (`Sending`, carried through each piece by
  `FlushSeeds`), and the write side is closed when nothing is left. So a process that went on behind the end of stdin has read
  a beginning of it, and all of it when that end was sent (`Fed`, `PartBehindRequest`). The exit code is asked for behind the end of
  the output (`CodeSeeds`), which an open connection brings only after the end of stdin, and a lost one at any time: that is the
  exception the property makes. `Settled`: a run that is over has a result or
  an error, so the answer is about it. `SeedsAssumption` says that a seed has a text, which may be empty.
* **FileIsCleaned.** `DashInv`: the file, if there is one, names a process that has served on that port
  and, while nobody was killed, one that has yet to look at the file on its way out (`FileOwned`). So
  when all have ended by themselves there is no file.
* **RunningIsFound.** `SearchTrue`: the history `settled[p]`, the dashboards that served and were
  named by the file during the whole search of `p`, are still there; once `p` has read the file it holds their port,
  and that port has them as its listener (`Serves`), so they answer.
* **OpeningIsSafe.** `AttemptsPaid`: each attempt that was lost met migrations which another process
  applied since, and those leave the schema at a set that some binary ships; so an opening has made at most one
  attempt more than there are sets up to the schema. `LegacyHeld`: whoever comes to rename `state.json` has
  seen rows, or the file holds none. `FewBinaries` says there are fewer distinct sets than attempts, and is needed: with as many
  binaries as `MIGRATION_ATTEMPTS` (3) an opening can lose every race and give up. Two versions
  at a time, the old and the new binary of an upgrade, satisfy it. A legacy file
  without projects and pins is set aside without an import, since there is nothing to import.
* **OnlyAsAgreedHolds.** `Consent`: nothing is planned between the
  answer and the run. `StartPlanUnattended`, a lemma about the planner for every machine, says what a plan of kind
  start can hold; the operation checks the kind of its own plan, whatever the click saw.
* **HostIsObeyed.** `PlanObeys`, a lemma about the planner for every machine, report and request: with
  `DOCKER_HOST` set to something the system may run, no command of a plan is of another runtime. `HostInv` carries
  it from the planning to the command. `HostFits` leaves out what `setup_host` finds: a Linux machine
  whose `DOCKER_HOST` names the socket of a Colima or OrbStack.

* **FormsAreTrue.** The two forms share no variable, so the theorem is about `FormSpec /\ ImportSpec`. `FormInv`: an
  operation carries `ToAddBody` of what its form showed, with a port that is a number, wherever its state has
  moved; `WritesAsShown` then completes the entry again with the defaults of the very name it was sent under. `EditorHolds`
  inverts `EntryToYaml` by cases on what it leaves out. `ReviewInv`: the review of an open dialog has
  the key of what was parsed last, although previews arrive for other steps. `SentInv`: the file of a
  written import stays, so a GET that does not fail can only miss a name or a folder taken since, and what is opened was found. The one assumption is that the port
  range is one of numbers (`FormAssumption`).

Where a proof needed it, the model was made more exact: an answer in
`SnapshotRequests` now removes the head of the lane only if it is its own;
`OpeningSafe` says what happens to an empty legacy file; `StatusTold` no longer leaves out paused
containers and ports bound by another service's container, since a change now counts as a move of whoever has that port; in `ImportDialog` an import whose name was meanwhile created in its own folder goes on (`claimProjectName` takes the claim as its own); `ResultAgrees` said that stdout with an exit code is whole, which the proof showed to be false of
the code when the output ends inside a character and the cap is full: the mark that stands for the half is added after the loop, where
an overflow stops nothing, so the result has its exit code and is marked as cut (the seed with a cap of three bytes in `MCDocker`);
several assumptions that the code's types
give were not written down (`Nobody` is no process, `Nothing` no status, `Watched` finite, `Overlay` no page).

Only model-checked, and why:

* *Liveness* (`EverySettles`, `Converges`, `PictureConverges`, `EveryCallSettles`, `ReturnsInTime`):
  TLAPS proves no liveness under fairness here.
* *Induction over data* (`AnswerTrue`): what the readers of CSV and of a Redis reply make of a text that was cut is
  not proved; `ResultsAgree` proves the text they are given. `PlansSound`'s order rests on a recursive function over the stack.
* *Filters of sequences* (`PreviewImportable`, `EditsHarmless`): they are written with `SelectSeq`
  and folds of the community modules, whose definitions the provers cannot expand.
* *More than two processes* for `UpdatesSerial`: false, see section 8.
* *`FollowedTruly`* without its assumption: it is false once an operation has more events than the registry buffers.
* *Not yet proved*: `Heals`.

## 8 Findings

Each is a violation run whose property quotes what the repository says.

* `status_join`: the error of a failing load is announced once per code, not once
  per listener, so a later subscriber may get neither a snapshot nor an error.
* `registry_down`: an unregistered name passes the owner check, so `down --volumes`
  from another folder of the same name deletes the volumes that `unregister` left.
* `secret_race`: taking an abandoned lock over renames whatever is there by then,
  possibly a live lock; with a third process two updates run at once. With two
  processes the link that puts it back always succeeds, which is what
  `TwoProcessesExclusive` proves.
* `setup_host`: on Linux, a `DOCKER_HOST` that names the socket of an installed
  Colima leads to a plan that installs Docker Engine, which the locator never looks at.

## 9 What the models show beside the properties

**Roads by which data and password part.** `PasswordKept` says that no undisturbed
operation parts the data of a service from its stored password, whichever of its
steps fails, except along the roads it names. They are in the code, and the model
takes every one of them:

* another process between two steps (`~alone`): a terminal's `up` between the wipe
  and the new value of a rotation initialises the volume with the old password;
* an import over volumes that an unregistered project left;
* a restore, between the data and the secrets of the snapshot: its next step mends
  it, unless that step fails;
* a service that its file calls ephemeral, whose volume is still there: a rotation
  does not wipe it, and an update makes it a volume service again;
* a snapshot that starts the service again from a project rendered with another
  secret, after an operation that failed before rendering.

`PasswordFits` (stored and baked password agree whenever nothing is going on) is
therefore false; it is defined in the module for that discussion and no run claims it.

**Retention.** `prune` evicts by capacity whatever the age (`op-registry.ts:385`), while
`docs/api.md:450` promises replay for a time; a follower of an evicted operation still gets its end.

**Status.** A paused container, and one that starts between list and probe, is shown
in conflict with its own port until the next load; an unhealthy service that runs is
offered "Start". `StatusTold` says that of the paused one, and counts the other among those that moved.

**Helper containers.** A failure inside `find -exec` does not reach the exit status
(`volume-archiver.ts:52`, `:53`): a restore is told as done although files that `rm` could not delete are
still there beside the archived ones; after the process died, its helper and that of the next
call share one staging folder; a partial archive is never swept; the retry of a restore that failed
half way clears what was staged. `VolumesSafe` names what remains possible.

**Snapshots.** A snapshot is labelled with type and version of the stack file at its
end (`create-snapshot.op.ts:139`), not of the data it copied. A server that dies
while a restore replaces the data leaves the volume without label.

**Config page.** The proposed name and a port that is not a number do not survive the
YAML editor; an invalid draft stays while Add sends the form as it was; a refusal is
attached to a field edited meanwhile (`config-page.tsx:127`); "Use N" may offer the port that
was just refused; `waitForService` is content with another tab's service of the name.

**Stack files.** `updateStackFile` reads and writes in two awaits (`writer.ts:271`, `:293`), and so does
`writeLinkedEnvFile` (`link-file.ts:27`, `:45`): what the user saves between them is overwritten. `EditsHarmless`
compares with what was read last, and the run has such saves.

**Commands in a container.** A connection with stdin that closes early ends its output without an error
(`hijack.ts:383`): the exit code is asked for, and a part of the output is a result with exit code 0 and
`truncated: false`, or a seed of which only a part was read is told as done; a row at the end may be
half of one. With an error the run throws `DOCKER_UNREACHABLE`, and `UNKNOWN` where fetch carries the output
(`container-exec.ts:222`), or where a stop cuts the answer that has the id of the exec. `exec.port.ts:4` calls the deadline hard; it does not stop
the search for the socket nor GET /version (`unix-socket-transport.ts:67`, `:124`), a connection in the making
(`hijack.ts:328`) or the poll of the exit code (`container-exec.ts:319`), so a daemon that accepts and never answers holds
a run beyond it. An abort while the connection is made finds nothing to close: the request goes out
afterwards, and the process may start behind the kill.

**Query results.** A row wider than the header is cut and a narrower one filled up, and neither is called truncated
(`fit`; `data-tab.test.ts:250` has such rows). Records that all look like command tags are shown as tags, header and all, also when
they are the rows of a table; what is then beyond the limit the server cuts. `RowsTrue` follows both.

**Import dialog.** A failed GET after an accepted import leaves the page where it is, with a toast. A preview that arrives after the dialog closed is shown when it
opens again; two reads race; previews of one key stand for each other; an accepted
import closes whatever the dialog shows by then; a folder taken by another import is reported at the name.

**Following.** `trackOp` gives up after five minutes whatever the operation does.
`FollowedTruly` needs `Buffer >= Emits`: beyond 2000 events a replay starts late, and
an operation that succeeded may be shown as lost.

## 10 Not modelled

`PROJECT.json` gives the reason for each component. In groups:

* **Presentation**: pages of the dashboard that only show what they are sent, its
  mock worker, command-line arguments and output, HTTP routing and schemas beyond the checks
  that the modules name.
* **Packaging**: build scripts, release, website.
* **Content**: the definitions of the catalog, as data. The rules they must satisfy are in `Catalog`.

Within the modelled components: services with several volumes or several baked
secrets, and several services at once, in `ServiceData`; owner records that cannot
be read and the age limit `staleMs` in `FileLock`; the SQL of the tables; the
wording of events; time other than the order of deadlines; the send status of status, stats
and operation messages, which the code ignores (the models deliver every message of an open connection); that
`AbortController` closes what it is given.

Hazards that no property covers are in `PROJECT.json` with their reason.

## 11 Plan

Done: all modules of section 2, with the proofs of section 7.

Next, most important first:

1. **Setup**: prove `Heals`, from a lemma per plan (what each step does to the
   facts that doctor reads).
2. Abstract specifications next to `ProjectLane`: a mutex between processes for `FileLock` (two
   processes implement it), a register with atomic updates for the two stores, a
   numbered stream for `LogStream` and `OpRegistry`.

## 12 How to run

In this directory, with the TLA+ tools, the community modules and TLAPS 1.4.5:

    tlasany OpRegistry.tla
    tlc -workers 2 -config MCOpRegistry.cfg MCOpRegistry
    tlapm OpRegistryProofs.tla

`PROJECT.json` lists each run with its module, configuration and properties. The longest runs
take three to four minutes; the longest proof, `ServiceProofs`, about a quarter of an hour.
