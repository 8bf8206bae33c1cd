# A verification project for the Dune server manager

The repository manages self-hosted Dune battlegroups: a desktop application, a
library that sets up and administers a host over SSH or Hyper-V, and a daemon
(`dune-server-service`) on the host that backs up, restarts and updates the
battlegroup, welcomes players and serves an HTTP API.  This directory holds TLA+
models of it, the TLC configurations that check them on small instances, and
proofs for TLAPS of what holds for every value of the constants.

    tlasany M.tla                                  parse a module
    tlc -workers 2 -config X.cfg M                 check a configuration
    tlapm M.tla                                    check the proofs of a module

`PROJECT.json` lists the components, the runs with their properties, for every
property a mutant of the model that it must reject, the source lines of every
definition, the hazards, the findings and the theorems.

Paths below are short: `service/` is `src/crates/dune-server-service/src/`,
`core/` is `src/crates/dune-manager-core/src/`, `tauri/` is
`src/app/src-tauri/src/`, `ui/` is `src/app/src/`.

## 1. The system

### 1.1 The daemon

| component | state | operations | called by, calls |
|---|---|---|---|
| scheduler and runner (`service/scheduler`) | overlap guard (memory), one loop per scheduled task, cancel token | `Scheduler::start`, `TaskRunner::run`, `shutdown` | loops and `POST /api/runs/trigger` call `run`; it calls the task bodies and the store |
| store (`service/store`, SQLite) | `task_runs`, logs, `pending_update`, `welcome_grants`, `welcome_grant_actions`, key-value config, admin history | one statement per call; `open` sweeps orphaned runs and defers an interrupted update | everything |
| update-check, update-apply (`service/tasks`) | the `pending_update` row | poll Steam and write the row; poll the row, back up, run the vendor update, clear or defer | meet only in the row |
| restart, restart-notice | `last_restart_time` | restart at a slot unless stopped or within the cooldown; broadcast before it | vendor CLI, kubectl, broker |
| welcome-package, welcome-message | the two ledgers | scan the accounts; grant items in Postgres, whisper through the broker | Postgres, broker, store |
| backup | the diagnosis its monitor caught | ownership check, vendor backup with a pod monitor, verification of the file | vendor CLI, kubectl, Postgres |
| cluster cache (`service/kubectl/cluster.rs`) | what was detected last, and when | look up, detect, store | tasks, handlers |
| broker client (`service/admin/mq.rs`) | two script files in the broker pod | write, evaluate, remove, all in one process of the pod | handlers, restart-notice, welcome-message |
| game database client (`service/postgres`) | none of its own | grants to offline players, the package transaction, lookups | handlers, welcome tasks |
| HTTP API (`service/http`) | none | runs, triggers, configuration, prune of dumps, players, grants, whispers | desktop application |
| process (`main.rs`, `config.rs`, `logger.rs`) | the configuration it started with | start, signals, graceful shutdown | systemd, OpenRC |

### 1.2 The core library

| component | state | operations |
|---|---|---|
| instance management | the BattleGroup resource (Kubernetes), two ini files | set the number of instances of a map, set and clear display names |
| experimental swap | the same resource, a swap file | memory profile, swap on and off |
| battlegroup management, kubernetes, wrapper | `spec.stop` of the BattleGroup | start, stop, restart, update; polling waits |
| Hyper-V setup | VMs, the import folder | import, replace, configure, wait for an address |
| guest bootstrap, vendor script, Ubuntu setup | the guest: package, images, cluster, world | a fixed sequence of remote phases |
| vendor setup driver | which prompts were answered | watch the output of the vendor script and answer its prompts |
| SSH runner and tunnels | an SSH session, a listener, connections | forward a local port, reconnect on demand, stop |
| flows, toolchain, CLI, database, security, validation | none | tables, parsing, quoting |

### 1.3 The desktop application

| component | state | operations |
|---|---|---|
| tunnel commands (`tauri/commands/tunnel.rs`, `state.rs`) | registry of tunnels | start, status, stop, stop all |
| management service commands | the service on the host | install, restart, status, uninstall |
| battlegroup commands | none | the vendor's command line, and what it reports |
| other commands | none | one or two remote calls each |
| log file | file, size | append, rotate |
| hooks (`ui/hooks`, `ui/components/management/use*.ts`) | server list (localStorage), statuses, busy marks, tunnels | asynchronous handlers that run side by side |
| components | forms | rendering |

### 1.4 What is hard

* **Interleaving**: loops, manual triggers and API handlers run on one tokio
  runtime; two administrators use the command line; asynchronous handlers of the
  user interface overlap.  State is read before an await and used after it.
* **Two stores without a common transaction**: Postgres, the broker and
  Kubernetes on one side, SQLite on the other.  What happens between the two
  writes decides whether a player gets a package twice or an update is repeated.
* **Handlers that are dropped**: the application gives up after five seconds, and
  the daemon drops the handler at the await it has reached; what it started in a
  pod or in the database goes on.
* **Crash and restart**: the overlap guard is in memory, the history on disk.
* **Time**: loops sleep on a steady clock until a wall clock instant; players are
  told times in advance; what the cluster reports follows it after a while.
* **External commands** that time out or report an error after they took effect,
  or whose lost exit status is taken for success.
* **Long scripts** of steps, none of which is undone when a later one fails.

### 1.5 What makes each part correct

* Runner: one body per task at a time; every row is settled; final rows stay;
  a shutdown ends and drains.
* Update: no restart of the servers without a reason, none before the announced
  time but after a deferral that is not the row's own, the row is cleared only by
  success, every build gets live in the end.
* Restart: each slot served once and not forgotten; every restart announced, but
  where the operator's own notice stood in the way.
* Welcome: delivered before recorded, at most once unless something fails, and to
  everyone in the end.
* Instances: ids unique for ever, the server group as the database template, a
  command changes what it names and nothing else.
* Setup: what reports success is complete, and a failure leaves a state from which
  the same request can be repeated.
* Tunnels: what the user is shown is what runs; what nobody can stop does not run.
* Grants and publications: made as answered and as noted, nothing lost or doubled.
* Settings: what is said to be in force survives a restart; what was answered with
  ok is stored.
* Service: the servers are told what was asked for last; an error is explained by
  a dump that was there while its backup ran, its own if no other was; a
  running dump is not pruned; a profile fits every set.

## 2. The modules

| module | component | code it stands for |
|---|---|---|
| `SingleInstance` | what the runner promises (abstract) | |
| `TaskRunner` | runner, scheduler, run history, process | `scheduler/runner.rs`, `scheduler/mod.rs`, `store/runs.rs`, parts of `store/mod.rs`, `main.rs` |
| `UpdatePipeline` | update check and apply, `pending_update` | `tasks/update_*.rs`, `store/pending.rs`, `kubectl/steam.rs` |
| `Delivery` | what the welcome tasks promise (abstract) | |
| `WelcomeScan` | the scan both welcome tasks make (extended by the two below) | the same parts of `tasks/welcome_*.rs` |
| `WelcomePackage` | welcome package | `tasks/welcome_package.rs`, `store/welcome.rs`, `postgres/queries.rs` |
| `WelcomeMessage` | welcome whisper | the same files, `admin/mq.rs` |
| `RestartSchedule` | restart, notice, schedules | `tasks/restart*.rs`, `scheduler/schedule.rs` |
| `MapInstances` | map instances and display names | `core/orchestration/instance_management` |
| `HostSetup` | all that is done to a host before the daemon runs: composes the three below | |
| `GuestSetup` | the three ways from a guest to a world | guest bootstrap, `remote_setup.sh`, Ubuntu setup |
| `HyperVSetup` | the import before them (extends `GuestSetup`) | Hyper-V VM setup, initial setup |
| `ServiceInstall` | install, restart, remove the daemon | `tauri/commands/management_service.rs` |
| `Forwarder` | one forwarded port, its session and its connections | SSH tunnels of `core/` |
| `Tunnels` | the registry, its commands, the two hooks (extends `Forwarder`) | `tauri/commands/tunnel.rs`, the tunnel hooks |
| `AdminApi` | the administrator's requests: composes the four below | |
| `OfflineGrants` | currency, Intel and XP for offline players | `http/api_admin.rs`, `postgres/queries.rs` |
| `ClusterCache` | where the cluster is | `kubectl/cluster.rs` |
| `BrokerScripts` | commands and whispers (extends `ClusterCache`) | `admin/mq.rs`, `http/api_admin.rs` |
| `ConfigApi` | settings and the restart flag | `http/api_runs.rs`, `main.rs`, `store/mod.rs` |
| `Maintenance` | a battlegroup in service: composes the three below | |
| `Lifecycle` | stop, start, restart by daemon and operator, and what is shown | battlegroup management and wrapper, `kubectl/battlegroup_cli.rs`, `tasks/restart.rs`, status hooks |
| `BackupRun` | backup, monitor, diagnosis, prune | `tasks/backup.rs`, `kubectl/battlegroup_cli.rs`, `http/api_runs.rs` |
| `MemoryProfile` | memory profile and swap | experimental swap of `core/` |
| `MC*` | the instances for TLC: symmetry, sets of inputs | |
| `*Proofs` | the theorems about the module of that name; `WelcomeProofs` has those of `WelcomePackage` and `WelcomeMessage`, `MaintenanceProofs` also those of `UpdatePipeline` | |

`TaskRunner` justifies the others: since it admits one run of a task at a time,
`UpdatePipeline`, `RestartSchedule`, `Lifecycle`, `BackupRun` and the welcome
modules have each task as a single process.  It does not keep two tasks apart:
`backup` and `update-apply` both back up, so `BackupRun` has a process for each, and a
triggered run keeps the scheduled one of the same task out, which is why
`RestartSchedule` has triggered restarts and notices.  `WelcomePackage` and `WelcomeMessage`
both implement `Delivery`, `TaskRunner` implements `SingleInstance`.
`UpdatePipeline` composes its two tasks through the row they share,
`RestartSchedule` its two loops through the clocks, `HostSetup` the import, the
guest and the daemon in the order in which they are set up, `BrokerScripts` its
publishers through the cache and the file, `Tunnels` the commands through the
registry's mutex and the forwarders' sessions.

`AdminApi` and `Maintenance` join parts that share nothing one of them changes.
Their variable `about` makes a behaviour one of requests of one kind: a product
of independent parts has no behaviour that the parts do not have, and many times
their states.  The parts of `AdminApi` do share the daemon, so its end and start,
`DaemonRestart`, is one action on all of them.

### 2.1 TaskRunner

A call of `run()` is split where another caller, a failing store call or a death
of the process can come in between: `Enter` (the test and insert under the mutex),
`OverlapStart`/`OverlapFinish` (the row of a refused run), `Start` (`start_run`
and the log line before the body), `Body`, `Release` (the guard), `Report` (the
outcome into the row; a quiet scheduled skip deletes it).  `StartFault`,
`OverlapFault` and `ReportFault` are the `?` operators: a call fails at any of the
statements.  `Fire`, `Trigger`, `LoopExit`, `Cancel`, `Stop`, `Crash`, `Open` are
loops, handler and process.  `running` is lost when the process ends, `rows` is not.

### 2.2 UpdatePipeline

Builds are numbers.  `steam`, `installed`, `downloaded` and `live` are the public
build, the appmanifest, the content on disk and what the servers run; they move
apart and together as Steam publishes, the vendor script downloads, commits and
switches (three external steps, each of which may be the last), or the operator
updates by hand.  `pending` and `wait` are the row.  `CheckStart`, `CheckLatest`,
`CheckLocal` and `ApplyPoll` to `ApplyAnnounce` follow the awaits of the two bodies;
`ApplyFail` then `Defer` is the error path of `update_apply.rs`.  A run is not over
when it has cleared its row: it tells the players (`ApplyAnnounce`), and may fail then
(`deferNext`), when update-check has written another row.  `promise` counts down to
the time the players were told, and `dueBy` says whose run set the due time of the
row last; no action but the clock reads the one, none the other.

### 2.3 WelcomePackage and WelcomeMessage

`WelcomeScan` is what the two have in common: the list (`ListAccounts`, `ListDone`),
the next of it (`Take`), and the ends (`ScanLost`, `Die`).  The definitions of
`WelcomeMessage` that the package has too are named for it (`MessagePick`,
`MessageSpec`).  The scan takes a list of accounts and visits them one by one:
`Pick` (those the
ledger does not name), `Resolve`, then for the package `Insert` (the Postgres
transaction), `Log` and `Granted`, or `Failed`; for the whisper `Ensure` (the
action row), `Send`, `Published`, `Confirmed`.  `PackageError` and `AccountError`
are errors that the scan survives, `ScanError` those that end it; each may come
before or after the effect of the call that reports it.  `Retry` is the operator.

### 2.4 RestartSchedule

Two clocks: loops plan on `now` and sleep on `steady`; `Tick` moves both and lets
them differ by at most `MaxSkew`, `StepBack` is NTP moving `now` only.  `Slots` are
the instants of the cadence.  `Plan`, `Fire`, `Skip`, `Begin`, `Done`, `RunFail` are
the restart loop, `NoticePlan` and `NoticeFire` the notice loop, `ManualBegin` and
`ManualDone` the triggered restart, `TriggerNotice` and `TriggeredNoticeDone` the
triggered notice: while it is under way (`hand`) the loop's own is an overlap.
`began` is when the restart for the slot at hand began; `announced`, `displaced` and
`served` are history.  What takes less than a tick happens before
time passes, which is what `Tick` waits for; only a restart itself takes time.

### 2.5 MapInstances

A command reads the resource, computes a patch, applies it, and for the number of
instances writes two ini files: `SetInstances` or `SetDisplayName` (read and
compute), `Patch` or `PatchFails` (applied or not, with the reply lost or not),
`WriteIni` and `WriteIniFails` per file.  Between them another administrator may do
anything.  `Patched` is Kubernetes: a patch is atomic, refused when a path does not
resolve, and has no version test, so positions computed from an old read hit
whatever is there now.  A list of partitions is a set and whether it was in order,
which decides if the code rewrites it; pod specs and arguments are sequences,
because the patch addresses them by position.  `deployed`, `managed`, `asked` and
`raced` are history.

### 2.6 HostSetup

`HyperVSetup` is one action per step of the import (`RemoveExisting`,
`ClearDestination`, `ImportVm`, `ConfigureVm`, `StartVm`, `HasAddress`), the ways a
step refuses (`ExistingRefused`, `DestinationRefused`, `ClearBlocked`,
`AddressRefused`) and `HostFails` for any step.  A VM is found by its name, which
Hyper-V does not keep unique, and an imported VM is named by the package.

`GuestSetup` has the three sequences as sequences of phase names.  `Ready` says what
a script tests or needs, `Effect` what it leaves, `Torn` what a failure in its
middle may leave besides nothing and all of it.  A phase ends well (`Phase`), is
refused, fails, gives up SteamCMD and goes on (`GiveUp`), ignores `world.sh`
(`ManifestIgnored`), or its connection is cut and the missing exit status counts as
0 (`CutOff`).  `Attempt` repeats the whole sequence on what is there, with the plan
of before or a new one; `Publish` is Steam between any two phases.

`ServiceInstall` has the scripts of an installation, another window that restarts
or removes the service at any time, and the init system, which differs between
systemd and OpenRC in what a start does to a process that runs.  `HostSetup` puts
it behind the server (`HasAccount`): the installation looks for the account that
the setup made.

### 2.7 Tunnels

`Forwarder` is a listener, the session it shares among its connections
(`SessionProvider`, whose mutex is held over a reconnect) and a task per
connection; `stop()` is two steps, the listener and then the session, for which it
needs that mutex.  `Tunnels` adds the registry: a start looks up, connects, probes
the port and enters the forwarder in separate critical sections, a stop closes
inside one; every command is a worker of its own (`Works`), and its answer comes
back at any later time (`Deliver`).  The hooks are `ShowManagement` and
`LeaveManagement`, whose clean-up does not wait for the start, the button with its
busy mark, the removal of the server and the closing window.  Numbers of forwarders
are used again when nothing refers to them.

### 2.8 AdminApi

`OfflineGrants`: a handler opens a connection, reads and locks the player's row,
adds and commits; the application gives up after five seconds (`GiveUp`), which
drops the handler at its await (`Dropped`).  The game server is external and keeps
balances in memory: a careful one marks the player online before it loads them and
saves them before it takes the mark back, a careless one does not.

`ClusterCache`: hit, miss, detection outside the lock, `Keep` by whoever comes
last; clocks are counted as far as they make a difference.  `BrokerScripts`: the
publisher's awaits (`GetCluster`, `Exec`, `Answered`, `ExecTimesOut`) and, apart
from it, the script in the pod (`Truncate`, `Fill`, `ReadBack`, `Eval`, `Remove`),
which goes on when its publisher is dropped.  `ConfigApi`: `SetKey` validates and
writes key by key, a read compares key by key with what the daemon runs with, and
`ConfigRestart` is what `main.rs` makes of the rows.

### 2.9 Maintenance

`Lifecycle`: `spec.stop`, the servers that follow it and the phases that follow
them (`Settle`, `Report`); the task `restart` and the operator's command, each in
the halves of the vendor's stop and start; and the application's picture of it all:
refreshes of `useRemoteServerStatus`, each read and shown at different times.
`BackupRun`: the dumps of the cluster, each with its operation and its pod, asked for
by a run or by the operator (`OperatorDumps`); a run of `run_backup_and_verify` for
each of the tasks that call it, `backup` and `update-apply`, which may overlap, with
`Poll` of its monitor every two seconds and `Diagnose` when the vendor failed; and
beside them a prune request with a list that grows old.  `around` and `caught` are
history: the dumps that had a pod while the run was watching, and those it saw.
`MemoryProfile`: swap file, read, patch by position and
read-back of every set; `Operations` are the JSON patch the code computes,
`PatchedSets` is Kubernetes.

## 3. The runs

| run | instance | what it shows |
|---|---|---|
| `TaskRunner` | a loop and a manual trigger over one scheduled and one manual-only task, three rows, one store error, one shutdown or crash | `HistoryHolds` (a running row is the trace of a run in progress or of a store error; a final row stays), `ShutdownDrains`, `PromiseKept` (implements `SingleInstance`), `OverlapNeedsFault`, `Settles` (every row and every shutdown ends) |
| `UpdatePipeline` | three builds, two failures, two crashes, one manual update; lead 3, retry 2, orphan delay 1 | `NotBeforePromise` (but after a deferral by a former run or a restarted daemon), `RowTruthful` (cleared only by success, written only with a delta), `NoIdleUpdate`, `Settles` (every build gets live, and the pipeline rests) |
| `WelcomePackage` | two accounts, two faults, one crash, two retries | `DuplicateNeedsFault`, `PromiseKept` (implements `Delivery`), `EventuallyHandled` |
| `WelcomePackage_duplicate` | one fault, one retry | finding: `RetryIsSafe` is violated |
| `WelcomeMessage` | two accounts, two faults, two crashes | `RepeatNeedsFault`, `MessagePromiseKept`, `EventuallyGreeted` |
| `RestartSchedule` | slots 4, 10 (30 is beyond the bound), lead 3, cooldown 5, skew 1, one triggered notice, one failing call, one step of the clock, one crash | `OncePerSlot`, `NoSlotLost` (a slot is passed over only if it fell into the restart made for the one before), `Announced` (by the loop or the operator, unless his notice of another time displaced the loop's) |
| `MapInstances` | two administrators, four commands, three deployed resources, counts up to 3 | `InstancesSound` (ids and server group under all races and failures; who survives keeps his id), `NamesSound` (without a race names are as asked, and nothing else changes) |
| `HostSetup` | the three sequences, two package versions, two plans, two faults, four VMs, two builds of the daemon, two troubles of its installation | `WorldsAccounted`, `TagsRunnable`, `DoneMeansReady`, `MachinesWhole`, `VerifiedIsRunning`, `Recovers` |
| `Tunnels` | two forwarders, one connection, three commands at a time, three acts of the user, one outage | `NothingOrphaned`, `ScreenTruthful`, `CommandsAnswered` |
| `AdminApi` | two grants of two kinds, one login; two publishers, one or two channels, two clusters; two saves of up to three keys; one restart | `Conserved`, `GrantsAsAnswered`, `PublishedAsAsked`, `CacheBounded`, `RestartFlagTruthful`, `SavesHold` |
| `Maintenance` | two restarts, three commands, one fault; the backups of two tasks and of the operator, two dumps, one prune; two administrators, swap of 10 and 30 GiB, two lists of sets, three applies, one update | `WishHolds`, `ScreenFresh`, `DiagnosisKept`, `PruneSpares`, `ProfileHolds` |
| `Maintenance_ready` | one restart, nothing fails | finding: `RestartedMeansReady` is violated |

Each property of a passing run has a mutant of a modelled definition, a dropped
guard, a swapped order or a forgotten write, that TLC rejects with that property;
the mutants stand before the definitions they change.

### 3.1 The bounds, and why they are enough

* Two tasks and two callers: overlap needs two callers of one task, and that a
  leak of one task leaves another alone needs a second.  Three rows: a refused
  run, its cause and one more.  One store error and one death separate every pair
  of statements.
* Three builds: one live, one in the row, one published while the row is served.
  Lead 3, retry 2 and orphan delay 1 keep the order of the 30, 15 and 5 minutes in
  the code.
* Two slots and a far one that planning can look at; cooldown 5 > 4 · skew.  Ten
  ticks are two slots and a restart after either.  One triggered notice stands in
  the way of one scheduled one.
* Two accounts: an aborted scan leaves one behind.  Two faults: one delivers
  unrecorded, one follows the operator's retry.
* Two administrators are a race; four commands are a race with a command before
  and one after it.  The three resources are the vendor's, one with an override
  and other arguments, one out of order with gaps.
* Two faults of a setup: one leaves something half done, one meets the repetition
  of it.  Two versions: one published between two attempts, or in one.  Four
  machines: the one of before and three imports.
* Three commands at a time: a start, the stop that overtakes it and the status or
  start after it.  Two forwarders, as only two ids exist and a third start waits.
* Two grants, two publishers, two saves are a race each; a save of two keys is
  refused half way; two starts are one restart.
* Two restarts by the daemon and three commands of the operator interleave in
  halves with one before and one after.  Two dumps, of any of three origins: one's
  own and one that begins before, beside or after it, left over or not.  Each run
  may be repeated without bound.

`CHECK_DEADLOCK FALSE` stands where the bounds or the end of the inputs stop the
model (all rows handed out, all commands issued, time over); the two welcome
models never stop and are checked for deadlock.

### 3.2 Fairness, and why the code justifies it

* `TaskRunner`: weak fairness of every step of a call of `run()`, since store
  calls are local and every external command has a timeout
  (`kubectl/mod.rs:169`); strong fairness of `LoopExit`, because a loop that runs
  its body again and again comes back to a `select!` in which the cancelled token
  is ready; weak fairness of `Stop` and `Open`, since the supervisor restarts the
  daemon.  Fires, triggers, signals, errors and crashes are never owed.
* `UpdatePipeline`: time passes, both loops keep firing, the daemon is restarted.
  Steam, the operator and failures owe nothing.  Failures are bounded: the claim
  is that the pipeline recovers when they end.
* Welcome modules: the scan comes around.  Nothing else is owed.
* `HostSetup`: a step under way ends (`Step`), well or with an error, since the
  scripts and the waits are bounded and a silent connection is given up after a
  minute; and the administrator repeats what failed (`Again`).  Both are weak, and
  `Recovers` says of them that nothing left behind stands in the way for ever,
  but for one thing, which it names (see section 5).
* `Tunnels`: weak fairness of the commands and of the tasks of connections: every
  connect has a timeout, locks are held across nothing without one.  The user, the
  network and the clients owe nothing.
* `RestartSchedule`, `MapInstances`, `AdminApi` and `Maintenance` have safety
  properties only: their requests end by timeouts that the models have as steps
  which need not be taken.

## 4. The theorems

All are proved for every value of the constants; the assumptions named in the
modules say only that bounds are numbers, that marks are not members of the sets and
the sets not empty, and that what is deployed is of the kind the cluster takes.  The
type invariant of every module is proved too.

* `TaskRunnerProofs`.  `IInv` strengthens mutual exclusion: a caller inside `run`
  has a task (`TaskKnown`), a holder's task is in the guard (`GuardHeld`), and an
  open run owns a row of its own that says running.  Exclusion alone is not
  inductive: `Enter` tests the set and not the callers.  From it
  `MutualExclusionHolds`, `TerminalIsFinalHolds`, and `Refinement`: every step is
  a step of `SingleInstance` or leaves the executed pairs alone.
  `OverlapNeedsFaultHolds` needs the converse (`GuardExact`): without a failed
  store call every id in the guard has a holder.  `HistoryAccurate` counts: the
  running rows that nobody owns are finite and at most as many as store errors,
  with the library's theorems on cardinality (`AccountInv`).  `ShutdownDrainsAlways`
  uses it without errors: each open row then has an owner of its trigger, and a loop
  that has exited owns none.
* `WelcomeProofs`.  `Paid`, of either task: a delivery that no row
  tells of has cost a fault or a crash, and one that is about to be recorded is
  counted as recorded.  `DuplicateNeedsFaultHolds`, `RepeatNeedsFaultHolds`,
  `FailedRestsHolds`, and that both implement `Delivery` (`Refinement`).
* `RestartScheduleProofs`.  `LoopInv` and `NoticeInv` bound where a sleep ends
  relative to its slot, in the skew of the clocks.  `OncePerSlotHolds` if the
  cooldown exceeds four times the skew (two sleeps, each early or late);
  `NoSlotLostHolds` if slots are further apart than the skew lets a sleep reach:
  a plan is then for the first slot after the one before, unless a restart took time.
  `AnnouncedHolds` if slots are further apart than the lead time and the skew; a
  triggered notice under way is for the slot that the loop's would be for (`HandInv`),
  and what the loop leaves out is told by it or is in `displaced` (`Told`).  The last
  assumption is a real restriction: `restart_notice.rs:92-95` speaks of any cron, but a
  cron whose slots lie closer than the lead time has slots that are not announced.
* `HostSetupProofs`.  `MachinesWholeAlways`: between the removal and the import
  there is no machine of the name (`MachineInv`).  `WorldsAccountedAlways`: every
  repetition begins with the worlds it finds in `left`, and the vendor's manifest
  may be an old one until it is written (`WorldInv`, on the shape of the sequences,
  `SetupShape`).  `TagsRunnableAlways`: the images of the package are there from
  their import to the patch (`TagInv`).  `DoneMeansReadyAlways`: what each phase
  achieves, the later ones rely on and none of them undoes (`Achieved`).
  `VerifiedIsRunningAlways`: from the upload on a process is an old one that is
  known of, or runs the new file (`ServiceInv`).  `SetupTypeCorrect`: what a phase
  leaves, done or torn, is a host the next one can be run on; it needs the guards of
  `Ready`, without which a patch would name a world that does not exist.
* `AdminApiProofs`.  `ConservedAlways` and `GrantsAsAnsweredAlways`: whoever is
  about to add holds the row of a player who is offline, and a careful server has
  only balances of players who are online (`LockInv`); nothing is granted, answered
  or noted before a handler is over (`AnswersInv`).  `CacheBoundedAlways`: what a
  caller found is a cluster that went, if it went, while he detected.
  `PublishedAsAskedAlways`: a script that meets no other has its own text in the
  file at every step (`ScriptsInv`).  `SavesHoldAlways` and
  `RestartFlagTruthfulAlways`: a save and a read that meet no other have dealt with
  exactly the keys they have passed (`PassedInv`, `FlagInv`).  `NothingDoubledAlways`
  is what remains of `Conserved` with a careless game server: it may take grants back
  and adds none (`BalanceInv`; when the daemon ends at most one commit is on its way,
  `CutTakesOne`).  `AdminTypeCorrect` uses
  it: no balance exceeds the number of requests.
* `MaintenanceProofs`.  `WishHoldsAlways`: a restart past its check finds a
  battlegroup that was to run, or was overtaken (`WishInv`).  `ScreenFreshAlways`:
  one command or one refresh at a time until the host is attached again.
  `DiagnosisKeptAlways`: a monitor that watches has met every pod there is, its buffer
  is one it caught, and it caught nothing before it started (`MonitorInv`), for any
  number of tasks, dumps and requests.  `PruneSparesAlways`: no operation begins again,
  for what begins is new (`PruneInv`).
  `ProfileHoldsAlways`: a patch that is current is the one computed from the sets as
  they are, and that one, applied position by position, gives every set its profile.
  `MaintenanceTypeCorrect` rests on the same patches: what they write is a size
  (`PatchWritesMemory`), if the sets that are deployed carry sizes
  (`SetsAssumption` of `MemoryProfile`).
* `UpdatePipeline` (also in `MaintenanceProofs`).  `UpdateInv`: a check goes on only
  without a row, update-apply's copy is the row, and the order of what is published,
  downloaded and live follows the step it is at.  `ClearedOnlyIfLiveHolds`,
  `PromiseHolds` (with the relation of the due time to the announced one, by who set
  it last and whether the daemon has died, `PromiseInv`);
  `NoIdleUpdateHolds`, `RealDeltaHolds` and with it `RowTruthfulHolds` under
  `ManifestReadable`, which is needed (section 5).
* `TunnelsProofs`.  `TunnelInv`: a forwarder is in one hand, an entry's of the
  registry or a command's (`Owned`); a loop that runs has its owner (`Tracked`); what
  is about to be entered listens and what is being stopped does not (`Stopping`); and
  a session opened after the stop is that of a connection which had not asked yet
  (`SessionInv`).  From it `NothingOrphanedHolds`, for any number of forwarders,
  connections and commands.  `ScreenTruthfulHolds` needs what the hooks wait for
  (`Waits`) and, for each of the two tunnels, what a command that overlaps with no
  other has made of its entry so far (`ManagementInv`, `ButtonInv`).
* `MapInstancesProofs`.  `TypeInv`; `ListsInv`: every list that was read and is about
  to be written still fits what it will find there, since DeepDesert_1 is only ever
  cut to its lowest id (`Fits`, `Deep`); `PvpInv`: PvP is on for that one alone;
  `CurrentInv`: a patch that met no race is what its command would compute now;
  `SetsInv`: a change of the list carries the whole of the server group.  That no id
  is there twice is not inductive by itself: a list under way has to fit beside the
  other maps as they will be.  From these `InstancesAlwaysSound`, for any number of
  administrators, races, lost replies and half-written files, and, with `NamesInv`
  and lemmas on where an argument stands after an insertion or a removal,
  `NamesAlwaysSound`.  They assume `ConstantsFit`: what is deployed is what Kubernetes
  can hold (`Deployable`), and the mark for a missing value is none of the values
  (`NoneApart`, which speaks of infinite sets: TLC cannot evaluate it).

Only model-checked: liveness (`TaskRunner!Settles`, `UpdatePipeline!Settles`,
`EventuallyHandled`, `EventuallyGreeted`, `Recovers`, `CommandsAnswered`) is beyond
the provers, as is anything about ENABLED and induction over recursive data.  Every
safety property of a passing run is stated by a theorem.

## 5. Findings

Two disagreements of the code with its own text have a run:

* `WelcomePackage_duplicate`: a package that was given can be recorded as failed,
  and a failed one may be retried (`tasks/welcome_package.rs:558`).
* `Maintenance_ready`: the wait after a restart is said to be for servers that are
  ready, and ends on the phases reported before it (`kubectl/battlegroup_cli.rs:97`
  and `:115`).

Others were met while modelling; the definitions that state them are kept where
they are named, and show it if a configuration names them:

* An error of `start_run` or of the log line after it leaves the task in the
  overlap guard; every later run of the task is recorded as "still running" until
  the daemon is restarted (`scheduler/runner.rs:73`; `TaskRunner!OverlapIsReal`).
* What is logged as a deferral may bring the update forward (`store/mod.rs:272`;
  `UpdatePipeline!DeferralDefers`).
* A run of update-apply that fails after it has cleared its row, at the log line on
  the broadcast, defers the row that update-check may have written since: an update
  that was announced for half an hour later starts after a quarter
  (`tasks/update_apply.rs:53` and `:128`; `UpdatePipeline!PromiseKeptExactly`).
* A triggered notice of the operator's own time that is under way when the scheduled
  one is due makes that an overlap; the loop plans the next, and the restart comes
  unannounced (`scheduler/runner.rs:49`; `displaced` in `RestartSchedule`).
* Two tasks may back up at once, and the monitor of one tells dump pods by their name
  only: the error of one may be explained by the dump of the other
  (`tasks/backup.rs:104`; `DiagnosisKept` bounds whose it may be).
* With an unreadable manifest a row is written without a delta, again and again
  (`tasks/update_check.rs:63`; `RealDelta` without `ManifestReadable`).
* A clock stepped back over the last restart defeats the cooldown that is meant to
  guard against it (`tasks/restart.rs:30`; `RestartSchedule!StepsGuarded`).
* A restart whose vendor command dies between its halves leaves `spec.stop` set,
  and the next scheduled restarts find a stopped battlegroup and skip (`WishHolds`
  excepts faults).
* A guest whose leader election was bound by half, by a Kubernetes bootstrap that
  failed in its middle, is not mended by repeating the setup (`Recovers` excepts it).
* A request that does not name the VM as the package does adds a VM with every
  attempt and clears the folder under those of before (`MachinesWhole` excepts it).
* A frequency of 2^63 or more is stored, read back as nothing, and the next start
  goes back to the default (`http/api_runs.rs`; `RestartFlagTruthful` excepts it).
* Enabling swap below 30 GiB ends with an answer that says the profile is not
  applied, since the status compares with the profile of 30 GiB only.
* `wait_until_stopped` takes an error for zero servers; nothing calls it.

## 6. Not modelled, and why

The table of components in `PROJECT.json` says it for each.  In short: rendering,
parsing, wording and generated or static tables (the admin command catalogue, the
vendor flow descriptions) have no state worth checking; shell and PowerShell
scripts are external, seen through what their caller does with the result and what
they leave when they fail; DST gaps and cron syntax are chrono's; the log file and
the build are outside what the parts promise each other.

Abstractions a reader should know of:

* Log lines are left out except as statements that may fail; one package version;
  one BattleGroup; bodies of tasks in `TaskRunner` are one step.  Text of display
  names is an opaque value, told from other arguments as the code does by its prefix.
* A script whose connection was cut is done, undone or torn; that it goes on beside
  the next one is not modelled.
* `hyperv_lifecycle.rs` is one call per operation.  The answering of single prompts
  of the vendor's script is left out: a fixed script asks the same ones.
* Package versions are per host, not per server group.  The daemon's installation
  is looked at after setups without a fault only (`HasAccount`), since nothing of it
  depends on how the server came about.
* `detectRemoteServerDetails` may fall back to another server of the host, and the
  server list in localStorage is shared by windows: `Lifecycle` has one server.
* Two memory profiles whose patches cross are told by `mixed` and exempt from
  `ProfileHolds`: the code has no version test, and what comes out is a mixture.
* Where the code does go wrong when requests race, a clock is stepped back or a reply
  is lost, a property says what holds otherwise and its history variable or bound
  (`raced`, `mixed`, `crossed`, `overlap`, `overtaken`, `attached`, `steps`) marks the
  behaviours it does not speak of; the notes of the hazards in `PROJECT.json` name them.
* A panic of a task body, which ends its loop, and the switches that skip a welcome
  scan (`ScanGate`) are left out.

## 7. The plan

Done, in this order: the runner (everything else runs under it), the update
pipeline, the welcome tasks with their common abstract specification, the restart
schedule, the map instances; then the setup of hosts, the tunnels, the
administrator's requests and the maintenance of a battlegroup; and the proofs of
every safety property of all of them.

Left, by what it would add:

1. The server list and its statuses for several servers and windows.
2. `ScanGate`: the switches of the welcome scans, which read what `ConfigApi` writes
   beside a scan.
3. The choice of the live version among several image tags, compared as text
   (`kubectl/steam.rs:312`), and the two accounts a chat lookup may resolve to
   (`postgres/queries.rs:154`).
4. The prompts of the vendor's script as an automaton beside its driver, for scripts
   that change.
