--------------------------- MODULE UpdatePipeline ---------------------------
(***************************************************************************)
(* The automatic game update: update-check compares Steam's public build   *)
(* with the downloaded one and writes the single pending_update row;       *)
(* update-apply polls that row and, once it is due, backs up and hands the *)
(* host to the vendor's `battlegroup update`; the two only meet through    *)
(* the row, and a restarted daemon defers it when an apply was cut short.  *)
(*                                                                         *)
(* Builds and image versions are numbers that grow with each release; a    *)
(* build and the image version it ships have the same number.  Due times   *)
(* are counted down in ticks.  Both tasks run under the overlap guard of   *)
(* TaskRunner, so each is a single process here.                           *)
(***************************************************************************)
EXTENDS Naturals

CONSTANTS
  MaxBuild,          \* bound: the last build Steam publishes
  Lead,              \* update_lead_secs, in ticks
  Retry,             \* UPDATE_RETRY_DELAY_SECS, in ticks
  Orphan,            \* the 5 minutes of Store::open, in ticks
  ManifestReadable,  \* appmanifest and version.txt are where the config says
  MaxFailures,       \* bound: failing steps
  MaxCrashes,        \* bound: deaths of the daemon
  MaxManual          \* bound: `battlegroup update` runs by the operator

ASSUME UpdateAssumption ==
  /\ MaxBuild \in Nat \ {0}
  /\ Lead \in Nat /\ Retry \in Nat \ {0} /\ Orphan \in Nat
  /\ ManifestReadable \in BOOLEAN
  /\ MaxFailures \in Nat /\ MaxCrashes \in Nat /\ MaxManual \in Nat

VARIABLES
  steam,       \* the public build
  installed,   \* buildid of the appmanifest in the download directory
  downloaded,  \* images/battlegroup/version.txt
  live,        \* the image version the BattleGroup runs
  pending,     \* the pending_update row: latest_steam_build, None without a row
  wait,        \* ... and the ticks until its due_ts
  promise,     \* ticks until the time announced to the players
  dueBy,       \* "former" once the run that served the row before deferred this one
  check,       \* the step update-check is at
  latest,      \* ... and the build steamcmd reported to it
  apply,       \* the step update-apply is at
  target,      \* ... the build of the row it loaded
  seen,        \* ... and the live version it read
  daemon,      \* "up", "down", or "orphaned": down with a 'running' apply row
  failures, crashes, manual  \* how many so far (bounds)

host == <<steam, installed, downloaded, live>>
row == <<pending, wait, promise, dueBy>>
checkVars == <<check, latest>>
applyVars == <<apply, target, seen>>
bounds == <<failures, crashes, manual>>
vars == <<host, row, checkVars, applyVars, daemon, bounds>>

Build == 1..MaxBuild

\* No row, no build: also what an unreadable file yields.
None == 0
HasRow == pending # None

LocalBuild == IF ManifestReadable THEN installed ELSE None
DownloadedVersion == IF ManifestReadable THEN downloaded ELSE None

ApplySteps == {"idle", "poll", "live", "files", "backup", "download", "commit", "switch",
               "clear", "announce", "defer", "deferNext"}

TypeOK ==
  /\ {steam, installed, downloaded, live} \subseteq Build
  /\ {pending, latest, target, seen} \subseteq Build \cup {None}
  /\ wait \in Nat /\ promise \in 0..Lead /\ dueBy \in {"check", "former"}
  /\ check \in {"idle", "latest", "local"} /\ apply \in ApplySteps
  /\ daemon \in {"up", "down", "orphaned"}
  /\ failures \in 0..MaxFailures /\ crashes \in 0..MaxCrashes /\ manual \in 0..MaxManual

Init ==
  /\ steam = 1 /\ installed = 1 /\ downloaded = 1 /\ live = 1
  /\ pending = None /\ wait = 0 /\ promise = 0 /\ dueBy = "check"
  /\ check = "idle" /\ latest = None
  /\ apply = "idle" /\ target = None /\ seen = None
  /\ daemon = "up"
  /\ failures = 0 /\ crashes = 0 /\ manual = 0

-----------------------------------------------------------------------------
\* The world: Steam publishes, time passes, the operator updates by hand.

Publish ==
  /\ steam < MaxBuild
  /\ steam' = steam + 1
  /\ UNCHANGED <<installed, downloaded, live, row, checkVars, applyVars, daemon, bounds>>

\* The clock, as seen from a due time.
Down(n) == IF n > 0 THEN n - 1 ELSE 0

Tick ==
  /\ promise > 0 \/ wait > 0
  /\ wait' = Down(wait) /\ promise' = Down(promise)
  /\ UNCHANGED <<host, pending, dueBy, checkVars, applyVars, daemon, bounds>>

ManualUpdate ==
  /\ manual < MaxManual
  /\ manual' = manual + 1
  /\ installed' = steam /\ downloaded' = steam /\ live' = steam
  /\ UNCHANGED <<steam, row, checkVars, applyVars, daemon, failures, crashes>>

-----------------------------------------------------------------------------
\* update-check.

\* With a row there is nothing to do; the run is then over without effect.
CheckStart ==
  /\ daemon = "up" /\ check = "idle"
  /\ ~HasRow
  /\ check' = "latest"
  /\ UNCHANGED <<host, row, latest, applyVars, daemon, bounds>>

CheckLatest ==
  /\ check = "latest"
  /\ check' = "local" /\ latest' = steam
  /\ UNCHANGED <<host, row, applyVars, daemon, bounds>>

\* upsert_pending_update, with the due time that the broadcast announces.
UpsertPending(build) ==
  pending' = build /\ wait' = Lead /\ promise' = Lead /\ dueBy' = "check"

\* The local build is read after steamcmd answered; only an equal one stops
\* the check.
CheckLocal ==
  /\ check = "local"
  /\ check' = "idle"
  /\ \/ LocalBuild = latest /\ UNCHANGED row
     \/ /\ LocalBuild # latest
        /\ UpsertPending(latest)
  /\ UNCHANGED <<host, latest, applyVars, daemon, bounds>>

CanFail ==
  /\ failures < MaxFailures
  /\ failures' = failures + 1
  /\ UNCHANGED <<crashes, manual>>

\* Any await of the check may fail: nothing was written yet.
CheckFail ==
  /\ check # "idle" /\ CanFail
  /\ check' = "idle"
  /\ UNCHANGED <<host, row, latest, applyVars, daemon>>

-----------------------------------------------------------------------------
\* update-apply.

\* The minute tick: from here on the run has a 'running' row in task_runs.
ApplyPoll ==
  /\ daemon = "up" /\ apply = "idle"
  /\ apply' = "poll"
  /\ UNCHANGED <<host, row, checkVars, target, seen, daemon, bounds>>

\* Mutant of ApplyDue: the due time is not compared.
ApplyDueEarly ==
  /\ apply = "poll"
  /\ apply' = IF HasRow THEN "live" ELSE "idle"
  /\ target' = pending
  /\ UNCHANGED <<host, row, checkVars, seen, daemon, bounds>>

\* The row is loaded; the rest of the run works on this copy.
ApplyDue ==
  /\ apply = "poll"
  /\ apply' = IF HasRow /\ wait = 0 THEN "live" ELSE "idle"
  /\ target' = pending
  /\ UNCHANGED <<host, row, checkVars, seen, daemon, bounds>>

ApplyReadLive ==
  /\ apply = "live"
  /\ apply' = "files" /\ seen' = live
  /\ UNCHANGED <<host, row, checkVars, target, daemon, bounds>>

\* Mutant of AlreadyApplied: the historical guard, without its first condition.
AlreadyAppliedByVersion(local, wanted, liveVersion, version) ==
  liveVersion = version /\ version # None

\* Mutant of AlreadyApplied: a row is never taken for done.
AlreadyAppliedNever(local, wanted, liveVersion, version) == FALSE

\* update_already_applied: both files must be readable.
AlreadyApplied(local, wanted, liveVersion, version) ==
  /\ local # None /\ local = wanted
  /\ version # None /\ liveVersion = version

\* Clears the row of an update that is already live, or goes on to the
\* broadcast and the backup.
ApplyReadFiles ==
  /\ apply = "files"
  /\ \/ /\ AlreadyApplied(LocalBuild, target, seen, DownloadedVersion)
        /\ apply' = "idle" /\ pending' = None
     \/ /\ ~AlreadyApplied(LocalBuild, target, seen, DownloadedVersion)
        /\ apply' = "backup" /\ UNCHANGED pending
  /\ UNCHANGED <<host, wait, promise, dueBy, checkVars, target, seen, daemon, bounds>>

\* backup_one; it must succeed before the vendor flow is started.
ApplyBackup ==
  /\ apply = "backup"
  /\ apply' = "download"
  /\ UNCHANGED <<host, row, checkVars, target, seen, daemon, bounds>>

\* `battlegroup update`: the content arrives first, then the manifest says so,
\* then the servers are restarted on the new image.
VendorDownload ==
  /\ apply = "download"
  /\ apply' = "commit" /\ downloaded' = steam
  /\ UNCHANGED <<steam, installed, live, row, checkVars, target, seen, daemon, bounds>>

VendorCommit ==
  /\ apply = "commit"
  /\ apply' = "switch" /\ installed' = downloaded
  /\ UNCHANGED <<steam, downloaded, live, row, checkVars, target, seen, daemon, bounds>>

VendorSwitch ==
  /\ apply = "switch"
  /\ apply' = "clear" /\ live' = downloaded
  /\ UNCHANGED <<steam, installed, downloaded, row, checkVars, target, seen, daemon, bounds>>

\* The row is gone, but not the run: another may be written while it tells the
\* players.
ApplyClear ==
  /\ apply = "clear"
  /\ apply' = "announce" /\ pending' = None
  /\ UNCHANGED <<host, wait, promise, dueBy, checkVars, target, seen, daemon, bounds>>

ApplyAnnounce ==
  /\ apply = "announce"
  /\ apply' = "idle"
  /\ UNCHANGED <<host, row, checkVars, target, seen, daemon, bounds>>

\* A failing await, a vendor command that times out (its effects so far stay), a
\* failing clear, or a log line that cannot be written, the last one included.
ApplyFail ==
  /\ apply \notin {"idle", "poll", "defer", "deferNext"} /\ CanFail
  /\ apply' = IF apply = "announce" THEN "deferNext" ELSE "defer"
  /\ UNCHANGED <<host, row, checkVars, target, seen, daemon>>

\* Mutant of Defer: the failed row is dropped instead of deferred.
DeferDrops ==
  /\ apply \in {"defer", "deferNext"}
  /\ apply' = "idle" /\ pending' = None
  /\ UNCHANGED <<host, wait, promise, dueBy, checkVars, target, seen, daemon, bounds>>

\* defer_pending_update, of whatever row is there; its own error is ignored.
Defer ==
  /\ apply \in {"defer", "deferNext"}
  /\ apply' = "idle"
  /\ \/ /\ HasRow
        /\ wait' = Retry /\ dueBy' = IF apply = "deferNext" THEN "former" ELSE dueBy
        /\ UNCHANGED bounds
     \/ ~HasRow /\ UNCHANGED <<wait, dueBy, bounds>>
     \/ CanFail /\ UNCHANGED <<wait, dueBy>>
  /\ UNCHANGED <<host, pending, promise, checkVars, target, seen, daemon>>

-----------------------------------------------------------------------------
\* Death and restart of the daemon.

CanCrash ==
  /\ crashes < MaxCrashes
  /\ crashes' = crashes + 1
  /\ UNCHANGED <<failures, manual>>

Crash ==
  /\ daemon = "up" /\ CanCrash
  /\ daemon' = IF apply = "idle" THEN "down" ELSE "orphaned"
  /\ check' = "idle" /\ apply' = "idle"
  /\ UNCHANGED <<host, row, latest, target, seen>>

\* Store::open: the orphaned runs are counted and marked failed, then an
\* interrupted apply sets the row's due time, if there is a row.
Open ==
  /\ daemon # "up"
  /\ daemon' = "up"
  /\ wait' = IF daemon = "orphaned" /\ HasRow THEN Orphan ELSE wait
  /\ UNCHANGED <<host, pending, promise, dueBy, checkVars, applyVars, bounds>>

\* Death between marking the runs and deferring the row.
OpenDies ==
  /\ daemon = "orphaned" /\ CanCrash
  /\ daemon' = "down"
  /\ UNCHANGED <<host, row, checkVars, applyVars>>

-----------------------------------------------------------------------------
World == Publish \/ Tick \/ ManualUpdate
Check == CheckStart \/ CheckLatest \/ CheckLocal
Vendor == VendorDownload \/ VendorCommit \/ VendorSwitch
Apply == \/ ApplyPoll \/ ApplyDue \/ ApplyReadLive \/ ApplyReadFiles \/ ApplyBackup
         \/ Vendor \/ ApplyClear \/ ApplyAnnounce \/ Defer
Trouble == CheckFail \/ ApplyFail \/ Crash \/ OpenDies

Next == World \/ Check \/ Apply \/ Trouble \/ Open

Spec == Init /\ [][Next]_vars

\* The loops keep firing, awaits return, time passes and systemd restarts the
\* daemon; Steam, the operator, failures and crashes owe nothing.
FairSpec == Spec /\ WF_vars(Tick) /\ WF_vars(Check) /\ WF_vars(Apply) /\ WF_vars(Open)

-----------------------------------------------------------------------------
Updating == apply \in {"download", "commit", "switch"}

\* Players are told a time when the row is written, and no attempt starts the
\* vendor flow before it.  Two things bring it forward, and leave at least their
\* own delay of the warning: a run that fails when it has cleared its row defers
\* the one written since, and a restarted daemon defers whatever row it finds.
NotBeforePromise ==
  Updating /\ promise > 0 =>
    \/ dueBy = "former" /\ promise + Retry <= Lead
    \/ crashes > 0 /\ promise + Orphan <= Lead

\* Without a crash the announced time is kept to the tick.  It is not: see the
\* first of the two.
PromiseKeptExactly == crashes = 0 /\ Updating => promise = 0

\* The row disappears only when the servers run the build it names or a later
\* one, whatever failures, crashes and manual updates came before.
ClearedOnlyIfLive ==
  [][HasRow /\ ~HasRow' => live >= pending]_vars

\* As long as the operator leaves updating to the daemon, a retry after a
\* failure, or after a crash that hid a success, does not restart servers that
\* already run what both Steam and the row name.
NoIdleUpdate ==
  [][VendorDownload /\ manual = 0 => live < steam \/ target # steam]_vars

\* A restart after an interrupted apply puts the row off: it never brings
\* the due time forward.  It does when the apply only polled a row not yet due.
DeferralDefers == [][Open /\ HasRow => wait' >= wait]_vars

\* As long as the operator leaves updating to the daemon, a row is written only
\* when the servers are behind the build it names.
RealDelta ==
  [][~HasRow /\ HasRow' /\ manual = 0 => live < pending']_vars

\* The row tells the truth when it appears and when it goes: it is written on a
\* real delta (update_check.rs) and dropped only with its build live
\* (update_apply.rs), so that no error between the two calls loses an update.
RowTruthful == ClearedOnlyIfLive /\ RealDelta

\* Every published build, or a later one, ends up live.
EventuallyLive == \A b \in Build : steam >= b ~> live >= b

\* And then the pipeline rests: no row, no restart.
Quiesces == <>[](~HasRow)

\* Failures and crashes delay the pipeline, and none of them stalls it.
Settles == EventuallyLive /\ Quiesces
=============================================================================
