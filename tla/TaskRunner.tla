----------------------------- MODULE TaskRunner -----------------------------
(***************************************************************************)
(* The daemon's task execution core: the per-task scheduler loops and the  *)
(* manual triggers of the HTTP API, which all go through TaskRunner::run;  *)
(* its in-memory overlap guard `running`; the task_runs history in SQLite; *)
(* and the life of the process (start, graceful shutdown, crash).          *)
(*                                                                         *)
(* A call of run() is split at the points where another caller, a failing  *)
(* store call or a crash can come in between.  The guard is volatile, the  *)
(* history persistent; the hazards are in how the two drift apart.         *)
(***************************************************************************)
EXTENDS Naturals, Sequences, FiniteSets

CONSTANTS
  Task,         \* task ids, one per entry of build_all()
  Scheduled,    \* the tasks whose schedule is not Disabled: these have a loop
  Manual,       \* slots for concurrent POST /api/runs/trigger requests
  NoTask,       \* the task of a caller at rest
  MaxRuns,      \* bound: rows handed out by start_run
  MaxFaults,    \* bound: store calls that return an error
  MaxRestarts   \* bound: crashes and shutdowns

ASSUME RunnerAssumption ==
  /\ Scheduled \subseteq Task
  /\ Task \cap Manual = {}
  /\ NoTask \notin Task
  /\ MaxRuns \in Nat /\ MaxFaults \in Nat /\ MaxRestarts \in Nat

VARIABLES
  daemon,    \* "up", "draining" (cancel token set) or "down"
  running,   \* TaskRunner::running, the guard set
  caller,    \* what each scheduler loop and each trigger is doing in run()
  rows,      \* task_runs; the AUTOINCREMENT id is the position
  faults,    \* store errors so far (bounds the model)
  restarts   \* process deaths so far (bounds the model)

vars == <<daemon, running, caller, rows, faults, restarts>>

-----------------------------------------------------------------------------
Caller == Scheduled \cup Manual

PC == {"idle",     \* sleeping until the next fire / no request
       "enter",    \* in run(), before the guard is taken
       "overlap",  \* the guard was held by someone else
       "skip",     \* the overlap row exists, to be marked skipped
       "start",    \* guard taken, no row yet
       "body",     \* inside Task::run
       "release",  \* the body returned, the guard is still held
       "report",   \* guard released, the row is still 'running'
       "exited"}   \* a loop that saw the cancel token

Outcome == {"none", "Done", "Noop", "Err"}

Terminal == {"success", "failed", "skipped"}

Row == [task: Task, trigger: {"scheduled", "manual"},
        status: Terminal \cup {"running", "deleted"},
        error: {"none", "overlap", "orphaned", "message"}]

Rest == [pc |-> "idle", task |-> NoTask, id |-> 0, out |-> "none"]

\* A run of t that has just been launched.
Launched(t) == [pc |-> "enter", task |-> t, id |-> 0, out |-> "none"]

TriggerOf(c) == IF c \in Manual THEN "manual" ELSE "scheduled"

\* The callers between taking the guard and giving it back.
Holding(c) == caller[c].pc \in {"start", "body", "release"}

\* The callers that own a row which still says 'running'.
Owns(c) == caller[c].pc \in {"skip", "body", "release", "report"}

\* Callers that have yet to ask the store for a row.
Rowless == {c \in Caller : caller[c].pc \in {"enter", "overlap", "start"}}

Goto(c, pc) == caller' = [caller EXCEPT ![c].pc = pc]

\* run() returned: the loop sleeps again, the trigger is over.
Return(c) == caller' = [caller EXCEPT ![c] = Rest]

\* start_run: INSERT with status 'running', id from AUTOINCREMENT.
StartRun(c) ==
  rows' = Append(rows, [task |-> caller[c].task, trigger |-> TriggerOf(c),
                        status |-> "running", error |-> "none"])

\* finish_run: UPDATE by id.
FinishRun(id, status, error) ==
  rows' = [rows EXCEPT ![id].status = status, ![id].error = error]

\* delete_run: the log entries, then the row.  AUTOINCREMENT never reuses the id.
DeleteRun(id) == rows' = [rows EXCEPT ![id].status = "deleted"]

\* A store call returned an error, which `?` passes on.
StoreFault == faults < MaxFaults /\ faults' = faults + 1

-----------------------------------------------------------------------------
Init ==
  /\ daemon = "up"
  /\ running = {}
  /\ caller = [c \in Caller |-> Rest]
  /\ rows = <<>>
  /\ faults = 0
  /\ restarts = 0

CanStart == Len(rows) + Cardinality(Rowless) < MaxRuns

\* The sleep of t's loop is over; a sleep that ends together with the cancel
\* token may still win the loop's select.
Fire(t) ==
  /\ daemon # "down" /\ CanStart
  /\ caller[t].pc = "idle"
  /\ caller' = [caller EXCEPT ![t] = Launched(t)]
  /\ UNCHANGED <<daemon, running, rows, faults, restarts>>

\* POST /api/runs/trigger spawns a run of t, whether or not t has a loop; a
\* request in flight is served to its end during a shutdown.
Trigger(m, t) ==
  /\ daemon # "down" /\ CanStart
  /\ caller[m].pc = "idle"
  /\ caller' = [caller EXCEPT ![m] = Launched(t)]
  /\ UNCHANGED <<daemon, running, rows, faults, restarts>>

\* The check-and-insert on `running`, under its mutex.
Enter(c) ==
  /\ caller[c].pc = "enter"
  /\ \/ /\ caller[c].task \in running
        /\ Goto(c, "overlap")
        /\ UNCHANGED running
     \/ /\ caller[c].task \notin running
        /\ Goto(c, "start")
        /\ running' = running \cup {caller[c].task}
  /\ UNCHANGED <<daemon, rows, faults, restarts>>

\* Overlap branch: the row is created 'running' ...
OverlapStart(c) ==
  /\ caller[c].pc = "overlap"
  /\ StartRun(c)
  /\ caller' = [caller EXCEPT ![c].pc = "skip", ![c].id = Len(rows) + 1]
  /\ UNCHANGED <<daemon, running, faults, restarts>>

\* ... then logged and marked skipped with the error text "overlap".
OverlapFinish(c) ==
  /\ caller[c].pc = "skip"
  /\ FinishRun(caller[c].id, "skipped", "overlap")
  /\ Return(c)
  /\ UNCHANGED <<daemon, running, faults, restarts>>

\* A store error in the overlap branch: run() returns, a created row stays.
OverlapFault(c) ==
  /\ caller[c].pc \in {"overlap", "skip"}
  /\ StoreFault
  /\ Return(c)
  /\ UNCHANGED <<daemon, running, rows, restarts>>

\* Mutant of Start: the guard covers the check only, not the body.
StartUnguarded(c) ==
  /\ caller[c].pc = "start"
  /\ StartRun(c)
  /\ caller' = [caller EXCEPT ![c].pc = "body", ![c].id = Len(rows) + 1]
  /\ running' = running \ {caller[c].task}
  /\ UNCHANGED <<daemon, faults, restarts>>

\* start_run and the "Starting task" log entry; then Task::run begins.
Start(c) ==
  /\ caller[c].pc = "start"
  /\ StartRun(c)
  /\ caller' = [caller EXCEPT ![c].pc = "body", ![c].id = Len(rows) + 1]
  /\ UNCHANGED <<daemon, running, faults, restarts>>

\* Either of the two calls fails and `?` returns before the guard is released:
\* with start_run there is no row, with log_info the row stays 'running'.
StartFault(c) ==
  /\ caller[c].pc = "start"
  /\ StoreFault
  /\ StartRun(c) \/ UNCHANGED rows
  /\ Return(c)
  /\ UNCHANGED <<daemon, running, restarts>>

\* Task::run returns.
Body(c) ==
  /\ caller[c].pc = "body"
  /\ \E out \in Outcome \ {"none"} :
       caller' = [caller EXCEPT ![c].pc = "release", ![c].out = out]
  /\ UNCHANGED <<daemon, running, rows, faults, restarts>>

\* Mutant of Release: the entry is never removed.
ReleaseForgotten(c) ==
  /\ caller[c].pc = "release"
  /\ Goto(c, "report")
  /\ UNCHANGED <<daemon, running, rows, faults, restarts>>

\* The guard is released before the outcome is recorded.
Release(c) ==
  /\ caller[c].pc = "release"
  /\ running' = running \ {caller[c].task}
  /\ Goto(c, "report")
  /\ UNCHANGED <<daemon, rows, faults, restarts>>

\* The outcome is logged and recorded; a Noop nobody asked for is deleted.
Report(c) ==
  LET id == caller[c].id
      out == caller[c].out
  IN
  /\ caller[c].pc = "report"
  /\ \/ out = "Done" /\ FinishRun(id, "success", "none")
     \/ out = "Noop" /\ c \in Manual /\ FinishRun(id, "skipped", "none")
     \/ out = "Noop" /\ c \notin Manual /\ DeleteRun(id)
     \/ out = "Err" /\ FinishRun(id, "failed", "message")
  /\ Return(c)
  /\ UNCHANGED <<daemon, running, faults, restarts>>

\* The log call or the finish/delete fails: the row stays 'running'.
ReportFault(c) ==
  /\ caller[c].pc = "report"
  /\ StoreFault
  /\ Return(c)
  /\ UNCHANGED <<daemon, running, rows, restarts>>

-----------------------------------------------------------------------------
\* SIGTERM or ctrl-c: the cancel token is set.
Cancel ==
  /\ daemon = "up" /\ restarts < MaxRestarts
  /\ daemon' = "draining"
  /\ UNCHANGED <<running, caller, rows, faults, restarts>>

\* A sleeping loop takes the cancelled branch of its select.
LoopExit(t) ==
  /\ daemon = "draining"
  /\ caller[t].pc = "idle"
  /\ Goto(t, "exited")
  /\ UNCHANGED <<daemon, running, rows, faults, restarts>>

\* What the process loses when it ends.
Vanish ==
  /\ daemon' = "down"
  /\ restarts' = restarts + 1
  /\ running' = {}
  /\ caller' = [c \in Caller |-> Rest]
  /\ UNCHANGED <<rows, faults>>

\* Mutant of Stop: the loops are cancelled but not joined.
StopAtOnce == daemon = "draining" /\ Vanish

\* Scheduler::shutdown has joined every loop and main returns.  Triggered runs
\* are detached tasks nobody awaits: the runtime drops them where they are.
Stop ==
  /\ daemon = "draining"
  /\ \A t \in Scheduled : caller[t].pc = "exited"
  /\ Vanish

\* The process is killed, or the host goes down.
Crash ==
  /\ daemon # "down" /\ restarts < MaxRestarts
  /\ Vanish

\* Mutant of Orphaned: the sweep takes whatever is not a success or a failure.
OrphanedUnlessEnded(r) ==
  IF r.status \in {"success", "failed"}
    THEN r ELSE [r EXCEPT !.status = "failed", !.error = "orphaned"]

\* The supervisor starts the daemon; Store::open fails the orphaned rows.
Orphaned(r) ==
  IF r.status = "running" THEN [r EXCEPT !.status = "failed", !.error = "orphaned"]
                          ELSE r

\* Mutant of Open: the orphan sweep is left out.
OpenUnswept ==
  /\ daemon = "down" /\ daemon' = "up"
  /\ UNCHANGED <<running, caller, rows, faults, restarts>>

Open ==
  /\ daemon = "down"
  /\ daemon' = "up"
  /\ rows' = [i \in DOMAIN rows |-> Orphaned(rows[i])]
  /\ UNCHANGED <<running, caller, faults, restarts>>

-----------------------------------------------------------------------------
RunStep(c) ==
  \/ Enter(c) \/ OverlapStart(c) \/ OverlapFinish(c)
  \/ Start(c) \/ Body(c) \/ Release(c) \/ Report(c)

RunFault(c) == OverlapFault(c) \/ StartFault(c) \/ ReportFault(c)

Next ==
  \/ \E t \in Scheduled : Fire(t) \/ LoopExit(t)
  \/ \E m \in Manual, t \in Task : Trigger(m, t)
  \/ \E c \in Caller : RunStep(c) \/ RunFault(c)
  \/ Cancel \/ Stop \/ Crash \/ Open

Spec == Init /\ [][Next]_vars

\* Every call run() makes returns: store calls are local, and the task bodies
\* bound their external commands with timeouts (battlegroup_cli.rs, kubectl).
\* A loop that keeps coming back to its select takes the cancelled branch in
\* the end, and the supervisor restarts the daemon.  Fires, triggers, faults,
\* signals and crashes are never owed.
Fairness ==
  /\ \A c \in Caller : WF_vars(RunStep(c))
  /\ \A t \in Scheduled : SF_vars(LoopExit(t))
  /\ WF_vars(Stop) /\ WF_vars(Open)

FairSpec == Spec /\ Fairness

-----------------------------------------------------------------------------
TypeOK ==
  /\ daemon \in {"up", "draining", "down"}
  /\ running \subseteq Task
  /\ caller \in [Caller -> [pc: PC, task: Task \cup {NoTask}, id: Nat, out: Outcome]]
  /\ rows \in Seq(Row)
  /\ faults \in Nat /\ restarts \in Nat

\* A task's body is never executed by two callers at once, whatever store
\* errors, shutdowns and crashes have come before (runner.rs, the overlap guard).
MutualExclusion ==
  \A c, d \in Caller :
    Holding(c) /\ Holding(d) /\ caller[c].task = caller[d].task => c = d

\* Every task in the guard set is being executed by some caller, except for at
\* most one leaked entry per store error (the `?`s between insert and remove).
LeakedGuards == {t \in running : \A c \in Caller : ~(Holding(c) /\ caller[c].task = t)}
GuardAccounted == Cardinality(LeakedGuards) <= faults

\* While the daemon is up, every row that says 'running' belongs to exactly one
\* run in progress, except for at most one row per store error: neither a
\* shutdown nor a crash leaves one behind.
UnownedRows ==
  {i \in DOMAIN rows : /\ rows[i].status = "running"
                       /\ \A c \in Caller : ~(Owns(c) /\ caller[c].id = i)}
RowsAccounted ==
  /\ daemon # "down" => Cardinality(UnownedRows) <= faults
  /\ \A c, d \in Caller : Owns(c) /\ Owns(d) /\ caller[c].id = caller[d].id => c = d
  /\ \A c \in Caller : Owns(c) => /\ caller[c].id \in DOMAIN rows
                                  /\ rows[caller[c].id].status = "running"
                                  /\ rows[caller[c].id].task = caller[c].task

\* Once a row has a final status nothing rewrites or deletes it: not a late
\* report, not another run of the task, not the orphan sweep of a later start.
TerminalIsFinal ==
  [][\A i \in DOMAIN rows : rows[i].status \in Terminal => rows'[i] = rows[i]]_vars

\* The history is accurate: RowsAccounted in every state, TerminalIsFinal in
\* every step, through overlaps, store errors, shutdowns, deaths and sweeps.
HistoryHolds == []RowsAccounted /\ TerminalIsFinal

\* An operator's trigger always leaves a visible row (runner.rs, #9), and the
\* only skipped rows of a scheduled fire are overlaps.
HistoryShape ==
  \A i \in DOMAIN rows :
    /\ rows[i].trigger = "manual" => rows[i].status # "deleted"
    /\ rows[i].trigger = "scheduled" /\ rows[i].status = "skipped"
         => rows[i].error = "overlap"

\* A graceful shutdown waits for the scheduled runs: when it ends the process
\* and no store call has failed, the history holds no unfinished scheduled run,
\* so the next start has none to orphan (Scheduler::shutdown joins every loop).
ShutdownDrains ==
  [][Stop => \A i \in DOMAIN rows :
               rows[i].trigger = "scheduled" /\ rows[i].status = "running"
                 => faults > 0]_vars

\* A run is recorded as overlapping only while another caller is executing the
\* task: "{id} is still running; skipping overlapping run." (runner.rs:63).  After
\* an error of start_run or log_info it is recorded with nothing running.
Executed(t) == \E d \in Caller : Holding(d) /\ caller[d].task = t
TakesOverlap(c) == caller[c].pc = "enter" /\ caller'[c].pc = "overlap"
OverlapIsReal == [][\A c \in Caller : TakesOverlap(c) => Executed(caller[c].task)]_vars

\* Until a store call fails that is so: neither a restart nor the order in which
\* callers take, hold and give back the guard loses or keeps an entry.
OverlapNeedsFault ==
  [][\A c \in Caller : TakesOverlap(c) => Executed(caller[c].task) \/ faults > 0]_vars

\* The guard and the callers implement the abstract single-instance promise.
Active == {<<c, caller[c].task>> : c \in {d \in Caller : Holding(d)}}
Promise == INSTANCE SingleInstance WITH active <- Active
PromiseKept == Promise!Spec

\* As long as no store call fails, every row that says 'running' gets a final
\* status or is deleted, even if the daemon dies first.
IsRunning(i) == i \in DOMAIN rows /\ rows[i].status = "running"
RunsSettle == \A i \in 1..MaxRuns : IsRunning(i) ~> ~IsRunning(i) \/ faults > 0

\* A shutdown request always ends the process: no run blocks it.
ShutdownEnds == (daemon = "draining") ~> (daemon = "down")

\* Nothing hangs: rows that say 'running' are settled, and shutdowns end.
Settles == RunsSettle /\ ShutdownEnds
=============================================================================
