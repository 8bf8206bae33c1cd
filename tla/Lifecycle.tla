------------------------------ MODULE Lifecycle ------------------------------
(***************************************************************************)
(* Who stops and starts the servers of a battlegroup: the daemon's task    *)
(* `restart`, and the operator through the application.  Both run the      *)
(* vendor's `battlegroup`, and nothing but spec.stop is between them: the  *)
(* vendor's stop sets it, its start clears it, and its restart does one    *)
(* and then the other.  The operators of the cluster follow spec.stop, and *)
(* the phases they report follow the servers, each after a while.          *)
(*                                                                         *)
(* The application shows what it read last of one server; while it is busy *)
(* with it the buttons are off, but attaching the host again reads it all  *)
(* the same.                                                               *)
(***************************************************************************)
EXTENDS Naturals

CONSTANTS
  MaxRestarts,  \* bound: runs of the task
  MaxCommands,  \* bound: commands of the operator, one at a time
  MaxFaults     \* bound: failing calls, deaths of the daemon or its children

ASSUME LifecycleAssumption ==
  MaxRestarts \in Nat /\ MaxCommands \in Nat /\ MaxFaults \in Nat

VARIABLES
  stop,       \* spec.stop
  ready,      \* every server is ready
  reported,   \* phase and serverGroupPhase are among the started ones
  run,        \* the step of the task
  trigger,    \* ... and what started it
  command,    \* the step of the operator's command
  want,       \* ... and which it is
  fetch,      \* refreshRemoteServerStatus, twice: what each has read
  shown,      \* remoteServerStatuses: "old" if read before the last command took effect
  error,      \* remoteServerStatusErrors
  busy,       \* remoteServerBusy
  attached,   \* the host was attached again while busy
  wish,       \* what the operator had done last: "start" or "stop"
  overtaken,  \* ... while a scheduled restart was past its check
  restarts, commands, faults  \* how many so far (bounds)

cluster == <<stop, ready, reported>>
task == <<run, trigger, restarts>>
operator == <<command, want, commands>>
screen == <<fetch, shown, error, busy, attached>>
intent == <<wish, overtaken>>
lifecycleVars == <<cluster, task, operator, screen, intent, faults>>

Fetches == {1, 2}

LifecycleTypeOK ==
  /\ {stop, ready, reported, error, busy, attached, overtaken} \subseteq BOOLEAN
  /\ run \in {"idle", "check", "stop", "start", "wait"} /\ trigger \in {"scheduled", "manual"}
  /\ command \in {"idle", "look", "stop", "start", "update", "wait", "read", "show"}
  /\ want \in {"start", "stop", "restart", "update"}
  /\ fetch \in [Fetches -> {"off", "ask", "fresh", "old"}]
  /\ shown \in {"none", "fresh", "old"} /\ wish \in {"start", "stop"}
  /\ restarts \in 0..MaxRestarts /\ commands \in 0..MaxCommands /\ faults \in 0..MaxFaults

LifecycleInit ==
  /\ stop = FALSE /\ ready = TRUE /\ reported = TRUE
  /\ run = "idle" /\ trigger = "scheduled" /\ restarts = 0
  /\ command = "idle" /\ want = "stop" /\ commands = 0
  /\ fetch = [f \in Fetches |-> "off"]
  /\ shown = "none" /\ error = FALSE /\ busy = FALSE /\ attached = FALSE
  /\ wish = "start" /\ overtaken = FALSE /\ faults = 0

Fault == faults < MaxFaults /\ faults' = faults + 1

-----------------------------------------------------------------------------
\* The cluster follows spec.stop.

Settle ==
  /\ ready = stop
  /\ ready' = ~stop
  /\ UNCHANGED <<stop, reported, task, operator, screen, intent, faults>>

Report ==
  /\ reported # ready
  /\ reported' = ready
  /\ UNCHANGED <<stop, ready, task, operator, screen, intent, faults>>

-----------------------------------------------------------------------------
\* The task `restart`; the overlap guard lets one run at a time.

RestartFires ==
  /\ run = "idle" /\ restarts < MaxRestarts
  /\ run' = "check" /\ trigger' \in {"scheduled", "manual"} /\ restarts' = restarts + 1
  /\ UNCHANGED <<cluster, operator, screen, intent, faults>>

\* A scheduled run leaves a stopped battlegroup alone, or one restarted lately.
RestartSkips ==
  /\ run = "check" /\ trigger = "scheduled"
  /\ run' = "idle"
  /\ UNCHANGED <<cluster, trigger, restarts, operator, screen, intent, faults>>

\* Mutant of RestartGoes: the phases are asked whether it is stopped.
RestartGoesByPhase ==
  /\ run = "check"
  /\ \/ (trigger = "scheduled" => reported) /\ UNCHANGED faults
     \/ trigger = "scheduled" /\ Fault
  /\ run' = "stop"
  /\ UNCHANGED <<cluster, trigger, restarts, operator, screen, intent>>

\* spec.stop that cannot be read counts as not stopped.
RestartGoes ==
  /\ run = "check"
  /\ \/ (trigger = "scheduled" => ~stop) /\ UNCHANGED faults
     \/ trigger = "scheduled" /\ Fault
  /\ run' = "stop"
  /\ UNCHANGED <<cluster, trigger, restarts, operator, screen, intent>>

\* `battlegroup restart`, first half.
RestartStops ==
  /\ run = "stop"
  /\ run' = "start" /\ stop' = TRUE
  /\ UNCHANGED <<ready, reported, trigger, restarts, operator, screen, intent, faults>>

\* ... and second; the operator meant this one if he triggered it.
RestartStarts ==
  /\ run = "start"
  /\ run' = "wait" /\ stop' = FALSE
  /\ IF trigger = "manual" THEN wish' = "start" /\ overtaken' = FALSE ELSE UNCHANGED intent
  /\ UNCHANGED <<ready, reported, trigger, restarts, operator, screen, faults>>

\* wait_until_running: the phases decide, neither the servers nor spec.stop do.
RestartDone ==
  /\ run = "wait" /\ reported
  /\ run' = "idle"
  /\ UNCHANGED <<cluster, trigger, restarts, operator, screen, intent, faults>>

\* It waited 1200 s.
RestartGivesUp ==
  /\ run = "wait" /\ ~reported
  /\ run' = "idle"
  /\ UNCHANGED <<cluster, trigger, restarts, operator, screen, intent, faults>>

\* A call fails, or its child is killed: at its timeout, or with the daemon.
RestartFails ==
  /\ run # "idle" /\ Fault
  /\ run' = "idle"
  /\ UNCHANGED <<cluster, trigger, restarts, operator, screen, intent>>

-----------------------------------------------------------------------------
\* The operator's commands: runRemoteBattlegroupAction and what it calls.

Started == ~stop /\ reported

\* What was read before a command took effect is old from then on.
Age ==
  /\ fetch' = [f \in Fetches |-> IF fetch[f] = "fresh" THEN "old" ELSE fetch[f]]
  /\ shown' = IF shown = "fresh" THEN "old" ELSE shown
  /\ UNCHANGED <<error, busy, attached>>

FirstStep(w) ==
  IF w \in {"start", "stop"} THEN "look" ELSE IF w = "restart" THEN "stop" ELSE w

PressCommand ==
  /\ command = "idle" /\ ~busy /\ commands < MaxCommands
  /\ commands' = commands + 1
  /\ want' \in {"start", "stop", "restart", "update"} /\ command' = FirstStep(want')
  /\ busy' = TRUE
  /\ UNCHANGED <<cluster, task, fetch, shown, error, attached, intent, faults>>

\* The command's end: an error does not take back what is shown.
Reject ==
  /\ command' = "idle" /\ error' = TRUE /\ busy' = FALSE
  /\ UNCHANGED <<want, commands, fetch, shown, attached>>

\* run_battlegroup_action_with_runner refuses what seems done.
CommandLooks ==
  /\ command = "look"
  /\ IF Started = (want = "stop")
       THEN command' = want /\ UNCHANGED <<want, commands, screen>>
       ELSE Reject
  /\ UNCHANGED <<cluster, task, intent, faults>>

\* The vendor's stop, also as the first half of its restart.
CommandStops ==
  /\ command = "stop"
  /\ stop' = TRUE
  /\ command' = IF want = "stop" THEN "read" ELSE "start"
  /\ IF want = "stop"
       THEN /\ wish' = "stop"
            /\ overtaken' = (trigger = "scheduled" /\ run \in {"stop", "start"})
       ELSE UNCHANGED intent
  /\ Age
  /\ UNCHANGED <<ready, reported, task, want, commands, faults>>

CommandStarts ==
  /\ command = "start"
  /\ stop' = FALSE
  /\ command' = "wait"
  /\ wish' = "start" /\ overtaken' = FALSE
  /\ Age
  /\ UNCHANGED <<ready, reported, task, want, commands, faults>>

\* `battlegroup update`: new images for the servers.
CommandUpdates ==
  /\ command = "update"
  /\ command' = "read"
  /\ Age
  /\ UNCHANGED <<cluster, task, want, commands, intent, faults>>

\* wait_for_battlegroup_started; the Director's port may be there or not.
CommandWaits ==
  /\ command = "wait"
  /\ IF Started THEN command' = "read" /\ UNCHANGED <<want, commands, screen>> ELSE Reject
  /\ UNCHANGED <<cluster, task, intent, faults>>

CommandReads ==
  /\ command = "read"
  /\ command' = "show"
  /\ UNCHANGED <<cluster, task, want, commands, screen, intent, faults>>

\* The components came too: the answer is shown.
CommandShows ==
  /\ command = "show"
  /\ command' = "idle"
  /\ shown' = "fresh" /\ error' = FALSE /\ busy' = FALSE
  /\ UNCHANGED <<cluster, task, want, commands, fetch, attached, intent, faults>>

\* The host is out of reach, or a script fails.
CommandFails ==
  /\ command # "idle" /\ Fault
  /\ Reject
  /\ UNCHANGED <<cluster, task, intent>>

-----------------------------------------------------------------------------
\* refreshRemoteServerStatus.

BeginRefresh ==
  /\ \E f \in Fetches : fetch[f] = "off" /\ fetch' = [fetch EXCEPT ![f] = "ask"]
  /\ shown' = "none" /\ error' = FALSE /\ busy' = TRUE

\* Mutant of Refresh: one may begin beside what makes the server busy.
RefreshAnyway ==
  /\ BeginRefresh
  /\ UNCHANGED <<cluster, task, operator, attached, intent, faults>>

\* The button, and the sweep over the list of servers.
Refresh ==
  /\ ~busy /\ BeginRefresh
  /\ UNCHANGED <<cluster, task, operator, attached, intent, faults>>

\* addRemoteServer refreshes what it detects, busy or not.
Attach ==
  /\ busy /\ ~attached /\ BeginRefresh
  /\ attached' = TRUE
  /\ UNCHANGED <<cluster, task, operator, intent, faults>>

RefreshReads ==
  /\ \E f \in Fetches : fetch[f] = "ask" /\ fetch' = [fetch EXCEPT ![f] = "fresh"]
  /\ UNCHANGED <<cluster, task, operator, shown, error, busy, attached, intent, faults>>

\* What was read is shown, or the error is; either ends being busy.
RefreshEnds ==
  /\ \E f \in Fetches :
       /\ fetch[f] # "off" /\ fetch' = [fetch EXCEPT ![f] = "off"]
       /\ \/ fetch[f] # "ask" /\ shown' = fetch[f] /\ error' = FALSE
          \/ shown' = "none" /\ error' = TRUE
  /\ busy' = FALSE
  /\ UNCHANGED <<cluster, task, operator, attached, intent, faults>>

-----------------------------------------------------------------------------
Cluster == Settle \/ Report
Task == \/ RestartFires \/ RestartSkips \/ RestartGoes \/ RestartStops \/ RestartStarts
        \/ RestartDone \/ RestartGivesUp \/ RestartFails
Operator == \/ PressCommand \/ CommandLooks \/ CommandStops \/ CommandStarts
            \/ CommandUpdates \/ CommandWaits \/ CommandReads \/ CommandShows \/ CommandFails
Screen == Refresh \/ Attach \/ RefreshReads \/ RefreshEnds

LifecycleNext == Cluster \/ Task \/ Operator \/ Screen

-----------------------------------------------------------------------------
\* Between the halves of a restart spec.stop is not what anybody wants.
Halfway == run = "start" \/ (command = "start" /\ want = "restart")

\* The servers are told what the operator had done last: restarts that interleave
\* in halves do not leave them stopped, and a scheduled restart brings up no
\* battlegroup that was stopped before it looked.  A fault is needed, or a stop
\* that a scheduled restart past its check overtakes.
WishHolds == ~Halfway => (stop <=> wish = "stop") \/ overtaken \/ faults > 0

\* What the application shows of a server was read after the operator's last
\* command took effect, unless an error stands beside it or the host was
\* attached again meanwhile: no refresh that began before puts an older state
\* back (useRemoteServerStatus has no other order than the busy flag).
ScreenFresh == shown = "old" /\ ~busy => error \/ attached

\* battlegroup_cli.rs says of the wait after a restart that it is for "a
\* fully-running state: serverGroupPhase is "Running" AND all servers report
\* ready=true": a restart is complete when the servers are ready.
RestartedMeansReady == [][RestartDone => ready]_lifecycleVars
=============================================================================
