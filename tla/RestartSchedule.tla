--------------------------- MODULE RestartSchedule ---------------------------
(***************************************************************************)
(* When the servers are restarted and what the players are told before:    *)
(* the loops of the tasks `restart` and `restart-notice`, the 15-minute    *)
(* cooldown kept in the store, restarts and notices that the operator      *)
(* triggers, and a wall clock that drifts against the steady clock the     *)
(* loops sleep on.                                                         *)
(*                                                                         *)
(* Time is counted in ticks.  Slots are the instants at which the cadence  *)
(* (daily or cron, in the operator's time zone) matches.  What takes less  *)
(* than a tick, all but a restart itself, happens before the clock moves.  *)
(***************************************************************************)
EXTENDS Integers

CONSTANTS
  Slots,      \* the instants at which the cadence matches
  Lead,       \* restart_warning_duration_secs
  Cooldown,   \* RESTART_COOLDOWN_SECS
  MaxSkew,    \* how far the wall clock may be off the steady clock
  MaxTime,    \* bound: ticks
  MaxNotices, \* bound: notices the operator triggers
  MaxFaults,  \* bound: failing calls
  MaxSteps,   \* bound: steps of the wall clock into the past
  MaxCrashes  \* bound: deaths of the daemon

ASSUME ScheduleAssumption ==
  /\ Slots \subseteq Nat
  /\ Lead \in Nat /\ Cooldown \in Nat /\ MaxSkew \in Nat /\ MaxTime \in Nat
  /\ MaxNotices \in Nat
  /\ MaxFaults \in Nat /\ MaxSteps \in Nat /\ MaxCrashes \in Nat

VARIABLES
  steady,      \* the clock of tokio::time::sleep
  now,         \* the clock of Utc::now()
  stop,        \* spec.stop of the BattleGroup
  last,        \* last_restart_time in the store, None without one
  phase,       \* what the restart loop is doing
  slot,        \* the slot it sleeps for or serves, None before its first
  wake,        \* when its sleep ends, on the steady clock
  began,       \* when the restart for that slot began, None without one
  manual,      \* "run" while a triggered restart is executed
  notice,      \* what the restart-notice loop is doing
  noticeWake,  \* when its sleep ends
  announced,   \* the slots broadcast to the players
  hand,        \* the triggered notice under way: its slot, Other or None
  displaced,   \* the slots not broadcast because of one with another time
  served,      \* the slots whose restart was completed
  notices,     \* how many the operator triggered (bound)
  faults, steps, crashes  \* how many so far (bounds)

clocks == <<steady, now>>
loop == <<phase, slot, wake, began>>
noticeLoop == <<notice, noticeWake, announced, hand, displaced, notices>>
bounds == <<faults, steps, crashes>>
vars == <<clocks, stop, last, loop, manual, noticeLoop, served, bounds>>

None == -1

\* A notice of the operator's own time (leadSecs), or a dry run.
Other == -2

Instant == Nat \cup {None}

Off(wall, ticks) == wall <= ticks + MaxSkew /\ ticks <= wall + MaxSkew

TypeOK ==
  /\ steady \in Nat /\ now \in Nat /\ Off(now, steady)
  /\ stop \in {"true", "false"} /\ last \in Instant
  /\ phase \in {"off", "plan", "sleep", "check", "run"}
  /\ slot \in Slots \cup {None} /\ wake \in Nat /\ began \in Instant
  /\ manual \in {"idle", "run"}
  /\ notice \in {"off", "plan", "sleep"} /\ noticeWake \in Nat
  /\ {announced, displaced, served} \subseteq SUBSET Slots
  /\ hand \in Slots \cup {None, Other} /\ notices \in 0..MaxNotices
  /\ faults \in 0..MaxFaults /\ steps \in 0..MaxSteps /\ crashes \in 0..MaxCrashes

Init ==
  /\ steady = 0 /\ now = 0
  /\ stop = "false" /\ last = None
  /\ phase = "plan" /\ slot = None /\ wake = 0 /\ began = None
  /\ manual = "idle"
  /\ notice = "plan" /\ noticeWake = 0 /\ announced = {} /\ hand = None /\ displaced = {}
  /\ notices = 0
  /\ served = {}
  /\ faults = 0 /\ steps = 0 /\ crashes = 0

CanFail ==
  /\ faults < MaxFaults
  /\ faults' = faults + 1
  /\ UNCHANGED <<steps, crashes>>

-----------------------------------------------------------------------------
\* The clocks and the operator.

\* Something that takes no time is still to be done.
Urgent ==
  \/ phase \in {"plan", "check"}
  \/ phase = "sleep" /\ wake <= steady
  \/ notice = "plan"
  \/ notice = "sleep" /\ noticeWake <= steady
  \/ hand # None

\* The wall clock may run slow or fast, but it is kept near the steady clock.
Tick ==
  /\ steady < MaxTime /\ ~Urgent
  /\ steady' = steady + 1
  /\ now' \in now..now + 2 /\ Off(now', steady')
  /\ UNCHANGED <<stop, last, loop, manual, noticeLoop, served, bounds>>

\* An NTP step into the past.
StepBack ==
  /\ steps < MaxSteps
  /\ steps' = steps + 1
  /\ \E t \in 0..now - 1 : Off(t, steady) /\ now' = t
  /\ UNCHANGED <<steady, stop, last, loop, manual, noticeLoop, served, faults, crashes>>

\* The operator stops or starts the BattleGroup.
Toggle ==
  /\ stop' = IF stop = "true" THEN "false" ELSE "true"
  /\ UNCHANGED <<clocks, last, loop, manual, noticeLoop, served, bounds>>

-----------------------------------------------------------------------------
\* The restart loop.

\* Schedule::next_fire: the first slot after t.
NextFire(t, s) == s \in Slots /\ s > t /\ \A u \in Slots : u > t => s <= u

\* Mutant of Plan: after a fire the cooldown is slept through instead of tested.
PlanPastCooldown ==
  /\ phase = "plan"
  /\ \E s \in Slots : /\ NextFire(IF slot = None THEN now ELSE now + Cooldown, s)
                      /\ slot' = s /\ wake' = steady + (s - now)
  /\ phase' = "sleep" /\ began' = None
  /\ UNCHANGED <<clocks, stop, last, manual, noticeLoop, served, bounds>>

\* The loop works out its next slot on the wall clock and sleeps as long as that
\* is away, on the steady clock.
Plan ==
  /\ phase = "plan"
  /\ \E s \in Slots : NextFire(now, s) /\ slot' = s /\ wake' = steady + (s - now)
  /\ phase' = "sleep" /\ began' = None
  /\ UNCHANGED <<clocks, stop, last, manual, noticeLoop, served, bounds>>

\* The sleep is over; while a manual restart runs, the fire is an overlap.
Fire ==
  /\ phase = "sleep" /\ wake <= steady
  /\ phase' = IF manual = "run" THEN "plan" ELSE "check"
  /\ UNCHANGED <<clocks, stop, last, slot, wake, began, manual, noticeLoop, served, bounds>>

\* within_restart_cooldown.
WithinCooldown == last # None /\ now - last >= 0 /\ now - last < Cooldown

\* The scheduled run does nothing: the servers are stopped, the last restart is
\* recent, or the cluster cannot be asked.
Skip ==
  /\ phase = "check"
  /\ \/ (stop = "true" \/ WithinCooldown) /\ UNCHANGED bounds
     \/ CanFail
  /\ phase' = "plan"
  /\ UNCHANGED <<clocks, stop, last, slot, wake, began, manual, noticeLoop, served>>

\* The vendor restart begins; an unreadable spec.stop counts as not stopped.
Begin ==
  /\ phase = "check"
  /\ ~WithinCooldown
  /\ \/ stop = "false" /\ UNCHANGED bounds
     \/ stop = "true" /\ CanFail
  /\ phase' = "run" /\ began' = now
  /\ UNCHANGED <<clocks, stop, last, slot, wake, manual, noticeLoop, served>>

\* Mutant of Done: only a manual restart is stamped.
DoneUnstamped ==
  /\ phase = "run"
  /\ phase' = "plan" /\ served' = served \cup {slot}
  /\ UNCHANGED <<clocks, stop, last, slot, wake, began, manual, noticeLoop, bounds>>

\* The servers are up again.  The stamp is best effort.
Done ==
  /\ phase = "run"
  /\ phase' = "plan" /\ served' = served \cup {slot}
  /\ \/ last' = now /\ UNCHANGED bounds
     \/ CanFail /\ UNCHANGED last
  /\ UNCHANGED <<clocks, stop, slot, wake, began, manual, noticeLoop>>

\* The vendor command or the wait for readiness fails: nothing is stamped.
RunFail ==
  /\ phase = "run" /\ CanFail
  /\ phase' = "plan"
  /\ UNCHANGED <<clocks, stop, last, slot, wake, began, manual, noticeLoop, served>>

\* A triggered restart ignores spec.stop and the cooldown; the overlap guard
\* keeps it from running beside the scheduled one.
ManualBegin ==
  /\ phase \in {"plan", "sleep"} /\ manual = "idle"
  /\ manual' = "run"
  /\ UNCHANGED <<clocks, stop, last, loop, noticeLoop, served, bounds>>

\* Also a dry run, which stamps nothing.
ManualDone ==
  /\ manual = "run"
  /\ manual' = "idle"
  /\ \/ last' = now /\ UNCHANGED bounds
     \/ UNCHANGED <<last, bounds>>
     \/ CanFail /\ UNCHANGED last
  /\ UNCHANGED <<clocks, stop, loop, noticeLoop, served>>

-----------------------------------------------------------------------------
\* The restart-notice loop.

\* Schedule::RestartNotice: Lead before the first slot that is further away.
NoticePlan ==
  /\ notice = "plan"
  /\ \E s \in Slots : NextFire(now + Lead, s) /\ noticeWake' = steady + (s - Lead - now)
  /\ notice' = "sleep"
  /\ UNCHANGED <<clocks, stop, last, loop, manual, announced, hand, displaced, notices,
                 served, bounds>>

\* Mutant of NoticeFire: the slot is looked up as it was when planning.
NoticeFireLater ==
  /\ notice = "sleep" /\ noticeWake <= steady /\ hand = None
  /\ \E s \in Slots : NextFire(now + Lead, s) /\ announced' = announced \cup {s}
  /\ notice' = "plan"
  /\ UNCHANGED <<clocks, stop, last, loop, manual, noticeWake, hand, displaced, notices,
                 served, bounds>>

\* The next slot is broadcast, unless the broker cannot be reached or a triggered
\* notice is under way, beside which this one is an overlap.
NoticeFire ==
  /\ notice = "sleep" /\ noticeWake <= steady
  /\ \E s \in Slots :
       /\ NextFire(now, s)
       /\ \/ /\ hand = None
             /\ announced' = announced \cup {s} /\ UNCHANGED <<displaced, bounds>>
          \/ hand = None /\ CanFail /\ UNCHANGED <<announced, displaced>>
          \/ hand = Other /\ displaced' = displaced \cup {s} /\ UNCHANGED <<announced, bounds>>
          \/ hand \in Slots /\ UNCHANGED <<announced, displaced, bounds>>
  /\ notice' = "plan"
  /\ UNCHANGED <<clocks, stop, last, loop, manual, noticeWake, hand, notices, served>>

\* A triggered notice works out what it will tell, the next slot or now + leadSecs,
\* and turns to the broker.
TriggerNotice ==
  /\ notice # "off" /\ hand = None
  /\ notices < MaxNotices /\ notices' = notices + 1
  /\ \/ \E s \in Slots : NextFire(now, s) /\ hand' = s
     \/ hand' = Other
  /\ UNCHANGED <<clocks, stop, last, loop, manual, notice, noticeWake, announced, displaced,
                 served, bounds>>

TriggeredNoticeDone ==
  /\ hand # None
  /\ hand' = None
  /\ \/ announced' = announced \cup ({hand} \ {Other}) /\ UNCHANGED bounds
     \/ CanFail /\ UNCHANGED announced
  /\ UNCHANGED <<clocks, stop, last, loop, manual, notice, noticeWake, displaced, notices, served>>

-----------------------------------------------------------------------------
\* The process.

\* What the loops know is gone with it.
Crash ==
  /\ phase # "off" /\ crashes < MaxCrashes
  /\ crashes' = crashes + 1
  /\ phase' = "off" /\ slot' = None /\ wake' = 0 /\ began' = None
  /\ notice' = "off" /\ noticeWake' = 0
  /\ manual' = "idle" /\ hand' = None
  /\ UNCHANGED <<clocks, stop, last, announced, displaced, notices, served, faults, steps>>

\* Scheduler::start: both loops plan from the present.
Start ==
  /\ phase = "off"
  /\ phase' = "plan" /\ notice' = "plan"
  /\ UNCHANGED <<clocks, stop, last, slot, wake, began, manual, noticeWake, announced, hand,
                 displaced, notices, served, bounds>>

Restart == Plan \/ Fire \/ Skip \/ Begin \/ Done \/ RunFail
Notice == NoticePlan \/ NoticeFire \/ TriggerNotice \/ TriggeredNoticeDone
World == Tick \/ StepBack \/ Toggle \/ ManualBegin \/ ManualDone
Next == World \/ Restart \/ Notice \/ Crash \/ Start

Spec == Init /\ [][Next]_vars

-----------------------------------------------------------------------------
\* Until the clock is stepped back or a call fails, a slot is not served twice:
\* neither a sleep that ends early or late nor a restart of the daemon makes the
\* loop restart the servers again (restart.rs: "a duplicate ... is skipped").
OncePerSlot ==
  [][Begin /\ steps = 0 /\ faults = 0 => slot \notin served]_vars

\* restart.rs says of the cooldown that it "guards against duplicate fires from
\* clock drift, NTP steps, or DST fall-back": no step of the wall clock makes the
\* loop serve a slot twice.  One that goes back to before the slot does.
StepsGuarded ==
  [][Begin /\ faults = 0 => slot \notin served]_vars

\* A loop passes over a slot only if it fell into the restart that the loop made
\* for the slot before: neither the cooldown nor a refused or skipped fire, nor an
\* early or late sleep, makes it plan past one.
NoSlotLost ==
  [][Plan /\ slot # None =>
       \A u \in Slots :
         slot < u /\ u < slot' => began # None /\ began <= u /\ u <= now]_vars

\* As long as nothing fails, no scheduled restart comes as a surprise: the players
\* were told of its slot, in time, by the notice loop or by the operator, unless a
\* notice of another time which he had triggered stood in the way of the loop's.
Announced ==
  [][Begin /\ faults = 0 /\ crashes = 0 => slot \in announced \cup displaced]_vars
=============================================================================
