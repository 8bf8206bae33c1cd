------------------------ MODULE RestartScheduleProofs ------------------------
(***************************************************************************)
(* Theorems of RestartSchedule, for every cadence, lead time and cooldown: *)
(*   - type correctness;                                                   *)
(*   - no slot is served twice, if the cooldown is longer than what two    *)
(*     sleeps may gain and lose on the wall clock;                         *)
(*   - no slot is passed over but during a restart, and every scheduled    *)
(*     restart was announced but where the operator's own notice stood in  *)
(*     the way, if the slots are far enough apart.                         *)
(***************************************************************************)
EXTENDS RestartSchedule, TLAPS

\* A sleep that began at a known distance from the instant t ends within the
\* skew of it on the steady clock.
Near(w, t) == w <= t + MaxSkew /\ t <= w + MaxSkew

\* The restart loop never oversleeps, and the slot it serves is at hand.
LoopInv ==
  /\ phase = "sleep" => slot \in Slots /\ steady <= wake /\ Near(wake, slot)
  /\ phase = "check" => slot \in Slots /\ steady = wake /\ Near(wake, slot)
  /\ phase = "run" => /\ slot \in Slots /\ began \in Nat
                      /\ began <= slot + 2 * MaxSkew /\ slot <= began + 2 * MaxSkew
  /\ phase \in {"sleep", "check", "run"} => slot # None

\* Neither the notice loop.
NoticeInv ==
  notice = "sleep" => steady <= noticeWake

\* A triggered notice without a time of its own tells the slot that is next: no
\* time passes while it is under way.
HandInv ==
  hand \in Slots => /\ steady < hand + MaxSkew
                    /\ \A u \in Slots : u > steady + MaxSkew => hand <= u

\* Only a crash takes the loops down, and what they knew with them.
OffInv == phase = "off" => crashes > 0 /\ slot = None

IInv == TypeOK /\ LoopInv /\ NoticeInv /\ HandInv /\ OffInv

LEMMA Initially == Init => IInv
BY ScheduleAssumption DEF Init, IInv, TypeOK, LoopInv, NoticeInv, HandInv, OffInv, None, Other,
  Instant, Off

LEMMA StartType == TypeOK /\ Start => TypeOK'
BY DEF TypeOK, Start, clocks, bounds

\* Every step keeps the types ...
LEMMA TypeInduction == IInv /\ [Next]_vars => TypeOK'
<1> SUFFICES ASSUME IInv, [Next]_vars PROVE TypeOK'
  OBVIOUS
<1> USE DEF IInv, TypeOK, clocks, loop, noticeLoop, bounds
<1>w. CASE World
  <2>1. CASE Tick
    BY <2>1, ScheduleAssumption DEF Tick, Urgent
  <2>2. CASE StepBack
    BY <2>2, ScheduleAssumption DEF StepBack
  <2>3. CASE Toggle
    BY <2>3 DEF Toggle
  <2>4. CASE ManualBegin
    BY <2>4 DEF ManualBegin
  <2>5. CASE ManualDone
    BY <2>5, ScheduleAssumption DEF ManualDone, CanFail, Instant
  <2> QED
    BY <1>w, <2>1, <2>2, <2>3, <2>4, <2>5 DEF World
<1>r. CASE Restart
  <2>1. CASE Plan
    BY <2>1, ScheduleAssumption DEF Plan, NextFire, Instant
  <2>2. CASE Fire
    BY <2>2 DEF Fire
  <2>3. CASE Skip
    BY <2>3, ScheduleAssumption DEF Skip, CanFail
  <2>4. CASE Begin
    BY <2>4, ScheduleAssumption DEF Begin, CanFail, Instant
  <2>5. CASE Done
    BY <2>5, ScheduleAssumption DEF Done, CanFail, Instant, LoopInv
  <2>6. CASE RunFail
    BY <2>6, ScheduleAssumption DEF RunFail, CanFail
  <2> QED
    BY <1>r, <2>1, <2>2, <2>3, <2>4, <2>5, <2>6 DEF Restart
<1>n. CASE Notice
  <2>1. CASE NoticePlan
    BY <2>1, ScheduleAssumption DEF NoticePlan, NextFire
  <2>2. CASE NoticeFire
    <3>1. announced' \subseteq Slots /\ displaced' \subseteq Slots
      BY <2>2 DEF NoticeFire
    <3>2. faults' \in 0..MaxFaults /\ UNCHANGED <<steps, crashes>>
      BY <2>2, ScheduleAssumption DEF NoticeFire, CanFail
    <3> QED
      BY <2>2, <3>1, <3>2 DEF NoticeFire
  <2>3. CASE TriggerNotice
    BY <2>3, ScheduleAssumption DEF TriggerNotice
  <2>4. CASE TriggeredNoticeDone
    BY <2>4, ScheduleAssumption DEF TriggeredNoticeDone, CanFail
  <2> QED
    BY <1>n, <2>1, <2>2, <2>3, <2>4 DEF Notice
<1>c. CASE Crash
  BY <1>c, ScheduleAssumption DEF Crash, Instant
<1>s. CASE Start
  BY <1>s, StartType
<1>u. CASE UNCHANGED vars
  BY <1>u DEF vars
<1> QED
  BY <1>w, <1>r, <1>n, <1>c, <1>s, <1>u DEF Next

\* ... and the distances, a step of the clock and a crash included.
LEMMA LoopInduction == IInv /\ TypeOK' /\ [Next]_vars => LoopInv' /\ NoticeInv'
<1> SUFFICES ASSUME IInv, TypeOK', [Next]_vars PROVE LoopInv' /\ NoticeInv'
  OBVIOUS
<1> USE ScheduleAssumption DEF IInv, TypeOK, LoopInv, NoticeInv, None, Instant, Off, Near,
      clocks, loop, noticeLoop
<1>w. CASE World
  <2>1. CASE Tick
    BY <2>1 DEF Tick, Urgent
  <2>2. CASE StepBack
    BY <2>2 DEF StepBack
  <2>3. CASE Toggle
    BY <2>3 DEF Toggle
  <2>4. CASE ManualBegin
    BY <2>4 DEF ManualBegin
  <2>5. CASE ManualDone
    BY <2>5 DEF ManualDone
  <2> QED
    BY <1>w, <2>1, <2>2, <2>3, <2>4, <2>5 DEF World
<1>r. CASE Restart
  <2>1. CASE Plan
    BY <2>1 DEF Plan, NextFire
  <2>2. CASE Fire
    BY <2>2 DEF Fire
  <2>3. CASE Skip
    BY <2>3 DEF Skip
  <2>4. CASE Begin
    BY <2>4 DEF Begin
  <2>5. CASE Done
    BY <2>5 DEF Done
  <2>6. CASE RunFail
    BY <2>6 DEF RunFail
  <2> QED
    BY <1>r, <2>1, <2>2, <2>3, <2>4, <2>5, <2>6 DEF Restart
<1>n. CASE Notice
  <2>1. CASE NoticePlan
    BY <2>1 DEF NoticePlan, NextFire
  <2>2. CASE NoticeFire
    BY <2>2 DEF NoticeFire
  <2>3. CASE TriggerNotice
    BY <2>3 DEF TriggerNotice
  <2>4. CASE TriggeredNoticeDone
    BY <2>4 DEF TriggeredNoticeDone
  <2> QED
    BY <1>n, <2>1, <2>2, <2>3, <2>4 DEF Notice
<1>c. CASE Crash
  BY <1>c DEF Crash
<1>s. CASE Start
  BY <1>s DEF Start
<1>u. CASE UNCHANGED vars
  BY <1>u DEF vars
<1> QED
  BY <1>w, <1>r, <1>n, <1>c, <1>s, <1>u DEF Next

LEMMA HandInduction == IInv /\ [Next]_vars => HandInv'
<1> SUFFICES ASSUME IInv, [Next]_vars PROVE HandInv'
  OBVIOUS
<1> USE ScheduleAssumption DEF IInv, TypeOK, HandInv, None, Other, Off, clocks, noticeLoop
<1>1. CASE Tick
  BY <1>1 DEF Tick, Urgent
<1>2. CASE TriggerNotice
  <2>1. steady' = steady /\ now \in Nat /\ steady \in Nat /\ Off(now, steady)
    BY <1>2 DEF TriggerNotice
  <2>2. CASE hand' \in Slots
    <3>1. NextFire(now, hand')
      BY <1>2, <2>2 DEF TriggerNotice
    <3>2. MaxSkew \in Nat /\ Slots \subseteq Nat
      OBVIOUS
    <3> HIDE DEF IInv, TypeOK
    <3>3. steady < hand' + MaxSkew
      <4>1. hand' \in Nat /\ hand' > now
        BY <2>2, <3>1, <3>2 DEF NextFire
      <4>2. steady <= now + MaxSkew /\ now \in Nat /\ steady \in Nat
        BY <2>1
      <4>3. \A i, j, k, m \in Nat : i <= j + m /\ k > j => i < k + m
        OBVIOUS
      <4> QED
        BY <3>2, <4>1, <4>2, <4>3
    <3>4. \A u \in Slots : u > steady + MaxSkew => hand' <= u
      BY <2>1, <2>2, <3>1, <3>2 DEF NextFire
    <3> QED
      BY <2>1, <3>3, <3>4
  <2> QED
    BY <2>2
<1>3. CASE TriggeredNoticeDone \/ Crash
  BY <1>3 DEF TriggeredNoticeDone, Crash
<1>4. CASE UNCHANGED <<steady, hand>>
  BY <1>4
<1> QED
  BY <1>1, <1>2, <1>3, <1>4 DEF Next, World, StepBack, Toggle, ManualBegin, ManualDone, Restart,
    Plan, Fire, Skip, Begin, Done, RunFail, Notice, NoticePlan, NoticeFire, Start, vars

LEMMA OffInduction == TypeOK /\ OffInv /\ [Next]_vars => OffInv'
BY DEF TypeOK, OffInv, Next, World, Tick, StepBack, Toggle, ManualBegin, ManualDone, Restart, Plan,
       Fire, Skip, Begin, Done, RunFail, Notice, NoticePlan, NoticeFire, TriggerNotice,
       TriggeredNoticeDone, Crash, Start, CanFail, vars,
       loop, bounds

LEMMA Induction == IInv /\ [Next]_vars => IInv'
BY TypeInduction, LoopInduction, HandInduction, OffInduction DEF IInv

\* The invariant behind the other theorems: the loops wake up within the skew
\* of what they sleep for.
THEOREM Invariance == Spec => []IInv
BY Initially, Induction, PTL DEF Spec

\* Every variable keeps its type.
THEOREM TypeCorrect == Spec => []TypeOK
<1>1. IInv => TypeOK
  BY DEF IInv
<1> QED
  BY <1>1, Invariance, PTL

-----------------------------------------------------------------------------
\* The stamp of the last restart is recent while its slot is still at hand.
OnceInv ==
  /\ steps = 0 => (last # None => last <= now) /\ (phase = "run" => began <= now)
  /\ faults = 0 /\ steps = 0 => \A s \in served : last # None /\ s <= last + 2 * MaxSkew

\* Two sleeps gain or lose less than the cooldown.
SkewBelowCooldown == 4 * MaxSkew < Cooldown

LEMMA OnceInitially == Init => OnceInv
BY ScheduleAssumption DEF Init, OnceInv, None

LEMMA OnceInduction ==
  IInv /\ TypeOK' /\ OnceInv /\ [Next]_vars => OnceInv'
<1> SUFFICES ASSUME IInv, TypeOK', OnceInv, [Next]_vars PROVE OnceInv'
  OBVIOUS
<1> USE ScheduleAssumption DEF OnceInv, IInv, TypeOK, LoopInv, NoticeInv, None, Instant,
      Off, Near, clocks, loop, noticeLoop, bounds
<1>w. CASE World
  <2>1. CASE Tick
    BY <2>1 DEF Tick, Urgent
  <2>2. CASE StepBack
    BY <2>2 DEF StepBack
  <2>3. CASE Toggle
    BY <2>3 DEF Toggle
  <2>4. CASE ManualBegin
    BY <2>4 DEF ManualBegin
  <2>5. CASE ManualDone
    <3>1. CASE last' = now /\ UNCHANGED bounds
      <4>1. UNCHANGED <<now, began, phase, served, slot>>
        BY <2>5 DEF ManualDone
      <4>2. steps = 0 /\ faults = 0 => \A s \in served : s <= now + 2 * MaxSkew
        <5>1. steps = 0 /\ faults = 0 =>
                \A s \in served : s \in Nat /\ last \in Nat /\ s <= last + 2 * MaxSkew
          OBVIOUS
        <5>2. steps = 0 /\ last \in Nat => last <= now
          OBVIOUS
        <5>3. now \in Nat /\ MaxSkew \in Nat
          OBVIOUS
        <5> QED
          BY <5>1, <5>2, <5>3
      <4> QED
        BY <3>1, <4>1, <4>2
    <3>2. CASE CanFail /\ UNCHANGED last
      BY <2>5, <3>2 DEF ManualDone, CanFail
    <3>3. CASE UNCHANGED <<last, bounds>>
      BY <2>5, <3>3 DEF ManualDone
    <3> QED
      BY <2>5, <3>1, <3>2, <3>3 DEF ManualDone
  <2> QED
    BY <1>w, <2>1, <2>2, <2>3, <2>4, <2>5 DEF World
<1>r. CASE Restart
  <2>1. CASE Plan
    BY <2>1 DEF Plan
  <2>2. CASE Fire
    BY <2>2 DEF Fire
  <2>3. CASE Skip
    BY <2>3 DEF Skip, CanFail
  <2>4. CASE Begin
    BY <2>4 DEF Begin, CanFail
  <2>5. CASE Done
    <3>1. (began <= now /\ slot <= now + 2 * MaxSkew) \/ steps # 0
      BY <2>5 DEF Done
    <3>2. CASE last' = now /\ UNCHANGED bounds
      <4>1. /\ UNCHANGED <<now, began, slot>> /\ phase' = "plan"
            /\ served' = served \cup {slot}
        BY <2>5 DEF Done
      <4>2. steps = 0 /\ faults = 0 => \A s \in served' : s <= now + 2 * MaxSkew
        <5>1. steps = 0 /\ faults = 0 =>
                \A s \in served : s \in Nat /\ last \in Nat /\ s <= last + 2 * MaxSkew
          OBVIOUS
        <5>2. steps = 0 /\ last \in Nat => last <= now
          OBVIOUS
        <5>3. now \in Nat /\ MaxSkew \in Nat
          OBVIOUS
        <5> QED
          BY <3>1, <4>1, <5>1, <5>2, <5>3
      <4> QED
        BY <3>2, <4>1, <4>2
    <3>3. CASE CanFail /\ UNCHANGED last
      BY <2>5, <3>3 DEF Done, CanFail
    <3> QED
      BY <2>5, <3>2, <3>3 DEF Done
  <2>6. CASE RunFail
    BY <2>6 DEF RunFail, CanFail
  <2> QED
    BY <1>r, <2>1, <2>2, <2>3, <2>4, <2>5, <2>6 DEF Restart
<1>n. CASE Notice
  <2>1. CASE NoticePlan
    BY <2>1 DEF NoticePlan, NextFire
  <2>2. CASE NoticeFire
    BY <2>2 DEF NoticeFire, NextFire, CanFail
  <2>3. CASE TriggerNotice
    BY <2>3 DEF TriggerNotice
  <2>4. CASE TriggeredNoticeDone
    BY <2>4 DEF TriggeredNoticeDone, CanFail
  <2> QED
    BY <1>n, <2>1, <2>2, <2>3, <2>4 DEF Notice
<1>c. CASE Crash
  BY <1>c DEF Crash
<1>s. CASE Start
  BY <1>s DEF Start
<1>u. CASE UNCHANGED vars
  BY <1>u DEF vars
<1> QED
  BY <1>w, <1>r, <1>n, <1>c, <1>s, <1>u DEF Next

LEMMA OnceStep ==
  SkewBelowCooldown /\ IInv /\ OnceInv /\ [Next]_vars =>
    (Begin /\ steps = 0 /\ faults = 0 => slot \notin served)
BY ScheduleAssumption DEF SkewBelowCooldown, OnceInv, Begin, WithinCooldown, IInv, TypeOK,
  LoopInv, None, Instant, Off, Near

\* No slot is served twice while nothing fails, whatever the drift, the crashes and
\* the manual restarts (within_restart_cooldown in restart.rs).
THEOREM OncePerSlotHolds == ASSUME SkewBelowCooldown PROVE Spec => OncePerSlot
<1>1. Init => OnceInv
  BY SkewBelowCooldown, OnceInitially
<1>2. IInv /\ IInv' /\ OnceInv /\ [Next]_vars => OnceInv'
  BY SkewBelowCooldown, OnceInduction DEF IInv
<1>3. IInv /\ OnceInv /\ [Next]_vars => (Begin /\ steps = 0 /\ faults = 0 => slot \notin served)
  BY SkewBelowCooldown, OnceStep
<1> QED
  BY <1>1, <1>2, <1>3, Invariance, PTL DEF Spec, OncePerSlot

-----------------------------------------------------------------------------
\* The loop plans again soon after its slot, unless a restart kept it busy.
LostInv ==
  phase = "plan" /\ slot # None =>
    now <= slot + 2 * MaxSkew \/ (began # None /\ began <= slot + 2 * MaxSkew)

\* Slots are further apart than what a sleep may gain or lose.
SlotsBeyondSkew == \A s, u \in Slots : s < u => u - s > 2 * MaxSkew

NoLoss == Plan /\ slot # None =>
            \A u \in Slots :
              slot < u /\ u < slot' => began # None /\ began <= u /\ u <= now

LEMMA LostInitially == Init => LostInv
BY ScheduleAssumption DEF Init, LostInv, None

LEMMA LostInduction ==
  IInv /\ TypeOK' /\ LostInv /\ [Next]_vars => LostInv'
<1> SUFFICES ASSUME IInv, TypeOK', LostInv, [Next]_vars PROVE LostInv'
  OBVIOUS
<1> USE ScheduleAssumption DEF LostInv, IInv, TypeOK, LoopInv, NoticeInv, OffInv, None,
      Instant, Off, Near, clocks, loop, noticeLoop, bounds
<1>w. CASE World
  <2>1. CASE Tick
    BY <2>1 DEF Tick, Urgent
  <2>2. CASE StepBack
    BY <2>2 DEF StepBack
  <2>3. CASE Toggle
    BY <2>3 DEF Toggle
  <2>4. CASE ManualBegin
    BY <2>4 DEF ManualBegin
  <2>5. CASE ManualDone
    BY <2>5 DEF ManualDone, CanFail
  <2> QED
    BY <1>w, <2>1, <2>2, <2>3, <2>4, <2>5 DEF World
<1>r. CASE Restart
  <2>1. CASE Plan
    BY <2>1 DEF Plan
  <2>2. CASE Fire
    BY <2>2 DEF Fire
  <2>3. CASE Skip
    BY <2>3 DEF Skip
  <2>4. CASE Begin
    BY <2>4 DEF Begin, CanFail
  <2>5. CASE Done
    BY <2>5 DEF Done, CanFail
  <2>6. CASE RunFail
    BY <2>6 DEF RunFail, CanFail
  <2> QED
    BY <1>r, <2>1, <2>2, <2>3, <2>4, <2>5, <2>6 DEF Restart
<1>n. CASE Notice
  <2>1. CASE NoticePlan
    BY <2>1 DEF NoticePlan, NextFire
  <2>2. CASE NoticeFire
    BY <2>2 DEF NoticeFire, NextFire, CanFail
  <2>3. CASE TriggerNotice
    BY <2>3 DEF TriggerNotice
  <2>4. CASE TriggeredNoticeDone
    BY <2>4 DEF TriggeredNoticeDone, CanFail
  <2> QED
    BY <1>n, <2>1, <2>2, <2>3, <2>4 DEF Notice
<1>c. CASE Crash
  BY <1>c DEF Crash
<1>s. CASE Start
  BY <1>s DEF Start
<1>u. CASE UNCHANGED vars
  BY <1>u DEF vars
<1> QED
  BY <1>w, <1>r, <1>n, <1>c, <1>s, <1>u DEF Next

LEMMA LostStep ==
  SlotsBeyondSkew /\ IInv /\ LostInv /\ [Next]_vars => NoLoss
BY ScheduleAssumption DEF SlotsBeyondSkew, LostInv, NoLoss, Plan, NextFire, IInv, TypeOK, None, Instant

\* A loop passes over a slot only if it fell into the restart made for the slot
\* before (Scheduler::start in scheduler/mod.rs).
THEOREM NoSlotLostHolds == ASSUME SlotsBeyondSkew PROVE Spec => NoSlotLost
<1>1. Init => LostInv
  BY SlotsBeyondSkew, LostInitially
<1>2. IInv /\ IInv' /\ LostInv /\ [Next]_vars => LostInv'
  BY SlotsBeyondSkew, LostInduction DEF IInv
<1>3. IInv /\ LostInv /\ [Next]_vars => NoLoss
  BY SlotsBeyondSkew, LostStep
<1> QED
  BY <1>1, <1>2, <1>3, Invariance, PTL DEF Spec, NoSlotLost, NoLoss

-----------------------------------------------------------------------------
\* The players know of a slot, or are about to while it is still far, or the notice
\* loop was kept from telling them.
Told(s) == s \in announced \cup displaced \/ (hand = s /\ steady + MaxSkew < s)

\* The notice loop is ahead of the restart loop.
ToldInv ==
  faults = 0 /\ crashes = 0 =>
    /\ notice # "off"
    /\ notice = "plan" => \A s \in Slots : s <= now + Lead => Told(s)
    /\ notice = "sleep" =>
         \E n \in Slots : /\ noticeWake <= n - Lead + MaxSkew /\ n - Lead <= noticeWake + MaxSkew
                          /\ \A s \in Slots : s < n => Told(s)

\* The lead time is longer than what a sleep may gain or lose, and the slots are
\* further apart, and from the start, than the lead time.
SlotsBeyondLead ==
  /\ Lead > 2 * MaxSkew
  /\ \A s \in Slots : s > Lead
  /\ \A s, u \in Slots : s < u => u - s > Lead + 2 * MaxSkew

LEMMA ToldInitially == SlotsBeyondLead /\ Init => ToldInv
BY ScheduleAssumption DEF SlotsBeyondLead, Init, ToldInv, None

LEMMA ToldInduction ==
  SlotsBeyondLead /\ IInv /\ TypeOK' /\ ToldInv /\ [Next]_vars => ToldInv'
<1> SUFFICES ASSUME SlotsBeyondLead, IInv, TypeOK', [Next]_vars, ToldInv,
                    faults' = 0, crashes' = 0
             PROVE  ToldInv'
  BY DEF ToldInv
<1> USE ScheduleAssumption DEF None, Other, clocks, noticeLoop, bounds
<1>t. /\ Slots \subseteq Nat /\ Lead \in Nat /\ MaxSkew \in Nat
      /\ {steady, steady', now, now', noticeWake, noticeWake'} \subseteq Nat
      /\ Off(now, steady) /\ Off(now', steady')
      /\ notice = "sleep" => steady <= noticeWake
  BY DEF IInv, TypeOK, NoticeInv
<1>f. faults = 0 /\ crashes = 0
  BY DEF IInv, TypeOK, Next, World, Tick, StepBack, Toggle, ManualBegin, ManualDone, Restart,
    Plan, Fire, Skip, Begin, Done, RunFail, Notice, NoticePlan, NoticeFire, TriggerNotice,
    TriggeredNoticeDone, Crash, Start, CanFail, vars
<1>i. /\ notice # "off"
      /\ notice = "plan" => \A s \in Slots : s <= now + Lead => Told(s)
      /\ notice = "sleep" =>
           \E n \in Slots : /\ noticeWake <= n - Lead + MaxSkew /\ n - Lead <= noticeWake + MaxSkew
                            /\ \A s \in Slots : s < n => Told(s)
  BY <1>f DEF ToldInv
<1>1. CASE Tick
  <2>1. hand = None /\ UNCHANGED <<announced, displaced, hand, notice, noticeWake>>
    BY <1>1 DEF Tick, Urgent
  <2>2. \A s \in Slots : Told(s) => Told(s)'
    BY <2>1 DEF Told
  <2>3. notice = "sleep"
    BY <1>1, <1>i DEF Tick, Urgent, IInv, TypeOK
  <2> QED
    BY <1>i, <2>1, <2>2, <2>3 DEF ToldInv
<1>2. CASE StepBack
  <2>1. UNCHANGED <<steady, announced, displaced, hand, notice, noticeWake>> /\ now' <= now
    BY <1>2, <1>t DEF StepBack
  <2>2. \A s \in Slots : Told(s) => Told(s)'
    BY <2>1 DEF Told
  <2>3. \A s \in Slots : s <= now' + Lead => s <= now + Lead
    BY <1>t, <2>1
  <2> QED
    BY <1>i, <2>1, <2>2, <2>3 DEF ToldInv
<1>3. CASE NoticePlan
  BY <1>3, <1>t, <1>i DEF NoticePlan, NextFire, ToldInv, Told, Off
<1>4. CASE NoticeFire
  <2>1. PICK n \in Slots : /\ noticeWake <= n - Lead + MaxSkew /\ n - Lead <= noticeWake + MaxSkew
                           /\ \A s \in Slots : s < n => Told(s)
    BY <1>4, <1>i DEF NoticeFire
  <2>2. steady = noticeWake /\ UNCHANGED <<steady, now, hand>> /\ notice' = "plan"
    BY <1>4, <1>t DEF NoticeFire
  <2>3. steady + MaxSkew < n /\ now < n
    BY <1>t, <2>1, <2>2 DEF SlotsBeyondLead, Off
  <2>4. \A u \in Slots : u > now \/ u > steady - MaxSkew => n <= u
    BY <1>t, <2>1, <2>2 DEF SlotsBeyondLead, Off
  <2>5. \A s \in Slots : NextFire(now, s) => s = n
    BY <1>t, <2>3, <2>4 DEF NextFire
  <2>6. hand \in Slots => hand = n
    <3>1. SUFFICES ASSUME hand \in Slots PROVE hand = n
      OBVIOUS
    <3>2. hand > steady - MaxSkew /\ hand <= n
      BY <1>t, <2>3, <3>1 DEF IInv, HandInv
    <3>3. n <= hand
      BY <2>4, <3>1, <3>2
    <3> QED
      BY <1>t, <3>1, <3>2, <3>3
  <2>7. \A s \in Slots : Told(s) => Told(s)'
    BY <1>4, <2>2 DEF NoticeFire, Told
  <2>8. Told(n)'
    BY <1>4, <1>f, <2>2, <2>3, <2>5, <2>6 DEF NoticeFire, Told, CanFail
  <2>9. \A s \in Slots : s <= now' + Lead => s <= n
    BY <1>t, <2>1, <2>2, <2>3 DEF SlotsBeyondLead, Off
  <2> QED
    BY <1>t, <2>1, <2>2, <2>7, <2>8, <2>9 DEF ToldInv
<1>5. CASE TriggerNotice
  BY <1>5, <1>i DEF TriggerNotice, ToldInv, Told
<1>6. CASE TriggeredNoticeDone
  <2>1. announced' = announced \cup ({hand} \ {Other})
    BY <1>6, <1>f DEF TriggeredNoticeDone, CanFail
  <2>2. \A s \in Slots : Told(s) => Told(s)'
    BY <1>6, <2>1 DEF TriggeredNoticeDone, Told
  <2> QED
    BY <1>6, <1>i, <2>2 DEF TriggeredNoticeDone, ToldInv
<1>7. CASE UNCHANGED <<clocks, noticeLoop>>
  <2>1. \A s \in Slots : Told(s) => Told(s)'
    BY <1>7 DEF Told
  <2> QED
    BY <1>7, <1>i, <2>1 DEF ToldInv
<1>8. CASE Crash
  BY <1>8, <1>f DEF Crash
<1>9. CASE Start
  BY <1>9, <1>f DEF Start, IInv, OffInv
<1> QED
  BY <1>1, <1>2, <1>3, <1>4, <1>5, <1>6, <1>7, <1>8, <1>9 DEF Next, World, Toggle, ManualBegin,
    ManualDone, Restart, Plan, Fire, Skip, Begin, Done, RunFail, Notice, vars

LEMMA ToldStep ==
  SlotsBeyondLead /\ IInv /\ ToldInv /\ [Next]_vars =>
    (Begin /\ faults = 0 /\ crashes = 0 => slot \in announced \cup displaced)
BY ScheduleAssumption DEF SlotsBeyondLead, ToldInv, Told, Begin, IInv, TypeOK, LoopInv, NoticeInv,
  None, Off, Near

\* As long as nothing fails every scheduled restart was announced, or its notice
\* was an overlap of one that told another time (RestartNotice in
\* scheduler/schedule.rs and restart_notice.rs).
THEOREM AnnouncedHolds == ASSUME SlotsBeyondLead PROVE Spec => Announced
<1>1. Init => ToldInv
  BY SlotsBeyondLead, ToldInitially
<1>2. IInv /\ IInv' /\ ToldInv /\ [Next]_vars => ToldInv'
  BY SlotsBeyondLead, ToldInduction DEF IInv
<1>3. IInv /\ ToldInv /\ [Next]_vars =>
        (Begin /\ faults = 0 /\ crashes = 0 => slot \in announced \cup displaced)
  BY SlotsBeyondLead, ToldStep
<1> QED
  BY <1>1, <1>2, <1>3, Invariance, PTL DEF Spec, Announced
=============================================================================
