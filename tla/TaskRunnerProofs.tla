-------------------------- MODULE TaskRunnerProofs --------------------------
(***************************************************************************)
(* Theorems about TaskRunner for every set of tasks, loops and triggers,   *)
(* every number of store errors and every number of restarts.              *)
(***************************************************************************)
EXTENDS TaskRunner, FiniteSetTheorems, TLAPS

-----------------------------------------------------------------------------
(* The inductive invariant.  Mutual exclusion alone is not inductive: it    *)
(* needs that a holder's task is in the guard set, which needs that only a  *)
(* caller at rest has no task.  Finality of the rows needs that every open  *)
(* run owns a row of its own which still says 'running'.                    *)

\* A caller inside run() has a task.
TaskKnown ==
  \A c \in Caller : caller[c].pc \notin {"idle", "exited"} => caller[c].task \in Task

\* A caller between insert and remove has its task in the guard set.
GuardHeld == \A c \in Caller : Holding(c) => caller[c].task \in running

\* An open run owns a row that says 'running' ...
RowOwned ==
  \A c \in Caller : Owns(c) => /\ caller[c].id \in DOMAIN rows
                               /\ rows[caller[c].id].status = "running"

\* ... and shares it with nobody.
RowPrivate ==
  \A c, d \in Caller : Owns(c) /\ Owns(d) /\ caller[c].id = caller[d].id => c = d

\* A dead process executes nothing, so the sweep of Open hits no run in progress.
DownIdle == daemon = "down" => \A c \in Caller : caller[c] = Rest

IInv == /\ TypeOK /\ TaskKnown /\ GuardHeld /\ MutualExclusion
        /\ RowOwned /\ RowPrivate /\ DownIdle

-----------------------------------------------------------------------------
(* The three ways the history changes keep it a sequence of rows.           *)

LEMMA AppendRow ==
  ASSUME NEW s \in Seq(Row), NEW r \in Row
  PROVE  /\ Append(s, r) \in Seq(Row)
         /\ DOMAIN Append(s, r) = 1..(Len(s) + 1)
         /\ DOMAIN s = 1..Len(s) /\ Len(s) \in Nat
         /\ \A i \in DOMAIN s : Append(s, r)[i] = s[i]
         /\ Append(s, r)[Len(s) + 1] = r
  OBVIOUS

LEMMA MapRow ==
  ASSUME NEW s \in Seq(Row), NEW f, DOMAIN f = DOMAIN s, f = [i \in DOMAIN s |-> f[i]],
         \A i \in DOMAIN s : f[i] \in Row
  PROVE  f \in Seq(Row)
<1>1. Len(s) \in Nat /\ DOMAIN s = 1..Len(s)
  OBVIOUS
<1>2. f \in [1..Len(s) -> Row]
  BY <1>1
<1> QED
  BY <1>1, <1>2

LEMMA InitIInv == Init => IInv
  BY DEF Init, IInv, TypeOK, TaskKnown, GuardHeld, MutualExclusion, RowOwned,
         RowPrivate, DownIdle, Rest, PC, Outcome, Holding, Owns

-----------------------------------------------------------------------------
(* What a step of one caller has to respect, once for all its actions.      *)

CallerRec == [pc: PC, task: Task \cup {NoTask}, id: Nat, out: Outcome]

\* A step of c preserves the invariant if it rewrites no row but c's own, takes
\* no task out of the guard but one c holds, and moves c into a holding (owning)
\* state only with a task that was free (a row that is new).
LEMMA CallerStep ==
  ASSUME IInv, NEW c \in Caller,
         daemon' \in {"up", "draining"}, running' \subseteq Task,
         faults' \in Nat, restarts' \in Nat,
         caller' \in [Caller -> CallerRec],
         \A d \in Caller : d # c => caller'[d] = caller[d],
         rows' \in Seq(Row), DOMAIN rows \subseteq DOMAIN rows',
         \A i \in DOMAIN rows : rows'[i] = rows[i] \/ (Owns(c) /\ i = caller[c].id),
         \A t \in running : t \in running' \/ (Holding(c) /\ t = caller[c].task),
         caller'[c].pc \notin {"idle", "exited"} => caller'[c].task \in Task,
         Holding(c)' => /\ caller'[c].task \in running'
                        /\ \/ Holding(c) /\ caller'[c].task = caller[c].task
                           \/ caller'[c].task \notin running,
         Owns(c)' => /\ caller'[c].id \in DOMAIN rows'
                     /\ rows'[caller'[c].id].status = "running"
                     /\ \/ Owns(c) /\ caller'[c].id = caller[c].id
                        \/ caller'[c].id \notin DOMAIN rows
  PROVE  IInv'
<1>1. \A d \in Caller : d # c => (Holding(d)' <=> Holding(d)) /\ (Owns(d)' <=> Owns(d))
  BY DEF Holding, Owns
<1>2. TypeOK'
  BY DEF TypeOK, CallerRec
<1>3. TaskKnown'
  BY DEF IInv, TaskKnown
<1>4. GuardHeld'
  <2>1. ASSUME NEW d \in Caller, d # c, Holding(d)'  PROVE caller'[d].task \in running'
    BY <1>1, <2>1 DEF IInv, GuardHeld, MutualExclusion
  <2> QED
    BY <2>1 DEF GuardHeld
<1>5. MutualExclusion'
  <2>1. ASSUME NEW d \in Caller, d # c, Holding(d)', Holding(c)'
        PROVE  caller'[d].task # caller'[c].task
    BY <1>1, <2>1 DEF IInv, GuardHeld, MutualExclusion
  <2> QED
    BY <1>1, <2>1 DEF IInv, MutualExclusion
<1>6. RowOwned'
  <2>1. ASSUME NEW d \in Caller, d # c, Owns(d)'
        PROVE  caller'[d].id \in DOMAIN rows' /\ rows'[caller'[d].id].status = "running"
    BY <1>1, <2>1 DEF IInv, RowOwned, RowPrivate
  <2> QED
    BY <2>1 DEF RowOwned
<1>7. RowPrivate'
  <2>1. ASSUME NEW d \in Caller, d # c, Owns(d)', Owns(c)'
        PROVE  caller'[d].id # caller'[c].id
    BY <1>1, <2>1 DEF IInv, RowOwned, RowPrivate
  <2> QED
    BY <1>1, <2>1 DEF IInv, RowPrivate
<1> QED
  BY <1>2, <1>3, <1>4, <1>5, <1>6, <1>7 DEF IInv, DownIdle

\* How the record of the stepping caller changes, for both forms of update.
LEMMA CallerUpdate ==
  ASSUME TypeOK, NEW c \in Caller, NEW r \in CallerRec,
         caller' = [caller EXCEPT ![c] = r]
  PROVE  /\ caller' \in [Caller -> CallerRec]
         /\ caller'[c] = r
         /\ \A d \in Caller : d # c => caller'[d] = caller[d]
  BY DEF TypeOK, CallerRec

LEMMA RestRec == Rest \in CallerRec
  BY DEF Rest, CallerRec, PC, Outcome

\* The rows after finish_run or delete_run on one's own row.
LEMMA RewriteRow ==
  ASSUME NEW s \in Seq(Row), NEW i \in DOMAIN s, NEW r \in Row
  PROVE  /\ [s EXCEPT ![i] = r] \in Seq(Row)
         /\ DOMAIN [s EXCEPT ![i] = r] = DOMAIN s
         /\ \A j \in DOMAIN s : j # i => [s EXCEPT ![i] = r][j] = s[j]
  OBVIOUS

LEMMA FinishRow ==
  ASSUME NEW i \in DOMAIN rows, rows \in Seq(Row),
         NEW st \in Terminal, NEW er \in {"none", "overlap", "orphaned", "message"},
         FinishRun(i, st, er) \/ DeleteRun(i)
  PROVE  /\ rows' \in Seq(Row)
         /\ DOMAIN rows' = DOMAIN rows
         /\ \A j \in DOMAIN rows : j # i => rows'[j] = rows[j]
<1>1. rows[i] \in Row
  OBVIOUS
<1>2. CASE FinishRun(i, st, er)
  <2> DEFINE r == [rows[i] EXCEPT !.status = st, !.error = er]
  <2>1. r \in Row
    BY <1>1 DEF Row
  <2>2. rows' = [rows EXCEPT ![i] = r]
    BY <1>2 DEF FinishRun
  <2> HIDE DEF r
  <2> QED
    BY <2>1, <2>2, RewriteRow
<1>3. CASE DeleteRun(i)
  <2> DEFINE r == [rows[i] EXCEPT !.status = "deleted"]
  <2>1. r \in Row
    BY <1>1 DEF Row
  <2>2. rows' = [rows EXCEPT ![i] = r]
    BY <1>3 DEF DeleteRun
  <2> HIDE DEF r
  <2> QED
    BY <2>1, <2>2, RewriteRow
<1> QED
  BY <1>2, <1>3

LEMMA NewRow ==
  ASSUME TypeOK, TaskKnown, NEW c \in Caller,
         caller[c].pc \notin {"idle", "exited"}, StartRun(c)
  PROVE  /\ rows' \in Seq(Row)
         /\ DOMAIN rows \subseteq DOMAIN rows'
         /\ \A j \in DOMAIN rows : rows'[j] = rows[j]
         /\ Len(rows) + 1 \in DOMAIN rows' /\ Len(rows) + 1 \notin DOMAIN rows
         /\ rows'[Len(rows) + 1].status = "running"
<1> DEFINE r == [task |-> caller[c].task, trigger |-> TriggerOf(c),
                 status |-> "running", error |-> "none"]
<1>1. r \in Row /\ r.status = "running"
  BY DEF TaskKnown, Row, TriggerOf
<1>2. rows' = Append(rows, r) /\ rows \in Seq(Row)
  BY DEF StartRun, TypeOK
<1> HIDE DEF r
<1> QED
  BY <1>1, <1>2, AppendRow

-----------------------------------------------------------------------------
(* Every step of the specification preserves the invariant.                 *)

LEMMA StepIInv == IInv /\ [Next]_vars => IInv'
<1> SUFFICES ASSUME IInv, [Next]_vars PROVE IInv'
  OBVIOUS
<1> USE RunnerAssumption
<1>ty. TypeOK
  BY DEF IInv
<1>c. \A c \in Caller : caller[c] \in CallerRec
  BY <1>ty DEF TypeOK, CallerRec
<1>d. daemon = "draining" \/ (\E c \in Caller : caller[c].pc # "idle")
        => daemon \in {"up", "draining"}
  BY <1>ty DEF IInv, DownIdle, TypeOK, Rest
<1>1. ASSUME NEW t \in Scheduled, Fire(t) PROVE IInv'
  <2>1. t \in Caller /\ t \in Task
    BY DEF Caller
  <2>2. Launched(t) \in CallerRec
    BY <2>1 DEF Launched, CallerRec, PC, Outcome
  <2>3. ~Holding(t)' /\ ~Owns(t)'
    BY <1>1, <2>1, <2>2, <1>ty, CallerUpdate DEF Fire, Launched, Holding, Owns
  <2> QED
    BY <1>1, <1>ty, <1>d, <2>1, <2>2, <2>3, CallerUpdate, CallerStep
       DEF Fire, Launched, TypeOK
<1>2. ASSUME NEW m \in Manual, NEW t \in Task, Trigger(m, t) PROVE IInv'
  <2>1. m \in Caller
    BY DEF Caller
  <2>2. Launched(t) \in CallerRec
    BY DEF Launched, CallerRec, PC, Outcome
  <2>3. ~Holding(m)' /\ ~Owns(m)'
    BY <1>2, <2>1, <2>2, <1>ty, CallerUpdate DEF Trigger, Launched, Holding, Owns
  <2> QED
    BY <1>2, <1>ty, <1>d, <2>1, <2>2, <2>3, CallerUpdate, CallerStep
       DEF Trigger, Launched, TypeOK
<1>3. ASSUME NEW t \in Scheduled, LoopExit(t) PROVE IInv'
  <2> DEFINE r == [caller[t] EXCEPT !.pc = "exited"]
  <2>1. t \in Caller
    BY DEF Caller
  <2>2. r \in CallerRec /\ r.pc = "exited"
    BY <2>1, <1>c DEF CallerRec, PC
  <2>3. caller' = [caller EXCEPT ![t] = r]
    BY <1>3 DEF LoopExit, Goto
  <2> HIDE DEF r
  <2>4. caller'[t] = r /\ ~Holding(t)' /\ ~Owns(t)'
    BY <2>1, <2>2, <2>3, <1>ty, CallerUpdate DEF Holding, Owns
  <2> QED
    BY <1>3, <1>ty, <1>d, <2>1, <2>2, <2>3, <2>4, CallerUpdate, CallerStep
       DEF LoopExit, TypeOK
<1>4. ASSUME NEW c \in Caller, Enter(c) PROVE IInv'
  <2> DEFINE r(pc) == [caller[c] EXCEPT !.pc = pc]
  <2>1. caller[c].task \in Task /\ ~Holding(c) /\ ~Owns(c)
    BY <1>4 DEF Enter, IInv, TaskKnown, Holding, Owns
  <2>2. CASE caller[c].task \in running /\ Goto(c, "overlap") /\ UNCHANGED running
    <3>1. r("overlap") \in CallerRec /\ r("overlap").pc = "overlap"
          /\ r("overlap").task = caller[c].task
      BY <1>c DEF CallerRec, PC
    <3>2. caller' = [caller EXCEPT ![c] = r("overlap")]
      BY <2>2 DEF Goto
    <3> HIDE DEF r
    <3>3. caller'[c] = r("overlap") /\ ~Holding(c)' /\ ~Owns(c)'
      BY <3>1, <3>2, <1>ty, CallerUpdate DEF Holding, Owns
    <3> QED
      BY <1>4, <1>ty, <1>d, <2>1, <2>2, <3>1, <3>2, <3>3, CallerUpdate, CallerStep
         DEF Enter, TypeOK
  <2>3. CASE caller[c].task \notin running /\ Goto(c, "start")
             /\ running' = running \cup {caller[c].task}
    <3>1. r("start") \in CallerRec /\ r("start").pc = "start"
          /\ r("start").task = caller[c].task
      BY <1>c DEF CallerRec, PC
    <3>2. caller' = [caller EXCEPT ![c] = r("start")]
      BY <2>3 DEF Goto
    <3> HIDE DEF r
    <3>3. caller'[c] = r("start") /\ ~Owns(c)'
      BY <3>1, <3>2, <1>ty, CallerUpdate DEF Owns
    <3> QED
      BY <1>4, <1>ty, <1>d, <2>1, <2>3, <3>1, <3>2, <3>3, CallerUpdate, CallerStep
         DEF Enter, TypeOK
  <2> QED
    BY <1>4, <2>2, <2>3 DEF Enter
<1>5. ASSUME NEW c \in Caller, OverlapStart(c) \/ Start(c) PROVE IInv'
  <2> DEFINE pc == IF caller[c].pc = "overlap" THEN "skip" ELSE "body"
             r == [caller[c] EXCEPT !.pc = pc, !.id = Len(rows) + 1]
  <2>1. caller[c].task \in Task /\ caller[c].pc \in {"overlap", "start"} /\ ~Owns(c)
    BY <1>5 DEF OverlapStart, Start, IInv, TaskKnown, Owns
  <2>2. /\ r \in CallerRec /\ r.task = caller[c].task /\ r.id = Len(rows) + 1
        /\ r.pc \in {"skip", "body"} /\ (r.pc = "body" => caller[c].pc = "start")
    <3>1. caller[c] \in CallerRec /\ Len(rows) + 1 \in Nat
      BY <1>c, <1>ty DEF TypeOK
    <3>2. pc \in {"skip", "body"} /\ (pc = "body" => caller[c].pc = "start")
      BY <2>1
    <3> HIDE DEF pc
    <3> QED
      BY <3>1, <3>2 DEF CallerRec, PC
  <2>3. caller' = [caller EXCEPT ![c] = r]
    BY <1>5 DEF OverlapStart, Start
  <2> HIDE DEF r, pc
  <2>4. caller'[c] = r
    BY <2>2, <2>3, <1>ty, CallerUpdate
  <2>5. /\ rows' \in Seq(Row) /\ DOMAIN rows \subseteq DOMAIN rows'
        /\ \A j \in DOMAIN rows : rows'[j] = rows[j]
        /\ r.id \in DOMAIN rows' /\ r.id \notin DOMAIN rows
        /\ rows'[r.id].status = "running"
    BY <1>5, <1>ty, <2>1, <2>2, NewRow DEF IInv, OverlapStart, Start
  <2>6. Holding(c)' => Holding(c)
    BY <2>2, <2>4 DEF Holding
  <2>7. Holding(c) => caller[c].task \in running
    BY DEF IInv, GuardHeld
  <2> QED
    BY <1>5, <1>ty, <1>d, <2>1, <2>2, <2>3, <2>4, <2>5, <2>6, <2>7, CallerUpdate, CallerStep
       DEF OverlapStart, Start, TypeOK
<1>6. ASSUME NEW c \in Caller, OverlapFinish(c) \/ Report(c) PROVE IInv'
  <2>1. Owns(c) /\ caller[c].id \in DOMAIN rows /\ rows \in Seq(Row) /\ ~Holding(c)
    BY <1>6, <1>ty DEF OverlapFinish, Report, Owns, Holding, IInv, RowOwned, TypeOK
  <2>2. \E st \in Terminal, er \in {"none", "overlap", "orphaned", "message"} :
          FinishRun(caller[c].id, st, er) \/ DeleteRun(caller[c].id)
    BY <1>6 DEF OverlapFinish, Report, Terminal
  <2>3. /\ rows' \in Seq(Row) /\ DOMAIN rows' = DOMAIN rows
        /\ \A j \in DOMAIN rows : j # caller[c].id => rows'[j] = rows[j]
    BY <2>1, <2>2, FinishRow
  <2>4. caller' = [caller EXCEPT ![c] = Rest]
    BY <1>6 DEF OverlapFinish, Report, Return
  <2>5. caller'[c] = Rest /\ ~Holding(c)' /\ ~Owns(c)'
    BY <2>4, <1>ty, RestRec, CallerUpdate DEF Holding, Owns, Rest
  <2>6. /\ UNCHANGED <<daemon, running, faults, restarts>>
        /\ caller[c].pc # "idle" /\ Rest.pc = "idle"
    BY <1>6 DEF OverlapFinish, Report, Rest
  <2>7. daemon' \in {"up", "draining"} /\ running' \subseteq Task
        /\ faults' \in Nat /\ restarts' \in Nat
    BY <2>6, <1>ty, <1>d DEF TypeOK
  <2> QED
    BY <1>ty, <2>1, <2>3, <2>4, <2>5, <2>6, <2>7, RestRec, CallerUpdate, CallerStep
<1>7. ASSUME NEW c \in Caller, OverlapFault(c) \/ ReportFault(c) PROVE IInv'
  <2>1. caller' = [caller EXCEPT ![c] = Rest] /\ faults' \in Nat /\ ~Holding(c)
    BY <1>7, <1>ty DEF OverlapFault, ReportFault, Return, StoreFault, Holding, TypeOK
  <2>2. caller'[c] = Rest /\ ~Holding(c)' /\ ~Owns(c)'
    BY <2>1, <1>ty, RestRec, CallerUpdate DEF Holding, Owns, Rest
  <2>3. /\ UNCHANGED <<daemon, running, rows, restarts>>
        /\ caller[c].pc # "idle" /\ Rest.pc = "idle"
    BY <1>7 DEF OverlapFault, ReportFault, Rest
  <2>4. daemon' \in {"up", "draining"} /\ running' \subseteq Task
        /\ rows' \in Seq(Row) /\ restarts' \in Nat
    BY <2>3, <1>ty, <1>d DEF TypeOK
  <2> QED
    BY <1>ty, <2>1, <2>2, <2>3, <2>4, RestRec, CallerUpdate, CallerStep
<1>8. ASSUME NEW c \in Caller, StartFault(c) PROVE IInv'
  <2>1. caller' = [caller EXCEPT ![c] = Rest] /\ faults' \in Nat
    BY <1>8, <1>ty DEF StartFault, Return, StoreFault, TypeOK
  <2>2. caller'[c] = Rest /\ ~Holding(c)' /\ ~Owns(c)'
    BY <2>1, <1>ty, RestRec, CallerUpdate DEF Holding, Owns, Rest
  <2>3. /\ rows' \in Seq(Row) /\ DOMAIN rows \subseteq DOMAIN rows'
        /\ \A j \in DOMAIN rows : rows'[j] = rows[j]
    BY <1>8, <1>ty, NewRow DEF StartFault, TypeOK, IInv
  <2> QED
    BY <1>8, <1>ty, <1>d, <2>1, <2>2, <2>3, RestRec, CallerUpdate, CallerStep
       DEF StartFault, TypeOK, Rest
<1>9. ASSUME NEW c \in Caller, Body(c) PROVE IInv'
  <2>1. PICK out \in Outcome \ {"none"} :
          caller' = [caller EXCEPT ![c].pc = "release", ![c].out = out]
    BY <1>9 DEF Body
  <2> DEFINE r == [caller[c] EXCEPT !.pc = "release", !.out = out]
  <2>2. /\ r \in CallerRec /\ r.pc = "release"
        /\ r.task = caller[c].task /\ r.id = caller[c].id
    BY <1>c DEF CallerRec, PC
  <2>3. caller' = [caller EXCEPT ![c] = r]
    BY <2>1
  <2> HIDE DEF r
  <2>4. caller'[c] = r
    BY <2>2, <2>3, <1>ty, CallerUpdate
  <2>5. Holding(c) /\ Owns(c) /\ caller[c].task \in Task /\ caller[c].task \in running
        /\ caller[c].id \in DOMAIN rows /\ rows[caller[c].id].status = "running"
    BY <1>9 DEF Body, Holding, Owns, IInv, TaskKnown, GuardHeld, RowOwned
  <2> QED
    BY <1>9, <1>ty, <1>d, <2>2, <2>3, <2>4, <2>5, CallerUpdate, CallerStep DEF Body, TypeOK
<1>10. ASSUME NEW c \in Caller, Release(c) PROVE IInv'
  <2> DEFINE r == [caller[c] EXCEPT !.pc = "report"]
  <2>1. /\ r \in CallerRec /\ r.pc = "report"
        /\ r.task = caller[c].task /\ r.id = caller[c].id
    BY <1>c DEF CallerRec, PC
  <2>2. caller' = [caller EXCEPT ![c] = r]
    BY <1>10 DEF Release, Goto
  <2> HIDE DEF r
  <2>3. caller'[c] = r /\ ~Holding(c)'
    BY <2>1, <2>2, <1>ty, CallerUpdate DEF Holding
  <2>4. Holding(c) /\ Owns(c) /\ caller[c].task \in Task
        /\ caller[c].id \in DOMAIN rows /\ rows[caller[c].id].status = "running"
    BY <1>10 DEF Release, Holding, Owns, IInv, TaskKnown, RowOwned
  <2> QED
    BY <1>10, <1>ty, <1>d, <2>1, <2>2, <2>3, <2>4, CallerUpdate, CallerStep DEF Release, TypeOK
<1>11. ASSUME Stop \/ Crash PROVE IInv'
  <2>1. \A c \in Caller : caller'[c] = Rest
    BY <1>11 DEF Stop, Crash, Vanish
  <2>2. \A c \in Caller : ~Holding(c)' /\ ~Owns(c)'
    BY <2>1 DEF Holding, Owns, Rest
  <2>3. TypeOK'
    BY <1>11, <1>ty, RestRec DEF Stop, Crash, Vanish, TypeOK, CallerRec
  <2> QED
    BY <2>1, <2>2, <2>3
       DEF IInv, TaskKnown, GuardHeld, MutualExclusion, RowOwned, RowPrivate, DownIdle, Rest
<1>12. CASE Open
  <2>1. TypeOK'
    <3>1. \A i \in DOMAIN rows : Orphaned(rows[i]) \in Row
      <4>1. ASSUME NEW r \in Row PROVE Orphaned(r) \in Row
        BY DEF Orphaned, Row, Terminal
      <4> QED
        BY <4>1, <1>ty DEF TypeOK
    <3>2. rows' \in Seq(Row)
      BY <1>12, <1>ty, <3>1, MapRow DEF Open, TypeOK
    <3> QED
      BY <1>12, <1>ty, <3>2 DEF Open, TypeOK
  <2>2. \A c \in Caller : caller'[c] = Rest
    BY <1>12 DEF Open, IInv, DownIdle
  <2>3. \A c \in Caller : ~Holding(c)' /\ ~Owns(c)'
    BY <2>2 DEF Holding, Owns, Rest
  <2> QED
    BY <2>1, <2>2, <2>3
       DEF IInv, TaskKnown, GuardHeld, MutualExclusion, RowOwned, RowPrivate, DownIdle, Rest
<1>13. CASE Cancel
  <2>1. TypeOK' /\ daemon' # "down"
    BY <1>13, <1>ty DEF Cancel, TypeOK
  <2> QED
    BY <1>13, <2>1
       DEF Cancel, IInv, TaskKnown, GuardHeld, MutualExclusion, RowOwned, RowPrivate,
           DownIdle, Holding, Owns
<1>14. CASE UNCHANGED vars
  BY <1>14 DEF vars, IInv, TypeOK, TaskKnown, GuardHeld, MutualExclusion, RowOwned,
               RowPrivate, DownIdle, Holding, Owns
<1> QED
  BY <1>1, <1>2, <1>3, <1>4, <1>5, <1>6, <1>7, <1>8, <1>9, <1>10, <1>11, <1>12, <1>13, <1>14
     DEF Next, RunStep, RunFault

-----------------------------------------------------------------------------
\* The inductive invariant holds in every state of every behaviour of the daemon.
THEOREM Invariance == Spec => []IInv
  BY InitIInv, StepIInv, PTL DEF Spec

\* Every variable keeps its type, for any number of runs, errors and restarts.
THEOREM TypeCorrect == Spec => []TypeOK
<1>1. IInv => TypeOK
  BY DEF IInv
<1> QED
  BY <1>1, Invariance, PTL

\* The overlap guard works: no task body is ever executed by two callers, also
\* after store errors, graceful shutdowns and crashes at any point of run().
THEOREM MutualExclusionHolds == Spec => []MutualExclusion
<1>1. IInv => MutualExclusion
  BY DEF IInv
<1> QED
  BY <1>1, Invariance, PTL

-----------------------------------------------------------------------------
(* Finality of the history.                                                 *)

FinalKept == \A i \in DOMAIN rows : rows[i].status \in Terminal => rows'[i] = rows[i]

LEMMA StepFinal == IInv /\ [Next]_vars => FinalKept
<1> SUFFICES ASSUME IInv, [Next]_vars PROVE FinalKept
  OBVIOUS
<1>ty. TypeOK
  BY DEF IInv
<1>1. CASE UNCHANGED rows
  BY <1>1 DEF FinalKept
<1>2. ASSUME NEW c \in Caller, OverlapStart(c) \/ Start(c) \/ StartFault(c), ~UNCHANGED rows
      PROVE  FinalKept
  <2>1. StartRun(c) /\ caller[c].pc \notin {"idle", "exited"}
    BY <1>2 DEF OverlapStart, Start, StartFault
  <2> QED
    BY <2>1, <1>ty, NewRow DEF FinalKept, IInv
<1>3. ASSUME NEW c \in Caller, OverlapFinish(c) \/ Report(c) PROVE FinalKept
  <2>1. /\ caller[c].id \in DOMAIN rows /\ rows \in Seq(Row)
        /\ rows[caller[c].id].status \notin Terminal
    BY <1>3, <1>ty DEF OverlapFinish, Report, Owns, IInv, RowOwned, TypeOK, Terminal
  <2>2. \E st \in Terminal, er \in {"none", "overlap", "orphaned", "message"} :
          FinishRun(caller[c].id, st, er) \/ DeleteRun(caller[c].id)
    BY <1>3 DEF OverlapFinish, Report, Terminal
  <2> QED
    BY <2>1, <2>2, FinishRow DEF FinalKept
<1>4. CASE Open
  BY <1>4 DEF Open, Orphaned, FinalKept, Terminal
<1> QED
  BY <1>1, <1>2, <1>3, <1>4
     DEF Next, vars, RunStep, RunFault, Fire, LoopExit, Trigger, Enter, Body, Release,
         OverlapFault, ReportFault, Cancel, Stop, Crash, Vanish

\* A row with a final status is never rewritten or deleted: every report and
\* every orphan sweep touches only rows that still say 'running'.
THEOREM TerminalIsFinalHolds == Spec => TerminalIsFinal
<1>1. IInv /\ [Next]_vars => [FinalKept]_vars
  BY StepFinal
<1>2. TerminalIsFinal <=> [][FinalKept]_vars
  BY DEF TerminalIsFinal, FinalKept
<1> QED
  BY <1>1, <1>2, Invariance, PTL DEF Spec

-----------------------------------------------------------------------------
(* The refinement: which steps change the set of executing callers.         *)

LEMMA InitPromise == Init => Promise!Init
  BY DEF Init, Promise!Init, Active, Holding, Rest

\* A step that does not move c into or out of the holding states, and moves no
\* other caller, is a stutter of the abstract specification.
LEMMA SameActive ==
  ASSUME NEW c \in Caller,
         \A d \in Caller : d # c => caller'[d] = caller[d],
         Holding(c)' <=> Holding(c),
         Holding(c) => caller'[c].task = caller[c].task
  PROVE  Active' = Active
<1>1. \A d \in Caller : /\ Holding(d)' <=> Holding(d)
                        /\ Holding(d) => caller'[d].task = caller[d].task
  BY DEF Holding
<1>2. ASSUME NEW d \in Caller, Holding(d) PROVE <<d, caller'[d].task>> = <<d, caller[d].task>>
  BY <1>1, <1>2
<1> QED
  BY <1>1, <1>2 DEF Active

LEMMA StepPromise == IInv /\ [Next]_vars => [Promise!Next]_Active
<1> SUFFICES ASSUME IInv, [Next]_vars, Active' # Active PROVE Promise!Next
  OBVIOUS
<1>ty. TypeOK
  BY DEF IInv
<1>0. \A p \in Active : p[1] \in Caller /\ Holding(p[1]) /\ p[2] = caller[p[1]].task
  BY DEF Active
<1>1. ASSUME NEW c \in Caller, Enter(c), caller[c].task \notin running PROVE Promise!Next
  <2>1. caller[c].task \in Task
    BY <1>1 DEF Enter, IInv, TaskKnown
  <2>2. \A p \in Active : p[1] # c /\ p[2] # caller[c].task
    BY <1>0, <1>1 DEF Enter, Holding, IInv, GuardHeld
  <2>3. /\ \A d \in Caller : d # c => caller'[d] = caller[d]
        /\ caller'[c].task = caller[c].task /\ caller'[c].pc = "start"
    BY <1>1, <1>ty DEF Enter, Goto, TypeOK
  <2>4. Active' = Active \cup {<<c, caller[c].task>>}
    BY <2>3, <1>1 DEF Active, Holding, Enter
  <2> QED
    BY <2>1, <2>2, <2>4 DEF Promise!Next, Promise!Begin
<1>2. ASSUME NEW c \in Caller, Release(c) \/ StartFault(c) PROVE Promise!Next
  <2>1. Holding(c) /\ caller[c].task \in Task
    BY <1>2 DEF Release, StartFault, Holding, IInv, TaskKnown
  <2>2. /\ \A d \in Caller : d # c => caller'[d] = caller[d]
        /\ caller'[c].pc \in {"report", "idle"}
    BY <1>2, <1>ty DEF Release, StartFault, Goto, Return, Rest, TypeOK
  <2>3. Active' = Active \ {<<c, caller[c].task>>}
    BY <2>2, <2>1 DEF Active, Holding
  <2>4. <<c, caller[c].task>> \in Active
    BY <2>1 DEF Active
  <2> QED
    BY <2>1, <2>3, <2>4 DEF Promise!Next, Promise!End
<1>3. CASE Stop \/ Crash
  BY <1>3 DEF Stop, Crash, Vanish, Active, Holding, Rest, Promise!Next, Promise!Die
<1>4. CASE UNCHANGED caller
  BY <1>4 DEF Active, Holding
<1>5. ASSUME NEW c \in Caller,
             \/ c \in Scheduled /\ (Fire(c) \/ LoopExit(c))
             \/ c \in Manual /\ \E t \in Task : Trigger(c, t)
             \/ Enter(c) /\ caller[c].task \in running
             \/ OverlapStart(c) \/ OverlapFinish(c) \/ OverlapFault(c)
             \/ Report(c) \/ ReportFault(c)
      PROVE  FALSE
  <2>1. /\ ~Holding(c)
        /\ \/ \E t \in Task : caller' = [caller EXCEPT ![c] = Launched(t)]
           \/ caller' = [caller EXCEPT ![c] = Rest]
           \/ \E pc \in {"overlap", "exited"} : caller' = [caller EXCEPT ![c].pc = pc]
           \/ \E n \in Nat : caller' = [caller EXCEPT ![c].pc = "skip", ![c].id = n]
    <3>1. Len(rows) + 1 \in Nat
      BY <1>ty DEF TypeOK
    <3> QED
      BY <1>5, <3>1, RunnerAssumption
         DEF Fire, LoopExit, Trigger, Enter, OverlapStart, OverlapFinish, OverlapFault,
             Report, ReportFault, Goto, Return, Holding
  <2>2. /\ \A d \in Caller : d # c => caller'[d] = caller[d]
        /\ caller'[c].pc \in {"enter", "idle", "overlap", "exited", "skip"}
    BY <2>1, <1>ty DEF TypeOK, Launched, Rest
  <2>3. ~Holding(c)'
    BY <2>2 DEF Holding
  <2> QED
    BY <2>1, <2>2, <2>3, SameActive
<1>6. ASSUME NEW c \in Caller, Start(c) \/ Body(c) PROVE FALSE
  <2>1. Holding(c)
    BY <1>6 DEF Start, Body, Holding
  <2>2. /\ \A d \in Caller : d # c => caller'[d] = caller[d]
        /\ caller'[c].pc \in {"body", "release"} /\ caller'[c].task = caller[c].task
    BY <1>6, <1>ty DEF Start, Body, TypeOK
  <2>3. Holding(c)'
    BY <2>2 DEF Holding
  <2> QED
    BY <2>1, <2>2, <2>3, SameActive
<1>7. CASE UNCHANGED vars
  BY <1>4, <1>7 DEF vars
<1>8. CASE Cancel \/ Open
  BY <1>4, <1>8 DEF Cancel, Open
<1> QED
  BY <1>1, <1>2, <1>3, <1>5, <1>6, <1>7, <1>8
     DEF Next, RunStep, RunFault, Caller, Enter

\* TaskRunner implements the abstract single-instance promise under the mapping
\* that reads "being executed" as "between guard insert and guard remove".
THEOREM Refinement == Spec => PromiseKept
<1>1. IInv /\ [Next]_vars => [Promise!Next]_Active
  BY StepPromise
<1> QED
  BY <1>1, InitPromise, Invariance, PTL DEF Spec, PromiseKept, Promise!Spec

-----------------------------------------------------------------------------
(* Without store errors the guard is exact.                                 *)

GuardExact == faults = 0 => \A t \in running : \E c \in Caller : Holding(c) /\ caller[c].task = t

\* The counter of store errors moves only with an error, and up to its bound.
LEMMA FaultsGrow == [Next]_vars => UNCHANGED faults \/ StoreFault
  BY DEF Next, vars, RunStep, RunFault, Fire, LoopExit, Trigger, Enter, OverlapStart,
     OverlapFinish, OverlapFault, Start, StartFault, Body, Release, Report, ReportFault,
     Cancel, Stop, Crash, Vanish, Open

LEMMA StepGuardExact == IInv /\ GuardExact /\ [Next]_vars => GuardExact'
<1> SUFFICES ASSUME IInv, GuardExact, [Next]_vars, faults' = 0, NEW t \in running'
             PROVE  \E c \in Caller : Holding(c)' /\ caller'[c].task = t
  BY DEF GuardExact
<1>ty. TypeOK
  BY DEF IInv
<1>1. faults = 0
  BY <1>ty, FaultsGrow DEF TypeOK, StoreFault
<1>2. ~\E c \in Caller : RunFault(c)
  BY <1>1, <1>ty DEF RunFault, OverlapFault, StartFault, ReportFault, StoreFault, TypeOK
<1>3. ~(Stop \/ Crash)
  BY DEF Stop, Crash, Vanish
<1>4. CASE t \in running
  <2>1. PICK h \in Caller : Holding(h) /\ caller[h].task = t
    BY <1>1, <1>4 DEF GuardExact
  <2>2. ~Release(h)
    BY <2>1 DEF Release
  <2>3. caller'[h].pc \in {"start", "body", "release"} /\ caller'[h].task = caller[h].task
    <3>0. caller[h].pc \in {"start", "body", "release"}
      BY <2>1 DEF Holding
    <3>1. ASSUME NEW c \in Scheduled, Fire(c) \/ LoopExit(c)
          PROVE  caller'[h] = caller[h]
      BY <3>0, <3>1, <1>ty DEF Fire, LoopExit, Goto, TypeOK
    <3>2. ASSUME NEW c \in Manual, NEW u \in Task, Trigger(c, u)
          PROVE  caller'[h] = caller[h]
      BY <3>0, <3>2, <1>ty DEF Trigger, TypeOK
    <3>3. ASSUME NEW c \in Caller, RunStep(c), c # h PROVE caller'[h] = caller[h]
      BY <3>3, <1>ty DEF RunStep, Enter, OverlapStart, OverlapFinish, Start, Body, Release,
         Report, Goto, Return, TypeOK
    <3>4. CASE Start(h) \/ Body(h)
      BY <3>4, <1>ty DEF Start, Body, TypeOK
    <3>5. RunStep(h) => Start(h) \/ Body(h)
      BY <3>0, <2>2 DEF RunStep, Enter, OverlapStart, OverlapFinish, Report
    <3>6. CASE UNCHANGED caller
      BY <3>0, <3>6
    <3> QED
      BY <3>0, <3>1, <3>2, <3>3, <3>4, <3>5, <3>6, <1>2, <1>3
         DEF Next, vars, Cancel, Open
  <2> QED
    BY <2>1, <2>3 DEF Holding
<1>5. CASE t \notin running
  <2>1. PICK c \in Caller : Enter(c) /\ running' = running \cup {caller[c].task}
                            /\ Goto(c, "start")
    BY <1>2, <1>3, <1>5 DEF Next, vars, RunStep, Fire, LoopExit, Trigger, Enter, OverlapStart,
       OverlapFinish, Start, Body, Release, Report, Cancel, Open
  <2>2. t = caller[c].task
    BY <2>1, <1>5
  <2>3. caller'[c].pc = "start" /\ caller'[c].task = caller[c].task
    BY <2>1, <1>ty DEF Goto, TypeOK
  <2> QED
    BY <2>2, <2>3 DEF Holding
<1> QED
  BY <1>4, <1>5

\* Until a store call fails, a run is recorded as an overlap only while the task
\* really is being executed: the guard leaks through store errors only.
THEOREM OverlapNeedsFaultHolds == Spec => OverlapNeedsFault
<1> DEFINE Real == \A c \in Caller :
                     TakesOverlap(c) => Executed(caller[c].task) \/ faults > 0
<1>1. Init => GuardExact
  BY DEF Init, GuardExact
<1>2. IInv /\ GuardExact /\ [Next]_vars => GuardExact'
  BY StepGuardExact
<1>3. IInv /\ GuardExact /\ [Next]_vars => [Real]_vars
  <2> SUFFICES ASSUME IInv, GuardExact, Next, NEW c \in Caller, TakesOverlap(c), ~(faults > 0)
               PROVE  Executed(caller[c].task)
    BY DEF vars
  <2> USE DEF TakesOverlap
  <2>ty. TypeOK
    BY DEF IInv
  <2>1. ASSUME NEW t \in Scheduled, Fire(t) \/ LoopExit(t) PROVE FALSE
    BY <2>1, <2>ty DEF TypeOK, Fire, LoopExit, Goto, Launched
  <2>2. ASSUME NEW m \in Manual, NEW t \in Task, Trigger(m, t) PROVE FALSE
    BY <2>2, <2>ty DEF TypeOK, Trigger, Launched
  <2>3. ASSUME NEW d \in Caller, RunStep(d) \/ RunFault(d), d # c PROVE FALSE
    BY <2>3, <2>ty DEF TypeOK, RunStep, RunFault, Enter, OverlapStart, OverlapFinish,
       OverlapFault, Start, StartFault, Body, Release, Report, ReportFault, Goto, Return
  <2>4. ASSUME Cancel \/ Stop \/ Crash \/ Open PROVE FALSE
    BY <2>4 DEF Cancel, Stop, Crash, Vanish, Open, Rest
  <2>5. ASSUME RunStep(c) \/ RunFault(c) PROVE caller[c].task \in running
    BY <2>5, <2>ty DEF TypeOK, RunStep, RunFault, Enter, OverlapStart, OverlapFinish,
       OverlapFault, Start, StartFault, Body, Release, Report, ReportFault, Goto, Return
  <2>6. caller[c].task \in running
    BY <2>1, <2>2, <2>3, <2>4, <2>5 DEF Next
  <2>7. faults = 0
    BY <2>ty DEF TypeOK
  <2> QED
    BY <2>6, <2>7 DEF GuardExact, Executed
<1>4. OverlapNeedsFault <=> [][Real]_vars
  BY DEF OverlapNeedsFault
<1> HIDE DEF Real
<1> QED
  BY <1>1, <1>2, <1>3, <1>4, Invariance, PTL DEF Spec

-----------------------------------------------------------------------------
(* Accuracy of the history: the rows that say 'running' and belong to nobody. *)

\* A run writes under its own task and trigger, and each unowned row is the trace
\* of an error.
AccountInv ==
  /\ \A c \in Caller : Owns(c) => /\ rows[caller[c].id].task = caller[c].task
                                  /\ rows[caller[c].id].trigger = TriggerOf(c)
  /\ daemon # "down" => Cardinality(UnownedRows) <= faults

LEMMA UnownedFinite ==
  ASSUME TypeOK
  PROVE  IsFiniteSet(UnownedRows) /\ Cardinality(UnownedRows) \in Nat
<1>1. Len(rows) \in Nat /\ DOMAIN rows = 1..Len(rows)
  BY DEF TypeOK
<1>2. IsFiniteSet(1..Len(rows))
  BY <1>1, FS_Interval
<1>3. UnownedRows \subseteq 1..Len(rows)
  BY <1>1 DEF UnownedRows
<1> QED
  BY <1>2, <1>3, FS_Subset, FS_CardinalityType

\* A step of c accounts for its rows if those it stops owning are final, save one
\* that an error lost.
LEMMA CallerAccounts ==
  ASSUME IInv, AccountInv, TypeOK', daemon # "down", NEW c \in Caller,
         \A d \in Caller : d # c => caller'[d] = caller[d],
         DOMAIN rows \subseteq DOMAIN rows',
         \A i \in DOMAIN rows : rows'[i] = rows[i] \/ (Owns(c) /\ i = caller[c].id),
         NEW x, NEW lost, lost = {} \/ (lost = {x} /\ faults' = faults + 1), faults' >= faults,
         \A i \in DOMAIN rows' :
           /\ rows'[i].status = "running"
           /\ i \notin DOMAIN rows \/ (Owns(c) /\ i = caller[c].id)
           => (Owns(c)' /\ caller'[c].id = i) \/ i \in lost,
         Owns(c)' => /\ rows'[caller'[c].id].task = caller'[c].task
                     /\ rows'[caller'[c].id].trigger = TriggerOf(c)
  PROVE  AccountInv'
<1>1. \A d \in Caller : d # c => (Owns(d)' <=> Owns(d))
  BY DEF Owns
<1>2. ASSUME NEW d \in Caller, Owns(d)'
      PROVE  /\ rows'[caller'[d].id].task = caller'[d].task
             /\ rows'[caller'[d].id].trigger = TriggerOf(d)
  <2>1. CASE d = c
    BY <1>2, <2>1
  <2>2. CASE d # c
    <3>1. Owns(d) /\ caller[d].id \in DOMAIN rows /\ (Owns(c) => caller[d].id # caller[c].id)
      BY <1>1, <1>2, <2>2 DEF IInv, RowOwned, RowPrivate
    <3>2. rows'[caller[d].id] = rows[caller[d].id]
      BY <3>1
    <3> QED
      BY <2>2, <3>1, <3>2 DEF AccountInv
  <2> QED
    BY <2>1, <2>2
<1>3. UnownedRows' \subseteq UnownedRows \cup lost
  <2> SUFFICES ASSUME NEW i \in UnownedRows', i \notin lost PROVE i \in UnownedRows
    OBVIOUS
  <2>1. /\ i \in DOMAIN rows' /\ rows'[i].status = "running"
        /\ \A d \in Caller : ~(Owns(d)' /\ caller'[d].id = i)
    BY DEF UnownedRows
  <2>2. i \in DOMAIN rows /\ ~(Owns(c) /\ i = caller[c].id)
    BY <2>1
  <2>3. rows'[i] = rows[i]
    BY <2>2
  <2>4. \A d \in Caller : ~(Owns(d) /\ caller[d].id = i)
    BY <1>1, <2>1, <2>2
  <2> QED
    BY <2>1, <2>2, <2>3, <2>4 DEF UnownedRows
<1>4. IsFiniteSet(UnownedRows) /\ Cardinality(UnownedRows) \in Nat /\ Cardinality(UnownedRows) <= faults
  BY UnownedFinite DEF IInv, AccountInv
<1>5. faults \in Nat /\ faults' \in Nat
  BY DEF IInv, TypeOK
<1>6. CASE lost = {}
  <2>1. UnownedRows' \subseteq UnownedRows
    BY <1>3, <1>6
  <2>2. Cardinality(UnownedRows') <= Cardinality(UnownedRows) /\ Cardinality(UnownedRows') \in Nat
    BY <1>4, <2>1, FS_Subset, FS_CardinalityType
  <2>3. Cardinality(UnownedRows') <= faults'
    BY <1>4, <1>5, <2>2
  <2> QED
    BY <1>2, <2>3 DEF AccountInv
<1>7. CASE lost = {x} /\ faults' = faults + 1
  <2>1. IsFiniteSet(UnownedRows \cup {x}) /\ Cardinality(UnownedRows \cup {x}) <= Cardinality(UnownedRows) + 1
    <3> DEFINE n == Cardinality(UnownedRows)
               more == Cardinality(UnownedRows \cup {x})
    <3>1. IsFiniteSet(UnownedRows \cup {x}) /\ more \in {n, n + 1} /\ n \in Nat
      BY <1>4, FS_AddElement
    <3> HIDE DEF n, more
    <3>2. more <= n + 1
      BY <3>1
    <3> QED
      BY <3>1, <3>2 DEF n, more
  <2>2. UnownedRows' \subseteq UnownedRows \cup {x}
    BY <1>3, <1>7
  <2>3. /\ Cardinality(UnownedRows') <= Cardinality(UnownedRows \cup {x})
        /\ Cardinality(UnownedRows') \in Nat /\ Cardinality(UnownedRows \cup {x}) \in Nat
    BY <2>1, <2>2, FS_Subset, FS_CardinalityType
  <2>4. Cardinality(UnownedRows') <= faults'
    BY <1>4, <1>5, <1>7, <2>1, <2>3
  <2> QED
    BY <1>2, <2>4 DEF AccountInv
<1> QED
  BY <1>6, <1>7

\* The new row of a run.
LEMMA RunRow ==
  ASSUME TypeOK, NEW c \in Caller, StartRun(c)
  PROVE  /\ DOMAIN rows' = DOMAIN rows \cup {Len(rows) + 1}
         /\ Len(rows) + 1 \notin DOMAIN rows
         /\ rows'[Len(rows) + 1].task = caller[c].task
         /\ rows'[Len(rows) + 1].trigger = TriggerOf(c)
         /\ \A j \in DOMAIN rows : rows'[j] = rows[j]
<1> DEFINE r == [task |-> caller[c].task, trigger |-> TriggerOf(c),
                 status |-> "running", error |-> "none"]
<1>1. r.task = caller[c].task /\ r.trigger = TriggerOf(c)
  OBVIOUS
<1>2. rows' = Append(rows, r) /\ rows \in Seq(Row)
  BY DEF StartRun, TypeOK
<1> HIDE DEF r
<1>3. /\ Len(rows) \in Nat /\ DOMAIN rows = 1..Len(rows) /\ DOMAIN rows' = 1..(Len(rows) + 1)
      /\ rows'[Len(rows) + 1] = r /\ \A j \in DOMAIN rows : rows'[j] = rows[j]
  BY <1>2
<1>4. 1..(Len(rows) + 1) = (1..Len(rows)) \cup {Len(rows) + 1} /\ Len(rows) + 1 \notin 1..Len(rows)
  BY <1>3
<1> QED
  BY <1>1, <1>3, <1>4

LEMMA StepAccounts == IInv /\ TypeOK' /\ AccountInv /\ [Next]_vars => AccountInv'
<1> SUFFICES ASSUME IInv, TypeOK', AccountInv, [Next]_vars PROVE AccountInv'
  OBVIOUS
<1>ty. TypeOK
  BY DEF IInv
<1>c. \A c \in Caller : caller[c] \in CallerRec
  BY <1>ty DEF TypeOK, CallerRec
<1>d. (\E c \in Caller : caller[c].pc # "idle") => daemon # "down"
  BY DEF IInv, DownIdle, Rest
<1>f. faults \in Nat /\ faults >= faults /\ faults + 1 >= faults
  BY <1>ty DEF TypeOK
<1>1. ASSUME NEW c \in Caller, daemon # "down", UNCHANGED <<rows, faults>>, ~Owns(c), ~Owns(c)',
             \A d \in Caller : d # c => caller'[d] = caller[d]
      PROVE  AccountInv'
  <2>1. \A i \in DOMAIN rows' : i \in DOMAIN rows
    BY <1>1
  <2> DEFINE lost == {}
  <2>2. lost = {}
    OBVIOUS
  <2> HIDE DEF lost
  <2> QED
    BY <1>1, <1>f, <2>1, <2>2, CallerAccounts
<1>2. ASSUME NEW t \in Scheduled, Fire(t) PROVE AccountInv'
  <2>1. t \in Caller /\ Launched(t) \in CallerRec
    BY RunnerAssumption DEF Caller, Launched, CallerRec, PC, Outcome
  <2>2. /\ \A d \in Caller : d # t => caller'[d] = caller[d]
        /\ ~Owns(t) /\ ~Owns(t)'
    BY <1>2, <1>ty, <2>1, CallerUpdate DEF Fire, Launched, Owns
  <2> QED
    BY <1>1, <1>2, <2>1, <2>2 DEF Fire
<1>3. ASSUME NEW m \in Manual, NEW t \in Task, Trigger(m, t) PROVE AccountInv'
  <2>1. m \in Caller /\ Launched(t) \in CallerRec
    BY DEF Caller, Launched, CallerRec, PC, Outcome
  <2>2. /\ \A d \in Caller : d # m => caller'[d] = caller[d]
        /\ ~Owns(m) /\ ~Owns(m)'
    BY <1>3, <1>ty, <2>1, CallerUpdate DEF Trigger, Launched, Owns
  <2> QED
    BY <1>1, <1>3, <2>1, <2>2 DEF Trigger
<1>4. ASSUME NEW t \in Scheduled, LoopExit(t) PROVE AccountInv'
  <2>1. t \in Caller
    BY DEF Caller
  <2>2. /\ \A d \in Caller : d # t => caller'[d] = caller[d]
        /\ caller'[t].pc = "exited" /\ ~Owns(t)
    BY <1>4, <1>ty, <2>1 DEF LoopExit, Goto, Owns, TypeOK
  <2> QED
    BY <1>1, <1>4, <2>1, <2>2 DEF LoopExit, Owns
<1>5. ASSUME NEW c \in Caller, Enter(c) PROVE AccountInv'
  <2>1. /\ \A d \in Caller : d # c => caller'[d] = caller[d]
        /\ caller'[c].pc \in {"overlap", "start"} /\ ~Owns(c)
    BY <1>5, <1>ty DEF Enter, Goto, Owns, TypeOK
  <2> QED
    BY <1>1, <1>5, <1>d, <2>1 DEF Enter, Owns
<1>6. ASSUME NEW c \in Caller, OverlapStart(c) \/ Start(c) PROVE AccountInv'
  <2>1. StartRun(c) /\ ~Owns(c) /\ daemon # "down" /\ faults' = faults
    BY <1>6, <1>d DEF OverlapStart, Start, Owns
  <2>2. /\ \A d \in Caller : d # c => caller'[d] = caller[d]
        /\ caller'[c].id = Len(rows) + 1 /\ caller'[c].task = caller[c].task
        /\ caller'[c].pc \in {"skip", "body"}
    BY <1>6, <1>ty DEF OverlapStart, Start, TypeOK
  <2>3. Owns(c)'
    BY <2>2 DEF Owns
  <2> DEFINE lost == {}
  <2>4. lost = {}
    OBVIOUS
  <2>5. \A i \in DOMAIN rows' : i \notin DOMAIN rows => caller'[c].id = i
    BY <1>ty, <2>1, <2>2, RunRow
  <2> HIDE DEF lost
  <2> QED
    BY <1>ty, <1>f, <2>1, <2>2, <2>3, <2>4, <2>5, RunRow, CallerAccounts
<1>7. ASSUME NEW c \in Caller, OverlapFinish(c) \/ Report(c) PROVE AccountInv'
  <2>1. /\ caller[c].id \in DOMAIN rows /\ rows \in Seq(Row) /\ daemon # "down"
        /\ faults' = faults
    BY <1>7, <1>ty, <1>d DEF OverlapFinish, Report, Owns, IInv, RowOwned, TypeOK
  <2>2. \E st \in Terminal, er \in {"none", "overlap", "orphaned", "message"} :
          FinishRun(caller[c].id, st, er) \/ DeleteRun(caller[c].id)
    BY <1>7 DEF OverlapFinish, Report, Terminal
  <2>3. /\ rows' \in Seq(Row) /\ DOMAIN rows' = DOMAIN rows
        /\ \A j \in DOMAIN rows : j # caller[c].id => rows'[j] = rows[j]
    BY <2>1, <2>2, FinishRow
  <2>4. rows'[caller[c].id].status # "running"
    <3>1. DOMAIN rows[caller[c].id] = {"task", "trigger", "status", "error"}
      <4>1. rows[caller[c].id] \in Row
        BY <2>1
      <4>2. \A r \in Row : DOMAIN r = {"task", "trigger", "status", "error"}
        BY DEF Row
      <4> QED
        BY <4>1, <4>2
    <3>2. PICK st \in Terminal, er \in {"none", "overlap", "orphaned", "message"} :
            FinishRun(caller[c].id, st, er) \/ DeleteRun(caller[c].id)
      BY <2>2
    <3>3. CASE FinishRun(caller[c].id, st, er)
      <4>1. rows' = [rows EXCEPT ![caller[c].id] = [rows[caller[c].id] EXCEPT !.status = st, !.error = er]]
        BY <3>3 DEF FinishRun
      <4>2. [rows[caller[c].id] EXCEPT !.status = st, !.error = er].status = st
        BY <3>1
      <4> QED
        BY <2>1, <4>1, <4>2 DEF Terminal
    <3>4. CASE DeleteRun(caller[c].id)
      BY <2>1, <3>1, <3>4 DEF DeleteRun
    <3> QED
      BY <3>2, <3>3, <3>4
  <2>5. caller'[c] = Rest /\ \A d \in Caller : d # c => caller'[d] = caller[d]
    BY <1>7, <1>ty, RestRec, CallerUpdate DEF OverlapFinish, Report, Return
  <2>6. ~Owns(c)' /\ Owns(c)
    BY <1>7, <2>5 DEF Owns, Rest, OverlapFinish, Report
  <2> DEFINE lost == {}
  <2>7. lost = {}
    OBVIOUS
  <2> HIDE DEF lost
  <2> QED
    BY <1>f, <2>1, <2>3, <2>4, <2>5, <2>6, <2>7, CallerAccounts
<1>8. ASSUME NEW c \in Caller, OverlapFault(c) \/ ReportFault(c) PROVE AccountInv'
  <2>1. daemon # "down" /\ faults' = faults + 1 /\ rows' = rows
    BY <1>8, <1>d DEF OverlapFault, ReportFault, StoreFault
  <2>2. caller'[c] = Rest /\ \A d \in Caller : d # c => caller'[d] = caller[d]
    BY <1>8, <1>ty, RestRec, CallerUpdate DEF OverlapFault, ReportFault, Return
  <2>3. ~Owns(c)'
    BY <2>2 DEF Owns, Rest
  <2> DEFINE lost == {caller[c].id}
  <2>4. lost = {caller[c].id}
    OBVIOUS
  <2> HIDE DEF lost
  <2>5. DOMAIN rows' = DOMAIN rows /\ \A i \in DOMAIN rows : rows'[i] = rows[i]
    BY <2>1
  <2>6. \A i \in DOMAIN rows' : i \notin DOMAIN rows \/ (Owns(c) /\ i = caller[c].id) => i \in lost
    BY <2>4, <2>5
  <2>7. faults' >= faults /\ (lost = {caller[c].id} /\ faults' = faults + 1)
    BY <1>f, <2>1, <2>4
  <2>8. \A d \in Caller : d # c => caller'[d] = caller[d]
    BY <2>2
  <2> QED
    BY <2>1, <2>3, <2>5, <2>6, <2>7, <2>8, CallerAccounts
<1>9. ASSUME NEW c \in Caller, StartFault(c) PROVE AccountInv'
  <2>1. daemon # "down" /\ faults' = faults + 1 /\ ~Owns(c) /\ (StartRun(c) \/ rows' = rows)
    BY <1>9, <1>d DEF StartFault, StoreFault, Owns
  <2>2. caller'[c] = Rest /\ \A d \in Caller : d # c => caller'[d] = caller[d]
    BY <1>9, <1>ty, RestRec, CallerUpdate DEF StartFault, Return
  <2>3. ~Owns(c)'
    BY <2>2 DEF Owns, Rest
  <2>4. /\ DOMAIN rows \subseteq DOMAIN rows' /\ \A j \in DOMAIN rows : rows'[j] = rows[j]
        /\ \A i \in DOMAIN rows' : i \notin DOMAIN rows => i = Len(rows) + 1
    BY <1>ty, <2>1, RunRow
  <2> DEFINE lost == {Len(rows) + 1}
  <2>5. lost = {Len(rows) + 1}
    OBVIOUS
  <2> HIDE DEF lost
  <2> QED
    BY <1>f, <2>1, <2>2, <2>3, <2>4, <2>5, CallerAccounts
<1>10. ASSUME NEW c \in Caller, Body(c) \/ Release(c) PROVE AccountInv'
  <2>1. /\ \A d \in Caller : d # c => caller'[d] = caller[d]
        /\ caller'[c].id = caller[c].id /\ caller'[c].task = caller[c].task
        /\ caller'[c].pc \in {"release", "report"}
    BY <1>10, <1>ty DEF Body, Release, Goto, TypeOK
  <2>2. Owns(c) /\ Owns(c)' /\ daemon # "down" /\ rows' = rows /\ faults' = faults
    BY <1>10, <1>d, <2>1 DEF Body, Release, Owns
  <2>3. rows'[caller'[c].id].task = caller'[c].task /\ rows'[caller'[c].id].trigger = TriggerOf(c)
    BY <2>1, <2>2 DEF AccountInv
  <2> DEFINE lost == {}
  <2>4. lost = {}
    OBVIOUS
  <2> HIDE DEF lost
  <2> QED
    BY <1>f, <2>1, <2>2, <2>3, <2>4, CallerAccounts
<1>11. ASSUME Stop \/ Crash PROVE AccountInv'
  <2>1. daemon' = "down" /\ \A c \in Caller : caller'[c] = Rest
    BY <1>11 DEF Stop, Crash, Vanish
  <2> QED
    BY <2>1 DEF AccountInv, Owns, Rest
<1>12. CASE Open
  <2>1. \A c \in Caller : caller'[c] = Rest
    BY <1>12 DEF Open, IInv, DownIdle
  <2>2. \A i \in DOMAIN rows' : rows'[i].status # "running"
    <3>1. ASSUME NEW r \in Row PROVE Orphaned(r).status # "running"
      BY DEF Orphaned, Row
    <3>2. \A i \in DOMAIN rows : rows[i] \in Row
      BY <1>ty DEF TypeOK
    <3> QED
      BY <1>12, <3>1, <3>2 DEF Open
  <2>3. UnownedRows' = {}
    BY <2>2 DEF UnownedRows
  <2>4. Cardinality(UnownedRows') = 0 /\ faults' \in Nat
    BY <2>3, FS_EmptySet DEF TypeOK
  <2>5. Cardinality(UnownedRows') <= faults'
    BY <2>4
  <2> QED
    BY <2>1, <2>5 DEF AccountInv, Owns, Rest
<1>13. CASE Cancel
  <2>1. UnownedRows' = UnownedRows /\ daemon # "down"
    BY <1>13 DEF Cancel, UnownedRows, Owns
  <2> QED
    BY <1>13, <2>1 DEF Cancel, AccountInv, Owns
<1>14. CASE UNCHANGED vars
  <2>1. UnownedRows' = UnownedRows
    BY <1>14 DEF vars, UnownedRows, Owns
  <2> QED
    BY <1>14, <2>1 DEF vars, AccountInv, Owns
<1> QED
  BY <1>2, <1>3, <1>4, <1>5, <1>6, <1>7, <1>8, <1>9, <1>10, <1>11, <1>12, <1>13, <1>14
     DEF Next, RunStep, RunFault

LEMMA AccountsAlways == Spec => []AccountInv
<1>1. Init => AccountInv
  <2> SUFFICES ASSUME Init PROVE AccountInv
    OBVIOUS
  <2>1. UnownedRows = {}
    BY DEF Init, UnownedRows
  <2>2. Cardinality(UnownedRows) = 0
    BY <2>1, FS_EmptySet
  <2>3. Cardinality(UnownedRows) <= faults
    BY <2>2 DEF Init
  <2> QED
    BY <2>3 DEF Init, AccountInv, Owns, Rest
<1>2. IInv => TypeOK
  BY DEF IInv
<1> QED
  BY <1>1, <1>2, Invariance, StepAccounts, PTL DEF Spec

\* The history is accurate, for any number of tasks, runs, errors, shutdowns and
\* crashes: while the daemon is up each row that says 'running' is the trace of a
\* run in progress of that task or of a store error, and no final row changes
\* (runner.rs, Store::open).
THEOREM HistoryAccurate == Spec => HistoryHolds
<1>1. IInv /\ AccountInv => RowsAccounted
  BY DEF IInv, RowOwned, RowPrivate, AccountInv, RowsAccounted
<1>2. Spec => []RowsAccounted
  BY <1>1, Invariance, AccountsAlways, PTL
<1> QED
  BY <1>2, TerminalIsFinalHolds DEF HistoryHolds

\* When the process ends in a graceful shutdown and no store call has failed, no
\* scheduled run is unfinished (Scheduler::shutdown joins every loop): each
\* 'running' row has an owner, and a loop that has exited owns none.
THEOREM ShutdownDrainsAlways == Spec => ShutdownDrains
<1> DEFINE Drained == Stop => \A i \in DOMAIN rows :
                        rows[i].trigger = "scheduled" /\ rows[i].status = "running" => faults > 0
<1>1. ASSUME IInv, AccountInv, Stop, NEW i \in DOMAIN rows,
             rows[i].trigger = "scheduled", rows[i].status = "running", ~(faults > 0)
      PROVE  FALSE
  <2>1. faults = 0 /\ daemon # "down"
    BY <1>1 DEF IInv, TypeOK, Stop
  <2>2. IsFiniteSet(UnownedRows) /\ Cardinality(UnownedRows) \in Nat
    BY <1>1, UnownedFinite DEF IInv
  <2>3. Cardinality(UnownedRows) = 0
    BY <1>1, <2>1, <2>2 DEF AccountInv
  <2>4. UnownedRows = {}
    BY <2>2, <2>3, FS_EmptySet
  <2>5. PICK c \in Caller : Owns(c) /\ caller[c].id = i
    BY <1>1, <2>4 DEF UnownedRows
  <2>6. TriggerOf(c) = "scheduled"
    BY <1>1, <2>5 DEF AccountInv
  <2>7. c \in Scheduled
    BY <2>6 DEF TriggerOf, Caller
  <2> QED
    BY <1>1, <2>5, <2>7 DEF Stop, Owns
<1>2. IInv /\ AccountInv /\ [Next]_vars => [Drained]_vars
  BY <1>1
<1>3. ShutdownDrains <=> [][Drained]_vars
  BY DEF ShutdownDrains
<1> QED
  BY <1>2, <1>3, Invariance, AccountsAlways, PTL DEF Spec
=============================================================================
