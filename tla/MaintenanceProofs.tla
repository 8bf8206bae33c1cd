-------------------------- MODULE MaintenanceProofs --------------------------
(***************************************************************************)
(* Theorems of a battlegroup in service.                                   *)
(*                                                                         *)
(* Maintenance, for any number of restarts, commands, faults, backups,     *)
(* prunes, admins and updates of the vendor.  Its three parts share no     *)
(* variable, so each has its own invariant.                                *)
(*                                                                         *)
(* UpdatePipeline, for every number of builds, failures, crashes and       *)
(* manual updates and for every lead and retry time: type correctness; the *)
(* row is cleared only when its build is live; no update starts before the *)
(* announced time but after a deferral that is not its own; where the      *)
(* manifest is readable and until the operator updates by hand, no row is  *)
(* written and no update run without a reason.                             *)
(***************************************************************************)
EXTENDS Maintenance, UpdatePipeline, WellFoundedInduction, TLAPS

-----------------------------------------------------------------------------
(* What the operator wished. *)

\* A command's step tells what it is for.
CommandFits ==
  /\ command = "look" => want \in {"start", "stop"}
  /\ command = "stop" => want \in {"stop", "restart"}

\* Where spec.stop and the wish may differ, and why nothing else is lost: a
\* restart of the daemon that has passed its check finds a battlegroup that was
\* to run, or was overtaken.
WishInv ==
  LET excused == overtaken \/ faults > 0
  IN /\ faults \in Nat /\ wish \in {"start", "stop"}
     /\ trigger \in {"scheduled", "manual"}
     /\ CommandFits
     /\ ~stop => wish = "start" \/ excused
     /\ stop /\ ~Halfway => wish = "stop" \/ excused
     /\ run \in {"stop", "start"} /\ trigger = "scheduled" => wish = "start" \/ excused

LEMMA WishInitially == MaintenanceInit => WishInv
BY DEF MaintenanceInit, LifecycleInit, WishInv, CommandFits, Halfway

LEMMA WishByTask == ASSUME WishInv, Task PROVE WishInv'
<1> USE DEF WishInv, CommandFits, Halfway, cluster, operator, screen, intent, Fault
<1>1. CASE RestartFires BY <1>1 DEF RestartFires
<1>2. CASE RestartSkips BY <1>2 DEF RestartSkips
<1>3. CASE RestartGoes BY <1>3 DEF RestartGoes
<1>4. CASE RestartStops BY <1>4 DEF RestartStops
<1>5. CASE RestartStarts
  <2>1. CASE trigger = "manual" BY <1>5, <2>1 DEF RestartStarts
  <2>2. CASE trigger # "manual" BY <1>5, <2>2 DEF RestartStarts
  <2> QED BY <2>1, <2>2
<1>6. CASE RestartDone BY <1>6 DEF RestartDone
<1>7. CASE RestartGivesUp BY <1>7 DEF RestartGivesUp
<1>8. CASE RestartFails BY <1>8 DEF RestartFails
<1> QED BY <1>1, <1>2, <1>3, <1>4, <1>5, <1>6, <1>7, <1>8 DEF Task

LEMMA WishByOperator == ASSUME WishInv, Operator PROVE WishInv'
<1> USE DEF WishInv, CommandFits, Halfway, cluster, task, intent, screen, Reject, Age
<1>1. CASE PressCommand BY <1>1 DEF PressCommand, FirstStep
<1>2. CASE CommandLooks BY <1>2 DEF CommandLooks
<1>3. CASE CommandStops BY <1>3 DEF CommandStops
<1>4. CASE CommandStarts BY <1>4 DEF CommandStarts
<1>5. CASE CommandUpdates BY <1>5 DEF CommandUpdates
<1>6. CASE CommandWaits BY <1>6 DEF CommandWaits
<1>7. CASE CommandReads BY <1>7 DEF CommandReads
<1>8. CASE CommandShows BY <1>8 DEF CommandShows
<1>9. CASE CommandFails BY <1>9 DEF CommandFails, Fault
<1> QED BY <1>1, <1>2, <1>3, <1>4, <1>5, <1>6, <1>7, <1>8, <1>9 DEF Operator

LEMMA WishInduction == WishInv /\ [MaintenanceNext]_maintenanceVars => WishInv'
<1> SUFFICES ASSUME WishInv, [MaintenanceNext]_maintenanceVars PROVE WishInv'
  OBVIOUS
<1>1. CASE Task
  BY <1>1, WishByTask
<1>2. CASE Operator
  BY <1>2, WishByOperator
<1>3. CASE Cluster \/ Screen \/ UNCHANGED lifecycleVars
  <2>1. UNCHANGED <<run, trigger, command, want, intent, faults, stop>>
    BY <1>3 DEF Cluster, Settle, Report, Screen, BeginRefresh, Refresh, Attach,
       RefreshReads,
       RefreshEnds, cluster, task, operator, intent, lifecycleVars
  <2> QED
    BY <2>1 DEF WishInv, CommandFits, Halfway, intent
<1> QED
  BY <1>1, <1>2, <1>3 DEF MaintenanceNext, Servers, Records, Memory, LifecycleNext,
     maintenanceVars

\* Restarts of the daemon and commands of the operator that interleave in halves
\* leave the servers told what the operator had done last (battlegroup_cli.rs
\* restart beside commands/battlegroup.rs), however many there are.
THEOREM WishHoldsAlways == MaintenanceSpec => []WishHolds
<1>1. WishInv => WishHolds
  BY DEF WishInv, WishHolds
<1> QED
  BY <1>1, WishInitially, WishInduction, PTL DEF MaintenanceSpec

-----------------------------------------------------------------------------
(* What the application shows. *)

\* Until the host is attached again, a server is busy with one thing only: a
\* command, or one refresh; so nothing that was read grows old before it is shown.
ScreenInv ==
  /\ CommandFits
  /\ fetch \in [Fetches -> {"off", "ask", "fresh", "old"}]
  /\ ~attached =>
       /\ command # "idle" => busy /\ \A f \in Fetches : fetch[f] = "off"
       /\ \A f \in Fetches : fetch[f] # "off" =>
            busy /\ fetch[f] # "old" /\ \A g \in Fetches \ {f} : fetch[g] = "off"
       /\ shown = "old" => error \/ command # "idle"

LEMMA ScreenInitially == MaintenanceInit => ScreenInv
BY DEF MaintenanceInit, LifecycleInit, ScreenInv, CommandFits

LEMMA ScreenByOperator == ASSUME ScreenInv, Operator PROVE ScreenInv'
<1> USE DEF ScreenInv, CommandFits, Fetches, screen, Reject, Age
<1>1. CASE PressCommand BY <1>1 DEF PressCommand, FirstStep
<1>2. CASE CommandLooks
  <2>1. (command' = want /\ UNCHANGED <<want, screen>>) \/ Reject
    BY <1>2, Zenon DEF CommandLooks
  <2>2. command # "idle"
    BY <1>2 DEF CommandLooks
  <2>3. CASE command' = want /\ UNCHANGED <<want, screen>> BY <1>2, <2>3
     DEF CommandLooks
  <2>4. CASE Reject BY <2>2, <2>4
  <2> QED BY <2>1, <2>3, <2>4
<1>3. CASE CommandStops BY <1>3 DEF CommandStops
<1>4. CASE CommandStarts BY <1>4 DEF CommandStarts
<1>5. CASE CommandUpdates BY <1>5 DEF CommandUpdates
<1>6. CASE CommandWaits BY <1>6 DEF CommandWaits
<1>7. CASE CommandReads BY <1>7 DEF CommandReads
<1>8. CASE CommandShows BY <1>8 DEF CommandShows
<1>9. CASE CommandFails BY <1>9 DEF CommandFails
<1> QED BY <1>1, <1>2, <1>3, <1>4, <1>5, <1>6, <1>7, <1>8, <1>9 DEF Operator

LEMMA ScreenByRefresh == ASSUME ScreenInv, Screen PROVE ScreenInv'
<1> USE DEF ScreenInv, CommandFits, Fetches, operator, BeginRefresh
<1>1. CASE Refresh BY <1>1 DEF Refresh
<1>2. CASE Attach BY <1>2 DEF Attach
<1>3. CASE RefreshReads BY <1>3 DEF RefreshReads
<1>4. CASE RefreshEnds BY <1>4 DEF RefreshEnds
<1> QED BY <1>1, <1>2, <1>3, <1>4 DEF Screen

LEMMA ScreenInduction == ScreenInv /\ [MaintenanceNext]_maintenanceVars => ScreenInv'
<1> SUFFICES ASSUME ScreenInv, [MaintenanceNext]_maintenanceVars PROVE ScreenInv'
  OBVIOUS
<1>1. CASE Operator
  BY <1>1, ScreenByOperator
<1>2. CASE Screen
  BY <1>2, ScreenByRefresh
<1>3. CASE Cluster \/ Task \/ UNCHANGED lifecycleVars
  <2>1. UNCHANGED <<command, want, screen>>
    BY <1>3 DEF Cluster, Settle, Report, Task, RestartFires, RestartSkips, RestartGoes,
       RestartStops, RestartStarts, RestartDone, RestartGivesUp, RestartFails, operator,
       lifecycleVars
  <2> QED
    BY <2>1 DEF ScreenInv, CommandFits, screen
<1> QED
  BY <1>1, <1>2, <1>3 DEF MaintenanceNext, Servers, Records, Memory, LifecycleNext,
     maintenanceVars

\* What the application shows of a server is no older than the operator's last
\* command, or an error stands beside it, or the host was attached again
\* (useRemoteServerStatus), however many commands and refreshes there are.
THEOREM ScreenFreshAlways == MaintenanceSpec => []ScreenFresh
<1>1. ScreenInv => ScreenFresh
  BY DEF ScreenInv, ScreenFresh
<1> QED
  BY <1>1, ScreenInitially, ScreenInduction, PTL DEF MaintenanceSpec

-----------------------------------------------------------------------------
(* The runs of the backup tasks and the dumps in the cluster. *)

\* The dump pod created last: 0 stands for none.
LEMMA LatestHasPod ==
  ASSUME pod \in [Dumps -> BOOLEAN]
  PROVE  Latest \in 0..MaxDumps /\ (Latest # 0 => pod[Latest])
<1> DEFINE IsLatest(b) == (b # 0 => pod[b]) /\ \A c \in Dumps : pod[c] => c <= b
           Above == {m \in 0..MaxDumps : \A c \in Dumps : pod[c] => c <= m}
<1>1. Above \subseteq Nat /\ MaxDumps \in Above
  BY BackupAssumption DEF Dumps
<1>2. PICK x \in Above : \A y \in Above : ~ (<<y, x>> \in OpToRel(<, Nat))
  BY <1>1, NatLessThanWellFounded, WFMin
<1>3. \A y \in Above : x <= y
  <2>1. ASSUME NEW y \in Above, y < x PROVE FALSE
    BY <1>1, <1>2, <2>1 DEF OpToRel
  <2> QED
    BY <1>1, <2>1
<1>4. x # 0 => pod[x]
  <2>1. ASSUME x # 0, ~pod[x] PROVE FALSE
    <3>1. x - 1 \in 0..MaxDumps
      BY <2>1, BackupAssumption
    <3>2. ASSUME NEW c \in Dumps, pod[c] PROVE c <= x - 1
      BY <2>1, <3>2, BackupAssumption DEF Dumps
    <3>3. x - 1 \in Above
      BY <3>1, <3>2
    <3> QED
      BY <3>1, <3>3, <1>3, BackupAssumption
  <2> QED
    BY <2>1
<1>5. \E b \in 0..MaxDumps : IsLatest(b)
  BY <1>4
<1>6. Latest = CHOOSE b \in 0..MaxDumps : IsLatest(b)
  BY DEF Latest
<1> HIDE DEF IsLatest
<1>7. Latest \in 0..MaxDumps /\ IsLatest(Latest)
  BY <1>5, <1>6
<1> QED
  BY <1>7 DEF IsLatest

LEMMA BackupInitially == MaintenanceInit => BackupTypeOK
BY BackupAssumption DEF MaintenanceInit, BackupInit, BackupTypeOK, Dumps, Backup, NoBackup

\* A step that replaces one caller's run.
LEMMA RunReplaced ==
  ASSUME BackupTypeOK, NEW c \in Callers, NEW r \in Backup,
         backups' = [backups EXCEPT ![c] = r], UNCHANGED <<dumpVars, pruneVars>>
  PROVE  /\ BackupTypeOK'
         /\ \A d \in Callers : backups'[d] = IF d = c THEN r ELSE backups[d]
BY DEF BackupTypeOK, dumpVars, pruneVars

\* What the steps of a run make of it.
LEMMA RunSteps ==
  ASSUME BackupTypeOK, NEW c \in Callers
  PROVE  /\ NoBackup \in Backup /\ [NoBackup EXCEPT !.at = "precheck"] \in Backup
         /\ \A at \in {"vendor", "diagnose", "verify"} :
              [backups[c] EXCEPT !.at = at] \in Backup
         /\ [backups[c] EXCEPT !.at = "vendor", !.around = {b \in Dumps : pod[b]}] \in Backup
         /\ Latest # 0 =>
              [backups[c] EXCEPT !.buffer = Latest,
                                 !.caught = backups[c].caught \cup {Latest}] \in Backup
         /\ \A found \in 0..MaxDumps :
              [backups[c] EXCEPT !.at = "failed", !.diagnosis = found] \in Backup
<1>1. backups[c] \in Backup /\ Latest \in 0..MaxDumps /\ (Latest # 0 => Latest \in Dumps)
  BY LatestHasPod, BackupAssumption DEF BackupTypeOK, Dumps
<1>2. NoBackup \in Backup /\ [NoBackup EXCEPT !.at = "precheck"] \in Backup
  BY BackupAssumption DEF NoBackup, Backup
<1>3. \A at \in {"vendor", "diagnose", "verify"} : [backups[c] EXCEPT !.at = at] \in Backup
  BY <1>1 DEF Backup
<1>4. [backups[c] EXCEPT !.at = "vendor", !.around = {b \in Dumps : pod[b]}] \in Backup
  BY <1>1 DEF Backup
<1>5. Latest # 0 =>
        [backups[c] EXCEPT !.buffer = Latest,
                           !.caught = backups[c].caught \cup {Latest}] \in Backup
  BY <1>1 DEF Backup
<1>6. \A found \in 0..MaxDumps :
        [backups[c] EXCEPT !.at = "failed", !.diagnosis = found] \in Backup
  BY <1>1 DEF Backup
<1> QED
  BY <1>2, <1>3, <1>4, <1>5, <1>6

\* A dump that begins is the next one, and only adds to what the runs met.
LEMMA DumpAdds ==
  ASSUME BackupTypeOK, DumpBegins \/ OperatorDumps
  PROVE  /\ BackupTypeOK'
         /\ \E b \in Dumps :
              /\ b > dumps /\ pod' = [pod EXCEPT ![b] = TRUE]
              /\ \A d \in Callers :
                   \E own \in 0..MaxDumps :
                     backups'[d] = [backups[d] EXCEPT !.around = Met(d, b), !.dump = own]
<1>1. PICK b \in Dumps : Begins(b) /\ \A d \in Callers : \E own \in 0..MaxDumps :
        backups'[d] = [backups[d] EXCEPT !.around = Met(d, b), !.dump = own]
  <2>1. CASE DumpBegins
    <3>1. PICK b \in Dumps, c \in Callers :
            /\ Begins(b)
            /\ backups' = [d \in Callers |->
                             [backups[d] EXCEPT !.around = Met(d, b),
                                                !.dump = IF d = c THEN b ELSE @]]
      BY <2>1 DEF DumpBegins
    <3>2. ASSUME NEW d \in Callers
          PROVE  \E own \in 0..MaxDumps :
                   backups'[d] = [backups[d] EXCEPT !.around = Met(d, b), !.dump = own]
      <4>1. backups[d].dump \in 0..MaxDumps /\ b \in 0..MaxDumps
        BY BackupAssumption DEF BackupTypeOK, Backup, Dumps
      <4> QED
        BY <3>1, <4>1
    <3> QED
      BY <3>1, <3>2
  <2>2. CASE OperatorDumps
    <3>1. PICK b \in Dumps :
            /\ Begins(b)
            /\ backups' = [d \in Callers |-> [backups[d] EXCEPT !.around = Met(d, b)]]
      BY <2>2 DEF OperatorDumps
    <3>2. ASSUME NEW d \in Callers
          PROVE  /\ backups[d].dump \in 0..MaxDumps
                 /\ backups'[d] = [backups[d] EXCEPT !.around = Met(d, b),
                                                     !.dump = backups[d].dump]
      BY <3>1 DEF BackupTypeOK, Backup
    <3>3. \A d \in Callers : \E own \in 0..MaxDumps :
            backups'[d] = [backups[d] EXCEPT !.around = Met(d, b), !.dump = own]
      BY <3>2
    <3> QED
      BY <3>1, <3>3
  <2> QED
    BY <2>1, <2>2
<1>2. b > dumps /\ pod' = [pod EXCEPT ![b] = TRUE]
  <2>1. dumps \in 0..MaxDumps
    BY DEF BackupTypeOK
  <2>2. b = dumps + 1
    BY <1>1 DEF Begins
  <2>3. b > dumps
    BY <2>1, <2>2, BackupAssumption
  <2> QED
    BY <1>1, <2>3 DEF Begins
<1>3. backups' \in [Callers -> Backup]
  <2>1. backups' = [d \in Callers |-> backups'[d]]
    BY DEF DumpBegins, OperatorDumps
  <2>2. ASSUME NEW d \in Callers PROVE backups'[d] \in Backup
    <3>1. PICK own \in 0..MaxDumps :
            backups'[d] = [backups[d] EXCEPT !.around = Met(d, b), !.dump = own]
      BY <1>1
    <3>2. backups[d] \in Backup /\ Met(d, b) \in SUBSET Dumps
      BY DEF BackupTypeOK, Backup, Met
    <3> QED
      BY <3>1, <3>2 DEF Backup
  <2> QED
    BY <2>1, <2>2
<1>4. BackupTypeOK'
  <2>1. dumps' = b
    BY <1>1 DEF Begins
  <2>2. dumps' \in 0..MaxDumps
    BY <2>1, BackupAssumption DEF Dumps
  <2> QED
    BY <1>1, <1>3, <2>2 DEF BackupTypeOK, Begins, pruneVars
<1> QED
  BY <1>1, <1>2, <1>4

LEMMA BackupTypesKept == ASSUME BackupTypeOK, BackupNext PROVE BackupTypeOK'
<1>1. CASE DumpBegins \/ OperatorDumps BY <1>1, DumpAdds
<1>2. CASE DumpEnds \/ PodDeleted
  BY <1>2 DEF DumpEnds, PodDeleted, BackupTypeOK, dumpVars, pruneVars
<1>3. ASSUME NEW c \in Callers,
             \/ StartBackup(c) \/ Precheck(c) \/ VendorSucceeds(c) \/ VendorFails(c) \/ Verify(c)
      PROVE  BackupTypeOK'
  BY <1>3, RunSteps, RunReplaced DEF StartBackup, Precheck, VendorSucceeds, VendorFails, Verify
<1>4. ASSUME NEW c \in Callers, Poll(c) \/ Diagnose(c) PROVE BackupTypeOK'
  <2>1. CASE Poll(c)
    <3>1. backups' = [backups EXCEPT ![c] =
                        [backups[c] EXCEPT !.buffer = Latest,
                                           !.caught = backups[c].caught \cup {Latest}]]
      BY <2>1 DEF Poll, BackupTypeOK, Backup
    <3> QED
      BY <2>1, <3>1, RunSteps, RunReplaced DEF Poll
  <2>2. CASE Diagnose(c)
    <3>1. Latest \in 0..MaxDumps /\ backups[c].buffer \in 0..MaxDumps /\ 0 \in 0..MaxDumps
      BY LatestHasPod, BackupAssumption DEF BackupTypeOK, Backup
    <3>2. PICK found \in 0..MaxDumps :
            backups' = [backups EXCEPT ![c] = [@ EXCEPT !.at = "failed", !.diagnosis = found]]
      BY <2>2, <3>1 DEF Diagnose
    <3> QED
      BY <2>2, <3>2, RunSteps, RunReplaced DEF Diagnose
  <2> QED
    BY <1>4, <2>1, <2>2
<1>5. CASE BackupDies
  <2>1. NoBackup \in Backup
    BY BackupAssumption DEF NoBackup, Backup
  <2> QED
    BY <1>5, <2>1 DEF BackupDies, BackupTypeOK, dumpVars, pruneVars
<1>6. CASE Prune
  <2> USE DEF BackupTypeOK, dumpVars
  <2>1. CASE AskPrune BY BackupAssumption, <2>1 DEF AskPrune
  <2>2. CASE ListPrunable BY <2>2 DEF ListPrunable, Prunable
  <2>3. CASE PruneItem BY <2>3 DEF PruneItem
  <2>4. CASE AnswerPrune BY <2>4 DEF AnswerPrune
  <2> QED
    BY <1>6, <2>1, <2>2, <2>3, <2>4 DEF Prune
<1> QED
  BY <1>1, <1>2, <1>3, <1>4, <1>5, <1>6 DEF BackupNext, Dump, RunBackup

-----------------------------------------------------------------------------
(* What explains a failed backup. *)

\* What a monitor caught was there while it ran, and so is every pod there is now;
\* its buffer is what it caught last, and it has caught nothing before it starts.
MonitorInv(c) ==
  /\ backups[c].caught \subseteq backups[c].around
  /\ IF backups[c].buffer = 0 THEN backups[c].caught = {}
                              ELSE backups[c].buffer \in backups[c].caught
  /\ backups[c].at = "precheck" => backups[c].buffer = 0
  /\ Watching(c) => \A b \in Dumps : pod[b] => b \in backups[c].around

\* The diagnosis of one caller's failure.
Explained(c) ==
  backups[c].at = "failed" =>
    backups[c].diagnosis \in IF backups[c].caught # {} THEN backups[c].caught
                             ELSE backups[c].around \cup {0}

DiagnosisInv == BackupTypeOK /\ \A c \in Callers : MonitorInv(c) /\ Explained(c)

LEMMA DiagnosisInitially == MaintenanceInit => DiagnosisInv
BY BackupInitially
DEF MaintenanceInit, BackupInit, DiagnosisInv, MonitorInv, Explained, NoBackup, Watching

LEMMA DiagnosisInduction == DiagnosisInv /\ [MaintenanceNext]_maintenanceVars => DiagnosisInv'
<1> SUFFICES ASSUME DiagnosisInv, BackupNext, BackupTypeOK'
             PROVE  \A d \in Callers : MonitorInv(d)' /\ Explained(d)'
  <2>1. CASE UNCHANGED backupVars
    BY <2>1 DEF DiagnosisInv, BackupTypeOK, MonitorInv, Explained, Watching, Dumps, backupVars,
       dumpVars, pruneVars
  <2> QED
    BY <2>1, BackupTypesKept
    DEF DiagnosisInv, MaintenanceNext, Servers, Records, Memory, maintenanceVars
<1> SUFFICES ASSUME NEW d \in Callers PROVE MonitorInv(d)' /\ Explained(d)'
  OBVIOUS
<1>1. MonitorInv(d) /\ Explained(d) /\ BackupTypeOK /\ backups[d] \in Backup
  BY DEF DiagnosisInv, BackupTypeOK
<1>2. CASE DumpBegins \/ OperatorDumps
  <2>1. PICK b \in Dumps :
          /\ pod' = [pod EXCEPT ![b] = TRUE]
          /\ \E own \in 0..MaxDumps :
               backups'[d] = [backups[d] EXCEPT !.around = Met(d, b), !.dump = own]
    BY <1>1, <1>2, DumpAdds
  <2>2. /\ backups'[d].at = backups[d].at /\ backups'[d].buffer = backups[d].buffer
        /\ backups'[d].caught = backups[d].caught
        /\ backups'[d].diagnosis = backups[d].diagnosis
        /\ backups'[d].around = Met(d, b)
    BY <1>1, <2>1 DEF Backup
  <2>3. \A p \in Dumps : pod'[p] => pod[p] \/ p = b
    BY <1>1, <2>1 DEF BackupTypeOK
  <2> QED
    BY <1>1, <2>2, <2>3 DEF MonitorInv, Explained, Met, Watching
\* Where its own run is as before and no pod is new, nothing is lost.
<1>3. ASSUME backups'[d] = backups[d], \A p \in Dumps : pod'[p] => pod[p]
      PROVE  MonitorInv(d)' /\ Explained(d)'
  BY <1>1, <1>3 DEF MonitorInv, Explained, Watching
<1>4. ASSUME backups'[d] = NoBackup \/ backups'[d] = [NoBackup EXCEPT !.at = "precheck"]
      PROVE  MonitorInv(d)' /\ Explained(d)'
  BY <1>4 DEF MonitorInv, Explained, Watching, NoBackup
<1>5. CASE DumpEnds \/ PodDeleted \/ Prune
  BY <1>1, <1>3, <1>5
  DEF DumpEnds, PodDeleted, Prune, AskPrune, ListPrunable, PruneItem, AnswerPrune, BackupTypeOK,
      dumpVars
<1>6. CASE BackupDies
  BY <1>3, <1>4, <1>6 DEF BackupDies, dumpVars
<1>7. ASSUME NEW c \in Callers, NEW r \in Backup, backups' = [backups EXCEPT ![c] = r],
             UNCHANGED <<dumpVars, pruneVars>>
      PROVE  IF d = c THEN backups'[d] = r ELSE MonitorInv(d)' /\ Explained(d)'
  <2>1. backups'[d] = (IF d = c THEN r ELSE backups[d]) /\ pod' = pod
    BY <1>1, <1>7, RunReplaced DEF dumpVars
  <2> QED
    BY <1>3, <2>1
<1>8. ASSUME NEW c \in Callers, StartBackup(c) \/ Verify(c)
      PROVE  MonitorInv(d)' /\ Explained(d)'
  BY <1>1, <1>4, <1>7, <1>8, RunSteps DEF StartBackup, Verify
<1>9. ASSUME NEW c \in Callers, Precheck(c) PROVE MonitorInv(d)' /\ Explained(d)'
  <2>1. CASE backups' = [backups EXCEPT ![c] = NoBackup]
    BY <1>1, <1>4, <1>7, <1>9, <2>1, RunSteps DEF Precheck
  <2>2. CASE backups' = [backups EXCEPT ![c] =
                           [@ EXCEPT !.at = "vendor", !.around = {b \in Dumps : pod[b]}]]
    <3> DEFINE r == [backups[c] EXCEPT !.at = "vendor", !.around = {b \in Dumps : pod[b]}]
    <3>1. IF d = c THEN backups'[d] = r ELSE MonitorInv(d)' /\ Explained(d)'
      BY <1>1, <1>7, <1>9, <2>2, RunSteps DEF Precheck
    <3>2. CASE d = c
      <4>1. /\ r.at = "vendor" /\ r.around = {b \in Dumps : pod[b]}
            /\ r.caught = backups[d].caught /\ r.buffer = backups[d].buffer
        BY <1>1, <3>2 DEF Backup
      <4>2. backups[d].buffer = 0 /\ pod' = pod
        BY <1>1, <1>9, <3>2 DEF Precheck, MonitorInv, dumpVars
      <4> QED
        BY <1>1, <3>1, <3>2, <4>1, <4>2 DEF MonitorInv, Explained
    <3> QED
      BY <3>1, <3>2
  <2> QED
    BY <1>9, <2>1, <2>2 DEF Precheck
<1>10. ASSUME NEW c \in Callers, Poll(c) PROVE MonitorInv(d)' /\ Explained(d)'
  <2> DEFINE r == [backups[c] EXCEPT !.buffer = Latest,
                                     !.caught = backups[c].caught \cup {Latest}]
  <2>1. IF d = c THEN backups'[d] = r ELSE MonitorInv(d)' /\ Explained(d)'
    <3>1. backups' = [backups EXCEPT ![c] = r]
      BY <1>1, <1>10 DEF Poll, BackupTypeOK, Backup
    <3> QED
      BY <1>1, <1>7, <1>10, <3>1, RunSteps DEF Poll
  <2>2. CASE d = c
    <3>1. /\ r.at = "vendor" /\ r.around = backups[d].around /\ r.buffer = Latest
          /\ r.caught = backups[d].caught \cup {Latest}
      BY <1>1, <1>10, <2>2 DEF Backup, Poll
    <3>2. Latest # 0 /\ Latest \in Dumps /\ pod[Latest] /\ pod' = pod
      BY <1>1, <1>10, LatestHasPod, BackupAssumption DEF Poll, BackupTypeOK, Dumps, dumpVars
    <3> QED
      BY <1>1, <1>10, <2>1, <2>2, <3>1, <3>2 DEF MonitorInv, Explained, Watching, Poll
  <2> QED
    BY <2>1, <2>2
<1>11. ASSUME NEW c \in Callers, VendorSucceeds(c) \/ VendorFails(c)
       PROVE  MonitorInv(d)' /\ Explained(d)'
  <2>1. PICK at \in {"verify", "diagnose"} :
          backups' = [backups EXCEPT ![c] = [backups[c] EXCEPT !.at = at]]
    BY <1>1, <1>11 DEF VendorSucceeds, VendorFails, BackupTypeOK
  <2> DEFINE r == [backups[c] EXCEPT !.at = at]
  <2>2. IF d = c THEN backups'[d] = r ELSE MonitorInv(d)' /\ Explained(d)'
    BY <1>1, <1>7, <1>11, <2>1, RunSteps DEF VendorSucceeds, VendorFails
  <2>3. CASE d = c
    <3>1. /\ r.at = at /\ r.around = backups[d].around /\ r.buffer = backups[d].buffer
          /\ r.caught = backups[d].caught
      BY <1>1, <2>3 DEF Backup
    <3>2. pod' = pod /\ backups[d].at = "vendor"
      BY <1>11, <2>3 DEF VendorSucceeds, VendorFails, dumpVars
    <3> QED
      BY <1>1, <2>2, <2>3, <3>1, <3>2 DEF MonitorInv, Explained, Watching
  <2> QED
    BY <2>2, <2>3
<1>12. ASSUME NEW c \in Callers, Diagnose(c) PROVE MonitorInv(d)' /\ Explained(d)'
  <2>1. PICK found \in IF backups[c].buffer # 0 THEN {backups[c].buffer} ELSE {Latest, 0} :
          backups' = [backups EXCEPT ![c] =
                        [backups[c] EXCEPT !.at = "failed", !.diagnosis = found]]
    BY <1>1, <1>12 DEF Diagnose, BackupTypeOK
  <2> DEFINE r == [backups[c] EXCEPT !.at = "failed", !.diagnosis = found]
  <2>2. found \in 0..MaxDumps
    BY <1>1, LatestHasPod, BackupAssumption DEF BackupTypeOK, Backup
  <2>3. IF d = c THEN backups'[d] = r ELSE MonitorInv(d)' /\ Explained(d)'
    BY <1>1, <1>7, <1>12, <2>1, <2>2, RunSteps DEF Diagnose
  <2>4. CASE d = c
    <3>1. /\ r.at = "failed" /\ r.diagnosis = found /\ r.around = backups[d].around
          /\ r.caught = backups[d].caught /\ r.buffer = backups[d].buffer
      BY <1>1, <2>4 DEF Backup
    <3>2. backups[d].at = "diagnose" /\ pod' = pod
      BY <1>12, <2>4 DEF Diagnose, dumpVars
    <3>3. Latest # 0 => Latest \in backups[d].around
      BY <1>1, <3>2, LatestHasPod, BackupAssumption DEF MonitorInv, Watching, BackupTypeOK, Dumps
    <3> QED
      BY <1>1, <2>1, <2>3, <2>4, <3>1, <3>2, <3>3 DEF MonitorInv, Explained, Watching
  <2> QED
    BY <2>3, <2>4
<1> QED
  BY <1>2, <1>5, <1>6, <1>8, <1>9, <1>10, <1>11, <1>12
  DEF BackupNext, Dump, RunBackup

\* The error of a backup the vendor failed (backup.rs run_backup_and_verify) is
\* explained by what its monitor caught, if it caught any, and else by a dump that
\* was there meanwhile or by none: so by its own where no other was, whichever
\* tasks back up at once, however many dumps the operator asks for.
THEOREM DiagnosisKeptAlways == MaintenanceSpec => []DiagnosisKept
<1>1. DiagnosisInv => DiagnosisKept
  BY DEF DiagnosisInv, MonitorInv, Explained, DiagnosisKept
<1> QED
  BY <1>1, DiagnosisInitially, DiagnosisInduction, PTL DEF MaintenanceSpec

-----------------------------------------------------------------------------
(* What a prune takes away. *)

\* What was found over stays over: no operation starts again, for what begins is
\* new.
PruneInv ==
  /\ BackupTypeOK
  /\ \A b \in Dumps : b > dumps => operation[b] = "none"
  /\ \A b \in eligible : operation[b] \in {"Succeeded", "Failed", "deleted"}

LEMMA PruneInitially == MaintenanceInit => PruneInv
BY BackupInitially DEF MaintenanceInit, BackupInit, PruneInv

LEMMA PruneInduction == PruneInv /\ [MaintenanceNext]_maintenanceVars => PruneInv'
<1> SUFFICES ASSUME PruneInv, [MaintenanceNext]_maintenanceVars PROVE PruneInv'
  OBVIOUS
<1>1. BackupTypeOK'
  <2>1. CASE UNCHANGED backupVars
    BY <2>1 DEF PruneInv, BackupTypeOK, backupVars, dumpVars, pruneVars
  <2> QED
    BY <2>1, BackupTypesKept
    DEF PruneInv, MaintenanceNext, Servers, Records, Memory, maintenanceVars
<1> USE <1>1, BackupAssumption DEF PruneInv, BackupTypeOK, Dumps, dumpVars, pruneVars
<1>2. CASE DumpBegins \/ OperatorDumps
  <2>1. PICK b \in Dumps : Begins(b)
    BY <1>2 DEF DumpBegins, OperatorDumps
  <2> QED
    BY <2>1 DEF Begins
<1>3. CASE DumpEnds BY <1>3 DEF DumpEnds
<1>4. CASE ListPrunable BY <1>4 DEF ListPrunable, Prunable
<1>5. CASE PruneItem BY <1>5 DEF PruneItem
<1>6. CASE AnswerPrune BY <1>6 DEF AnswerPrune
<1>7. CASE UNCHANGED <<dumps, operation, eligible>> BY <1>7
<1> QED
  BY <1>2, <1>3, <1>4, <1>5, <1>6, <1>7
  DEF MaintenanceNext, Servers, Records, Memory, BackupNext, Dump, PodDeleted, RunBackup,
      StartBackup, Precheck, Poll, VendorSucceeds, VendorFails, Diagnose, Verify, BackupDies,
      Prune, AskPrune, maintenanceVars, backupVars

\* A prune takes away no dump that runs (http dump_prune_execute, kubectl dumps),
\* however old the list it deletes from is, whatever clients ask for.
THEOREM PruneSparesAlways == MaintenanceSpec => PruneSpares
<1>1. ASSUME PruneInv, [MaintenanceNext]_maintenanceVars, NEW b \in Dumps,
             operation[b] = "Running"
      PROVE  operation'[b] # "deleted"
  <2> USE <1>1 DEF PruneInv, BackupTypeOK
  <2>1. CASE DumpBegins \/ OperatorDumps
    BY <2>1 DEF DumpBegins, OperatorDumps, Begins
  <2>2. CASE DumpEnds BY <2>2 DEF DumpEnds
  <2>3. CASE PruneItem BY <2>3 DEF PruneItem
  <2>4. CASE UNCHANGED operation BY <2>4
  <2> QED
    BY <2>1, <2>2, <2>3, <2>4
    DEF MaintenanceNext, Servers, Records, Memory, BackupNext, Dump, PodDeleted, RunBackup,
        StartBackup, Precheck, Poll, VendorSucceeds, VendorFails, Diagnose, Verify, BackupDies,
        Prune, AskPrune, ListPrunable, AnswerPrune, maintenanceVars, backupVars, dumpVars,
        pruneVars
<1>2. PruneInv /\ [MaintenanceNext]_maintenanceVars =>
        [\A b \in Dumps : operation[b] = "Running" => operation'[b] # "deleted"]_backupVars
  BY <1>1
<1> QED
  BY <1>2, PruneInitially, PruneInduction, PTL DEF MaintenanceSpec, PruneSpares

-----------------------------------------------------------------------------
(* The memory profile. *)

\* Every set has the profile of its map for this size.
Fit(list, size) ==
  \A i \in DOMAIN list : \A f \in Field : list[i][f] = Profile(list[i].map, size)[f]

\* scaled_gi_profile keeps requests below limits.
LEMMA ProfileSane ==
  ASSUME NEW map, NEW size \in 1..256
  PROVE  Profile(map, size).request <= Profile(map, size).limit
<1> USE DEF Profile, Scaled, Ceiling, AtMost, VendorSwap
<1>1. CASE map = "Survival_1" BY <1>1
<1>2. CASE map = "DeepDesert_1" BY <1>2
<1>3. CASE map # "Survival_1" /\ map # "DeepDesert_1" BY <1>3
<1> QED BY <1>1, <1>2, <1>3

LEMMA FitSane ==
  ASSUME NEW list, NEW size \in 1..256, Fit(list, size), NEW i \in DOMAIN list
  PROVE  list[i].request <= list[i].limit
<1>1. list[i].request = Profile(list[i].map, size).request
  BY DEF Fit, Field
<1>2. list[i].limit = Profile(list[i].map, size).limit
  BY DEF Fit, Field
<1> QED
  BY <1>1, <1>2, ProfileSane

\* Nothing to patch: the profile is there.
LEMMA NothingToMend ==
  ASSUME NEW list, NEW size, Operations(list, size) = {}
  PROVE  Fit(list, size)
<1>1. Differing(list, size) = {}
  BY DEF Operations
<1>2. ASSUME NEW i \in DOMAIN list, NEW f \in Field, list[i][f] # Profile(list[i].map,
   size)[f]
      PROVE  FALSE
  <2>1. <<i, f>> \in Differing(list, size)
    BY <1>2 DEF Differing
  <2> QED
    BY <1>1, <2>1
<1> QED
  BY <1>2 DEF Fit

\* A field of a set that the patch was made from is as the profile says after it.
LEMMA AfterPatch ==
  ASSUME NEW list, NEW size, NEW i \in DOMAIN list, NEW f \in Field
  PROVE  After(list, Operations(list, size), i, f) = Profile(list[i].map, size)[f]
<1> DEFINE ops == Operations(list, size)
           Here(o) == o.at = i /\ o.field = f
<1>1. \A o \in ops : Here(o) => o.value = Profile(list[i].map, size)[f]
  BY DEF Operations, Mend
<1>2. CASE \E o \in ops : Here(o)
  <2>1. (CHOOSE o \in ops : Here(o)) \in ops /\ Here(CHOOSE o \in ops : Here(o))
    BY <1>2
  <2> QED
    BY <1>1, <1>2, <2>1 DEF After
<1>3. CASE ~ \E o \in ops : Here(o)
  <2>1. ASSUME list[i][f] # Profile(list[i].map, size)[f] PROVE FALSE
    <3>1. <<i, f>> \in Differing(list, size)
      BY <2>1 DEF Differing
    <3>2. Mend(list, size, <<i, f>>, i) \in ops
      BY <3>1 DEF Operations
    <3>3. Here(Mend(list, size, <<i, f>>, i))
      BY DEF Mend
    <3> QED
      BY <1>3, <3>2, <3>3
  <2> QED
    BY <1>3, <2>1 DEF After
<1> QED
  BY <1>2, <1>3

LEMMA PatchFits ==
  ASSUME NEW list, NEW size
  PROVE  Fit(PatchedSets(list, Operations(list, size)), size)
<1> DEFINE new == PatchedSets(list, Operations(list, size))
<1>1. DOMAIN new = DOMAIN list
  BY DEF PatchedSets
<1>2. ASSUME NEW i \in DOMAIN list, NEW f \in Field
      PROVE  new[i].map = list[i].map /\ new[i][f] = Profile(list[i].map, size)[f]
  <2>1. new[i] = [map |-> list[i].map,
                  limit |-> After(list, Operations(list, size), i, "limit"),
                  request |-> After(list, Operations(list, size), i, "request")]
    BY DEF PatchedSets
  <2>2. new[i].map = list[i].map
    BY <2>1
  <2>3. new[i][f] = After(list, Operations(list, size), i, f)
    BY <2>1 DEF Field
  <2> QED
    BY <2>2, <2>3, AfterPatch
<1>3. ASSUME NEW i \in DOMAIN new, NEW f \in Field
      PROVE  new[i][f] = Profile(new[i].map, size)[f]
  <2>1. new[i].map = list[i].map /\ new[i][f] = Profile(list[i].map, size)[f]
    BY <1>1, <1>2
  <2> QED
    BY <2>1
<1> QED
  BY <1>3 DEF Fit

\* What a command carries on its way.
Carries(j) ==
  /\ j.step \in {"swap", "read", "patch"} =>
       {"step", "size",
          "enable"} \subseteq DOMAIN j /\ j.size \in Sizes /\ j.enable \in BOOLEAN
  /\ j.step = "patch" =>
       {"operations", "current"} \subseteq DOMAIN j /\ j.current \in BOOLEAN

\* A command that holds nothing computed from the sets, or something outdated.
Independent(j) == Carries(j) /\ (j.step = "patch" => j.current = FALSE)

\* A patch that is called current was computed from the sets as they are.
Current(j, list) == Carries(j) /\ j.step = "patch" /\ j.operations = Operations(list,
   j.size)

ProfileInv ==
  /\ job = [a \in Admins |-> job[a]]
  /\ \A a \in Admins : Independent(job[a]) \/ Current(job[a], sets)
  /\ applied \in Sizes \cup {0} /\ mixed \in BOOLEAN
  /\ ~mixed /\ applied # 0 => Fit(sets, applied)

LEMMA ProfileInitially == MaintenanceInit => ProfileInv
<1> SUFFICES ASSUME MaintenanceInit PROVE ProfileInv
  OBVIOUS
<1>1. Independent(Resting)
  BY DEF Independent, Carries, Resting
<1>2. job = [a \in Admins |-> job[a]] /\ \A a \in Admins : job[a] = Resting
  BY DEF MaintenanceInit, ProfileInit
<1> QED
  BY <1>1, <1>2 DEF MaintenanceInit, ProfileInit, ProfileInv

LEMMA SettledIsIndependent == ASSUME NEW j PROVE Independent(Settled(j))
BY DEF Settled, Independent, Carries, Resting

\* Once the sets change, every other patch is outdated.
LEMMA OutdatedIsIndependent ==
  ASSUME NEW jobs, NEW a \in Admins, NEW list, Independent(jobs[a]) \/ Current(jobs[a],
     list)
  PROVE  Independent(Outdated(jobs)[a])
<1>1. Outdated(jobs)[a] =
        IF jobs[a].step = "patch" THEN [jobs[a] EXCEPT !.current = FALSE] ELSE jobs[a]
  BY DEF Outdated
<1>2. CASE jobs[a].step # "patch"
  BY <1>1, <1>2 DEF Independent, Current
<1>3. CASE jobs[a].step = "patch"
  <2> DEFINE old == [jobs[a] EXCEPT !.current = FALSE]
  <2>1. Carries(jobs[a])
    BY DEF Independent, Current
  <2>2. DOMAIN old = DOMAIN jobs[a] /\ old.current = FALSE
    BY <1>3, <2>1 DEF Carries
  <2>3. old.step = "patch" /\ old.size = jobs[a].size /\ old.enable = jobs[a].enable
    BY <1>3, <2>1 DEF Carries
  <2>4. Independent(old)
    BY <1>3, <2>1, <2>2, <2>3 DEF Carries, Independent
  <2> QED
    BY <1>1, <1>3, <2>4
<1> QED
  BY <1>2, <1>3

\* A step that replaces one command by another that is sound.
LEMMA OneCommand ==
  ASSUME ProfileInv, NEW a \in Admins, NEW j, Independent(j) \/ Current(j, sets),
         job' = [job EXCEPT ![a] = j], UNCHANGED sets,
         UNCHANGED <<applied,
            mixed>> \/ (applied' \in Sizes /\ mixed' = mixed /\ (mixed \/ Fit(sets,
            applied')))
  PROVE  ProfileInv'
<1>1. job' = [b \in Admins |-> job'[b]]
  BY DEF ProfileInv
<1>2. ASSUME NEW b \in Admins PROVE Independent(job'[b]) \/ Current(job'[b], sets')
  <2>1. job'[b] = IF b = a THEN j ELSE job[b]
    BY DEF ProfileInv
  <2> QED
    BY <2>1 DEF ProfileInv
<1> QED
  BY <1>1, <1>2 DEF ProfileInv

LEMMA ProfileByAdmin ==
  ASSUME ProfileInv, NEW a \in Admins,
         AskProfile(a) \/ EnableSwap(a) \/ ReadSets(a) \/ VerifyProfile(a) \/ ProfileFails(a)
  PROVE  ProfileInv'
<1>1. Independent(Resting) /\ Carries(job[a])
  BY DEF Independent, Carries, Resting, ProfileInv, Current
<1>2. CASE AskProfile(a)
  <2>1. PICK s \in Sizes, t \in {"swap", "read"} :
          job' = [job EXCEPT ![a] = [step |-> t, size |-> s, enable |-> t = "swap"]]
    BY <1>2 DEF AskProfile
  <2>2. Independent([step |-> t, size |-> s, enable |-> t = "swap"])
    BY DEF Independent, Carries
  <2> QED
    BY <1>2, <2>1, <2>2, OneCommand DEF AskProfile
<1>3. CASE VerifyProfile(a) \/ ProfileFails(a)
  BY <1>1, <1>3, OneCommand DEF VerifyProfile, ProfileFails
<1>4. CASE EnableSwap(a)
  <2> DEFINE next == [job[a] EXCEPT !.step = "read"]
  <2>1. job' = [job EXCEPT ![a] = next] \/ job' = [job EXCEPT ![a] = Resting]
    BY <1>4 DEF EnableSwap, ProfileInv
  <2>2. next.step = "read" /\ next.size = job[a].size /\ next.enable = job[a].enable
    BY <1>1, <1>4 DEF EnableSwap, Carries
  <2>3. DOMAIN next = DOMAIN job[a]
    OBVIOUS
  <2>4. Independent(next)
    BY <1>1, <1>4, <2>2, <2>3 DEF Independent, Carries, EnableSwap
  <2> QED
    BY <1>1, <1>4, <2>1, <2>4, OneCommand DEF EnableSwap
<1>5. CASE ReadSets(a)
  <2> DEFINE size == job[a].size
             patch == [step |-> "patch", size |-> size, enable |-> job[a].enable,
                       operations |-> Operations(sets, size), current |-> TRUE]
  <2>1. size \in Sizes /\ job[a].enable \in BOOLEAN
    BY <1>1, <1>5 DEF ReadSets, Carries
  <2>2. CASE Operations(sets, size) = {}
    <3>1. Independent(Settled(job[a])) /\ Fit(sets, size)
      BY <2>2, SettledIsIndependent, NothingToMend
    <3>2. job' = [job EXCEPT ![a] = Settled(job[a])] /\ applied' = IF mixed THEN applied ELSE size
      BY <1>5, <2>2 DEF ReadSets
    <3>3. UNCHANGED <<sets, mixed>>
      BY <1>5 DEF ReadSets
    <3>4. CASE mixed
      BY <3>1, <3>2, <3>3, <3>4, OneCommand
    <3>5. CASE ~mixed
      BY <2>1, <3>1, <3>2, <3>3, <3>5, OneCommand
    <3> QED
      BY <3>4, <3>5
  <2>3. CASE Operations(sets, size) # {}
    <3>1. Current(patch, sets)
      BY <2>1 DEF Current, Carries
    <3>2. job' = [job EXCEPT ![a] = patch] /\ UNCHANGED <<sets, applied, mixed>>
      BY <1>5, <2>3 DEF ReadSets, ProfileInv
    <3> HIDE DEF patch
    <3> QED
      BY <3>1, <3>2, OneCommand
  <2> QED
    BY <2>2, <2>3
<1> QED
  BY <1>2, <1>3, <1>4, <1>5

LEMMA ProfileByPatch == ASSUME ProfileInv, NEW a \in Admins, PatchSets(a)
   PROVE ProfileInv'
<1>1. job[a].size \in Sizes /\ job[a].current \in BOOLEAN
  BY DEF PatchSets, ProfileInv, Independent, Current, Carries
<1>2. \A b \in Admins : Independent(job'[b])
  <2> DEFINE jobs == [job EXCEPT ![a] = Settled(job[a])]
  <2>1. \A b \in Admins : Independent(jobs[b]) \/ Current(jobs[b], sets)
    BY SettledIsIndependent DEF ProfileInv
  <2>2. job' = Outdated(jobs)
    BY DEF PatchSets
  <2> HIDE DEF jobs
  <2> QED
    BY <2>1, <2>2, OutdatedIsIndependent
<1>3. job' = [b \in Admins |-> job'[b]]
  BY DEF PatchSets, Outdated
<1>4. CASE job[a].current
  <2>1. job[a].operations = Operations(sets, job[a].size)
    BY <1>4 DEF PatchSets, ProfileInv, Independent, Current
  <2>2. Fit(sets', applied')
    BY <2>1, PatchFits DEF PatchSets
  <2> QED
    BY <1>1, <1>2, <1>3, <1>4, <2>2 DEF PatchSets, ProfileInv
<1>5. CASE ~job[a].current
  <2>1. mixed' = TRUE /\ applied' \in Sizes
    BY <1>1, <1>5 DEF PatchSets, ProfileInv
  <2> QED
    BY <1>2, <1>3, <2>1 DEF ProfileInv
<1> QED
  BY <1>1, <1>4, <1>5

LEMMA ProfileByVendor == ASSUME ProfileInv, VendorEdits PROVE ProfileInv'
<1>1. \A b \in Admins : Independent(job'[b])
  BY OutdatedIsIndependent DEF VendorEdits, ProfileInv
<1>2. job' = [b \in Admins |-> job'[b]]
  BY DEF VendorEdits, Outdated
<1> QED
  BY <1>1, <1>2 DEF VendorEdits, ProfileInv

LEMMA ProfileInduction == ProfileInv /\ [MaintenanceNext]_maintenanceVars => ProfileInv'
<1> SUFFICES ASSUME ProfileInv, [MaintenanceNext]_maintenanceVars PROVE ProfileInv'
  OBVIOUS
<1>1. CASE UNCHANGED profileVars
  BY <1>1 DEF ProfileInv, profileVars
<1> QED
  BY <1>1, ProfileByAdmin, ProfileByPatch, ProfileByVendor
  DEF MaintenanceNext, Servers, Records, Memory, ProfileNext, maintenanceVars

\* The memory of every server is what the last profile says (core's
\* experimental_swap patch), whatever lists the vendor deploys and whatever
\* sizes any number of admins apply, until a patch meets sets that had changed
\* since they were read.
THEOREM ProfileHoldsAlways == MaintenanceSpec => []ProfileHolds
<1>1. ProfileInv => ProfileHolds
  BY FitSane, ProfileAssumption DEF ProfileInv, ProfileHolds, Fit
<1> QED
  BY <1>1, ProfileInitially, ProfileInduction, PTL DEF MaintenanceSpec

-----------------------------------------------------------------------------
(* Types. *)

\* What is true or false, and the rest, of Lifecycle.
Switches ==
  /\ stop \in BOOLEAN /\ ready \in BOOLEAN /\ reported \in BOOLEAN /\ error \in BOOLEAN
  /\ busy \in BOOLEAN /\ attached \in BOOLEAN /\ overtaken \in BOOLEAN

LifecycleTypes ==
  /\ run \in {"idle", "check", "stop", "start", "wait"} /\ trigger \in {"scheduled", "manual"}
  /\ command \in {"idle", "look", "stop", "start", "update", "wait", "read", "show"}
  /\ want \in {"start", "stop", "restart", "update"}
  /\ fetch \in [Fetches -> {"off", "ask", "fresh", "old"}]
  /\ shown \in {"none", "fresh", "old"} /\ wish \in {"start", "stop"}
  /\ restarts \in 0..MaxRestarts /\ commands \in 0..MaxCommands /\ faults \in 0..MaxFaults

LifecycleInv == Switches /\ LifecycleTypes /\ CommandFits

LEMMA LifecycleInitially == MaintenanceInit => LifecycleInv
<1> SUFFICES ASSUME LifecycleInit PROVE LifecycleInv
  BY DEF MaintenanceInit
<1>1. Switches
  BY Zenon DEF LifecycleInit, Switches
<1>2. LifecycleTypes
  BY LifecycleAssumption DEF LifecycleInit, LifecycleTypes, Fetches
<1>3. CommandFits
  BY DEF LifecycleInit, CommandFits
<1> QED
  BY <1>1, <1>2, <1>3 DEF LifecycleInv

LEMMA SwitchesKept == ASSUME LifecycleInv, LifecycleNext PROVE Switches'
<1> USE DEF LifecycleInv, Switches, cluster, task, operator, screen, intent
<1>1. CASE Cluster BY <1>1 DEF Cluster, Settle, Report
<1>2. CASE Task
  BY <1>2 DEF Task, RestartFires, RestartSkips, RestartGoes, RestartStops, RestartStarts,
     RestartDone, RestartGivesUp, RestartFails
<1>3. CASE Operator
  BY <1>3 DEF Operator, PressCommand, CommandLooks, CommandStops, CommandStarts,
     CommandUpdates, CommandWaits, CommandReads, CommandShows, CommandFails, Age, Reject
<1>4. CASE Screen
  BY <1>4 DEF Screen, Refresh, Attach, RefreshReads, RefreshEnds, BeginRefresh
<1> QED BY <1>1, <1>2, <1>3, <1>4 DEF LifecycleNext

LEMMA LifecycleTypesKept == ASSUME LifecycleInv, LifecycleNext PROVE LifecycleTypes' /\ CommandFits'
<1> USE LifecycleAssumption DEF LifecycleInv, LifecycleTypes, CommandFits, cluster, task, operator,
    screen, intent
<1>1. CASE Cluster BY <1>1 DEF Cluster, Settle, Report
<1>2. CASE Task
  BY <1>2 DEF Task, RestartFires, RestartSkips, RestartGoes, RestartStops, RestartStarts,
     RestartDone, RestartGivesUp, RestartFails, Fault
<1>3. CASE Operator
  <2>1. CASE PressCommand BY <2>1 DEF PressCommand, FirstStep
  <2>2. CASE CommandLooks BY <2>2 DEF CommandLooks, Reject
  <2>3. CASE CommandStops BY <2>3 DEF CommandStops, Age
  <2>4. CASE CommandStarts BY <2>4 DEF CommandStarts, Age
  <2>5. CASE CommandUpdates BY <2>5 DEF CommandUpdates, Age
  <2>6. CASE CommandWaits \/ CommandReads \/ CommandShows \/ CommandFails
    BY <2>6 DEF CommandWaits, CommandReads, CommandShows, CommandFails, Reject, Fault
  <2> QED BY <1>3, <2>1, <2>2, <2>3, <2>4, <2>5, <2>6 DEF Operator
<1>4. CASE Screen
  BY <1>4 DEF Screen, Refresh, Attach, RefreshReads, RefreshEnds, BeginRefresh
<1> QED BY <1>1, <1>2, <1>3, <1>4 DEF LifecycleNext

Amount == Nat \cup {Unset}

\* What a profile asks for is memory.
LEMMA ProfileIsMemory ==
  ASSUME NEW map, NEW size \in 1..256, NEW f \in Field PROVE Profile(map, size)[f] \in Nat
<1> USE DEF Profile, Scaled, Ceiling, AtMost, VendorSwap, Field
<1>1. CASE map = "Survival_1" BY <1>1
<1>2. CASE map = "DeepDesert_1" BY <1>2
<1>3. CASE map # "Survival_1" /\ map # "DeepDesert_1" BY <1>3
<1> QED BY <1>1, <1>2, <1>3

LEMMA OperationsWriteMemory ==
  ASSUME NEW list, NEW size \in 1..256, NEW o \in Operations(list, size)
  PROVE  o.value \in Nat
<1>1. PICK p \in Differing(list, size) : o = Mend(list, size, p, p[1])
  BY DEF Operations
<1>2. p[2] \in Field
  BY DEF Differing
<1>3. o.value = Profile(list[p[1]].map, size)[p[2]]
  BY <1>1 DEF Mend
<1> QED
  BY <1>2, <1>3, ProfileIsMemory

LEMMA PatchWritesMemory ==
  ASSUME NEW list, NEW operations, \A o \in operations : o.value \in Nat,
         \A i \in DOMAIN list : list[i].limit \in Amount /\ list[i].request \in Amount,
         NEW i \in DOMAIN list
  PROVE  /\ PatchedSets(list, operations)[i].limit \in Amount
         /\ PatchedSets(list, operations)[i].request \in Amount
<1>1. ASSUME NEW f \in Field PROVE After(list, operations, i, f) \in Amount
  <2> DEFINE Here(o) == o.at = i /\ o.field = f
  <2>1. CASE \E o \in operations : Here(o)
    <3>1. (CHOOSE o \in operations : Here(o)) \in operations
      BY <2>1
    <3>2. After(list, operations, i, f) = (CHOOSE o \in operations : Here(o)).value
      BY <2>1 DEF After
    <3> QED
      BY <3>1, <3>2 DEF Amount
  <2>2. CASE ~\E o \in operations : Here(o)
    <3>1. After(list, operations, i, f) = list[i][f]
      BY <2>2 DEF After
    <3> QED
      BY <3>1 DEF Field
  <2> QED
    BY <2>1, <2>2
<1>2. PatchedSets(list, operations)[i] =
        [map |-> list[i].map, limit |-> After(list, operations, i, "limit"),
         request |-> After(list, operations, i, "request")]
  BY DEF PatchedSets
<1> QED
  BY <1>1, <1>2 DEF Field

\* What a command holds, and what is in the cluster, is memory.
MemoryInv ==
  /\ \A i \in DOMAIN sets : sets[i].limit \in Amount /\ sets[i].request \in Amount
  /\ \A a \in Admins :
       /\ job[a].step \in {"idle", "swap", "read", "patch", "verify"}
       /\ job[a].step = "patch" => \A o \in job[a].operations : o.value \in Nat
  /\ swap \in Sizes \cup {0} /\ applies \in 0..MaxApplies /\ edits \in 0..MaxEdits

ProfileTypeInv == ProfileInv /\ MemoryInv

LEMMA MemoryInitially == MaintenanceInit => MemoryInv
BY ProfileAssumption, SetsAssumption
DEF MaintenanceInit, ProfileInit, MemoryInv, Resting, Amount

\* A step that replaces one command and leaves the sets alone.
LEMMA OneJob ==
  ASSUME ProfileTypeInv, NEW a \in Admins, NEW j, job' = [job EXCEPT ![a] = j],
         UNCHANGED <<sets, edits>>, swap' \in Sizes \cup {0}, applies' \in 0..MaxApplies,
         j.step \in {"idle", "swap", "read", "patch", "verify"},
         j.step = "patch" => \A o \in j.operations : o.value \in Nat
  PROVE  MemoryInv'
<1>1. \A b \in Admins : job'[b] = IF b = a THEN j ELSE job[b]
  BY DEF ProfileTypeInv, ProfileInv
<1> QED
  BY <1>1 DEF ProfileTypeInv, MemoryInv

\* A command that a change of the sets may have outdated keeps its step and patch.
LEMMA OutdatedKeeps ==
  ASSUME NEW jobs, NEW a \in Admins
  PROVE  Outdated(jobs)[a].step = jobs[a].step /\ Outdated(jobs)[a].operations = jobs[a].operations
BY DEF Outdated

LEMMA MemoryByAdmin ==
  ASSUME ProfileTypeInv, NEW a \in Admins,
         AskProfile(a) \/ EnableSwap(a) \/ ReadSets(a) \/ VerifyProfile(a) \/ ProfileFails(a)
  PROVE  MemoryInv'
<1>0. Resting.step = "idle"
  BY DEF Resting
<1>1. swap \in Sizes \cup {0} /\ applies \in 0..MaxApplies /\ Carries(job[a])
  BY DEF ProfileTypeInv, MemoryInv, ProfileInv, Independent, Current
<1>2. CASE AskProfile(a)
  <2>1. PICK s \in Sizes, t \in {"swap", "read"} :
          job' = [job EXCEPT ![a] = [step |-> t, size |-> s, enable |-> t = "swap"]]
    BY <1>2 DEF AskProfile
  <2>2. applies' \in 0..MaxApplies /\ UNCHANGED <<sets, edits, swap>>
    BY <1>1, <1>2, ProfileAssumption DEF AskProfile
  <2> DEFINE j == [step |-> t, size |-> s, enable |-> t = "swap"]
  <2>3. j.step \in {"swap", "read"}
    OBVIOUS
  <2> HIDE DEF j
  <2> QED
    BY <1>1, <2>1, <2>2, <2>3, OneJob DEF j
<1>3. CASE VerifyProfile(a) \/ ProfileFails(a)
  BY <1>0, <1>1, <1>3, OneJob DEF VerifyProfile, ProfileFails
<1>4. CASE EnableSwap(a)
  <2> DEFINE next == [job[a] EXCEPT !.step = "read"]
  <2>1. job' = [job EXCEPT ![a] = next] \/ job' = [job EXCEPT ![a] = Resting]
    BY <1>4 DEF EnableSwap, ProfileTypeInv, ProfileInv
  <2>2. next.step = "read"
    BY <1>1, <1>4 DEF EnableSwap, Carries
  <2>3. swap' \in Sizes \cup {0} /\ UNCHANGED <<sets, edits, applies>>
    BY <1>1, <1>4 DEF EnableSwap, Carries
  <2> HIDE DEF next
  <2> QED
    BY <1>0, <1>1, <2>1, <2>2, <2>3, OneJob
<1>5. CASE ReadSets(a)
  <2>1. UNCHANGED <<sets, swap, applies, edits>> /\ job[a].size \in 1..256
    BY <1>1, <1>5, ProfileAssumption DEF ReadSets, Carries
  <2> DEFINE operations == Operations(sets, job[a].size)
             patch == [step |-> "patch", size |-> job[a].size, enable |-> job[a].enable,
                       operations |-> operations, current |-> TRUE]
  <2>2. job' = [job EXCEPT ![a] = Settled(job[a])] \/ job' = [job EXCEPT ![a] = patch]
    BY <1>5 DEF ReadSets, ProfileTypeInv, ProfileInv
  <2>3. Settled(job[a]).step \in {"verify", "idle"}
    BY DEF Settled, Resting
  <2>4. patch.step = "patch" /\ \A o \in patch.operations : o.value \in Nat
    BY <2>1, OperationsWriteMemory
  <2> HIDE DEF patch
  <2> QED
    BY <1>1, <2>1, <2>2, <2>3, <2>4, OneJob
<1> QED
  BY <1>2, <1>3, <1>4, <1>5

LEMMA MemoryByPatch == ASSUME ProfileTypeInv, NEW a \in Admins, PatchSets(a) PROVE MemoryInv'
<1> DEFINE jobs == [job EXCEPT ![a] = Settled(job[a])]
<1>1. job' = Outdated(jobs) /\ UNCHANGED <<swap, applies, edits>>
  BY DEF PatchSets
<1>2. \A b \in Admins : jobs[b] = IF b = a THEN Settled(job[a]) ELSE job[b]
  BY DEF ProfileTypeInv, ProfileInv
<1>3. Settled(job[a]).step \in {"verify", "idle"}
  BY DEF Settled, Resting
<1> HIDE DEF jobs
<1>4. ASSUME NEW b \in Admins
      PROVE  /\ job'[b].step \in {"idle", "swap", "read", "patch", "verify"}
             /\ job'[b].step = "patch" => \A o \in job'[b].operations : o.value \in Nat
  <2>1. job'[b].step = jobs[b].step /\ job'[b].operations = jobs[b].operations
    BY <1>1, OutdatedKeeps
  <2> QED
    BY <1>2, <1>3, <2>1 DEF ProfileTypeInv, MemoryInv
<1>5. sets' = PatchedSets(sets, job[a].operations) /\ DOMAIN sets' = DOMAIN sets
  BY DEF PatchSets, PatchedSets
<1>6. \A o \in job[a].operations : o.value \in Nat
  BY DEF ProfileTypeInv, MemoryInv, PatchSets
<1>7. \A i \in DOMAIN sets' : sets'[i].limit \in Amount /\ sets'[i].request \in Amount
  BY <1>5, <1>6, PatchWritesMemory DEF ProfileTypeInv, MemoryInv
<1> QED
  BY <1>1, <1>4, <1>7 DEF ProfileTypeInv, MemoryInv

LEMMA MemoryByVendor == ASSUME ProfileTypeInv, VendorEdits PROVE MemoryInv'
<1>1. ASSUME NEW b \in Admins
      PROVE  job'[b].step = job[b].step /\ job'[b].operations = job[b].operations
  BY OutdatedKeeps DEF VendorEdits
<1>2. \A i \in DOMAIN sets' : sets'[i].limit \in Amount /\ sets'[i].request \in Amount
  BY SetsAssumption DEF VendorEdits, Amount
<1>3. edits' \in 0..MaxEdits /\ UNCHANGED <<swap, applies>>
  BY ProfileAssumption DEF VendorEdits, ProfileTypeInv, MemoryInv
<1> QED
  BY <1>1, <1>2, <1>3 DEF ProfileTypeInv, MemoryInv

\* The three parts, each with what its types rest on.
MaintenanceInv ==
  LifecycleInv /\ BackupTypeOK /\ ProfileTypeInv /\ about \in Abouts

LEMMA MaintenanceInitially == MaintenanceInit => MaintenanceInv
BY LifecycleInitially, BackupInitially, ProfileInitially, MemoryInitially
DEF MaintenanceInit, MaintenanceInv, ProfileTypeInv

LEMMA MaintenanceInduction ==
  MaintenanceInv /\ [MaintenanceNext]_maintenanceVars => MaintenanceInv'
<1> SUFFICES ASSUME MaintenanceInv, [MaintenanceNext]_maintenanceVars PROVE MaintenanceInv'
  OBVIOUS
<1>1. about' \in Abouts
  BY DEF MaintenanceInv, MaintenanceNext, Servers, Records, Memory, maintenanceVars
<1>2. LifecycleInv'
  <2>1. CASE LifecycleNext
    BY <2>1, SwitchesKept, LifecycleTypesKept DEF MaintenanceInv, LifecycleInv
  <2>2. CASE UNCHANGED lifecycleVars
    BY <2>2 DEF MaintenanceInv, LifecycleInv, Switches, LifecycleTypes, CommandFits,
       lifecycleVars, cluster, task, operator, screen, intent
  <2> QED
    BY <2>1, <2>2 DEF MaintenanceNext, Servers, Records, Memory, maintenanceVars
<1>3. BackupTypeOK'
  <2>1. CASE UNCHANGED backupVars
    BY <2>1 DEF MaintenanceInv, BackupTypeOK, backupVars, dumpVars, pruneVars
  <2> QED
    BY <2>1, BackupTypesKept
    DEF MaintenanceInv, MaintenanceNext, Servers, Records, Memory, maintenanceVars
<1>4. MemoryInv'
  <2>1. CASE UNCHANGED profileVars
    BY <2>1 DEF MaintenanceInv, ProfileTypeInv, MemoryInv, profileVars
  <2> QED
    BY <2>1, MemoryByAdmin, MemoryByPatch, MemoryByVendor
    DEF MaintenanceInv, ProfileNext, MaintenanceNext, Servers, Records, Memory, maintenanceVars
<1> QED
  BY <1>1, <1>2, <1>3, <1>4, ProfileInduction DEF MaintenanceInv, ProfileTypeInv

\* Every variable keeps its type: what dump_pod_diagnostics finds is a backup's
\* pod or nothing, and what any patch of experimental_swap writes is memory.
THEOREM MaintenanceTypeCorrect == MaintenanceSpec => []MaintenanceTypeOK
<1>1. MaintenanceInv => LifecycleTypeOK
  BY DEF MaintenanceInv, LifecycleInv, Switches, LifecycleTypes, LifecycleTypeOK
<1>2. MaintenanceInv => BackupTypeOK /\ about \in Abouts
  BY DEF MaintenanceInv
<1>3. MaintenanceInv => ProfileTypeOK
  BY DEF MaintenanceInv, ProfileTypeInv, ProfileInv, MemoryInv, ProfileTypeOK, Amount
<1>4. MaintenanceInv => MaintenanceTypeOK
  BY <1>1, <1>2, <1>3 DEF MaintenanceTypeOK
<1> QED
  BY <1>4, MaintenanceInitially, MaintenanceInduction, PTL DEF MaintenanceSpec

-----------------------------------------------------------------------------
(* The game update. *)

\* From loading a row to clearing or deferring it.
Working == apply \notin {"idle", "poll", "announce", "deferNext"}

\* While update-apply works on its copy, the row stays, with that build.
CopyIsRow == Working => HasRow /\ target = pending

\* A check goes on only while there is no row: nobody else writes one.
CheckHasNoRow ==
  /\ check # "idle" => ~HasRow
  /\ check = "local" => latest # None

\* Steam is never behind the host, the host never behind its servers, nor
\* the content behind the manifest.
HostOrder == installed <= downloaded /\ downloaded <= steam /\ live <= downloaded

\* A row never names a build Steam has not published.
Published == pending <= steam /\ latest <= steam

\* What the apply has read, or the vendor flow achieved, so far.
ApplyProgress ==
  /\ apply = "files" => seen <= live
  /\ apply \in {"commit", "switch"} => target <= downloaded
  /\ apply = "clear" => target <= live

UpdateInv == TypeOK /\ CheckHasNoRow /\ CopyIsRow /\ HostOrder /\ Published /\ ApplyProgress

LEMMA UpdateInitially == Init => UpdateInv
BY UpdateAssumption DEF Init, UpdateInv, TypeOK, CheckHasNoRow, CopyIsRow, HostOrder,
   Published,
   ApplyProgress, Working, HasRow, None, Build, ApplySteps

\* Every step, failures and crashes included, preserves the invariant.
LEMMA UpdateInduction == UpdateInv /\ [Next]_vars => UpdateInv'
<1> SUFFICES ASSUME UpdateInv, [Next]_vars PROVE UpdateInv'
  OBVIOUS
<1> USE UpdateAssumption DEF UpdateInv, TypeOK, CheckHasNoRow, CopyIsRow, HostOrder,
   Published,
      ApplyProgress, Working, HasRow, None, Build, ApplySteps,
      host, row, checkVars, applyVars, bounds
<1>w. CASE World
  <2>1. CASE Publish
    BY <2>1 DEF Publish
  <2>2. CASE Tick
    BY <2>2 DEF Tick, Down
  <2>3. CASE ManualUpdate
    BY <2>3 DEF ManualUpdate
  <2> QED
    BY <1>w, <2>1, <2>2, <2>3 DEF World
<1>c. CASE Check
  <2>1. CASE CheckStart
    BY <2>1 DEF CheckStart
  <2>2. CASE CheckLatest
    BY <2>2 DEF CheckLatest
  <2>3. CASE CheckLocal
    BY <2>3 DEF CheckLocal, UpsertPending
  <2> QED
    BY <1>c, <2>1, <2>2, <2>3 DEF Check
<1>a. CASE Apply
  <2>1. CASE ApplyPoll
    BY <2>1 DEF ApplyPoll
  <2>2. CASE ApplyDue
    BY <2>2 DEF ApplyDue
  <2>3. CASE ApplyReadLive
    BY <2>3 DEF ApplyReadLive
  <2>4. CASE ApplyReadFiles
    BY <2>4 DEF ApplyReadFiles
  <2>5. CASE ApplyBackup
    BY <2>5 DEF ApplyBackup
  <2>6. CASE Vendor
    <3>1. CASE VendorDownload
      BY <3>1 DEF VendorDownload
    <3>2. CASE VendorCommit
      BY <3>2 DEF VendorCommit
    <3>3. CASE VendorSwitch
      BY <3>3 DEF VendorSwitch
    <3> QED
      BY <2>6, <3>1, <3>2, <3>3 DEF Vendor
  <2>7. CASE ApplyClear \/ ApplyAnnounce
    BY <2>7 DEF ApplyClear, ApplyAnnounce
  <2>8. CASE Defer
    BY <2>8 DEF Defer, CanFail
  <2> QED
    BY <1>a, <2>1, <2>2, <2>3, <2>4, <2>5, <2>6, <2>7, <2>8 DEF Apply
<1>t. CASE Trouble
  <2>1. CASE CheckFail
    BY <2>1 DEF CheckFail, CanFail
  <2>2. CASE ApplyFail
    BY <2>2 DEF ApplyFail, CanFail
  <2>3. CASE Crash
    BY <2>3 DEF Crash, CanCrash
  <2>4. CASE OpenDies
    BY <2>4 DEF OpenDies, CanCrash
  <2> QED
    BY <1>t, <2>1, <2>2, <2>3, <2>4 DEF Trouble
<1>o. CASE Open
  BY <1>o DEF Open
<1>u. CASE UNCHANGED vars
  BY <1>u DEF vars
<1> QED
  BY <1>w, <1>c, <1>a, <1>t, <1>o, <1>u DEF Next

\* The invariant behind the other theorems: the row, the copy the apply works
\* on, the host's files and the servers never contradict each other.
THEOREM UpdateInvariance == Spec => []UpdateInv
BY UpdateInitially, UpdateInduction, PTL DEF Spec

\* Every variable keeps its type.
THEOREM UpdateTypeCorrect == Spec => []TypeOK
<1>1. UpdateInv => TypeOK
  BY DEF UpdateInv
<1> QED
  BY <1>1, UpdateInvariance, PTL

\* Only the two steps of update-apply that mean it remove the row.
LEMMA OnlyApplyClears ==
  ASSUME UpdateInv, [Next]_vars, HasRow, ~HasRow'
  PROVE  ApplyReadFiles \/ ApplyClear
<1> USE DEF HasRow, row
<1>1. CASE World \/ Trouble \/ Open \/ UNCHANGED vars
  BY <1>1 DEF World, Publish, Tick, ManualUpdate, Trouble, CheckFail, ApplyFail, Crash,
     OpenDies,
     Open, vars
<1>2. CASE Check
  BY <1>2 DEF UpdateInv, CheckHasNoRow, Check, CheckStart, CheckLatest, CheckLocal,
     UpsertPending
<1>3. CASE Apply
  BY <1>3 DEF Apply, ApplyPoll, ApplyDue, ApplyReadLive, ApplyBackup, Vendor,
     VendorDownload,
     VendorCommit, VendorSwitch, ApplyAnnounce, Defer
<1> QED
  BY <1>1, <1>2, <1>3 DEF Next

\* The pending update is dropped only when the servers run it: no failure,
\* crash or manual update makes the row vanish with the update undone.
THEOREM ClearedOnlyIfLiveHolds == Spec => ClearedOnlyIfLive
<1>1. ASSUME UpdateInv, [Next]_vars, HasRow, ~HasRow'
      PROVE  live >= pending
  <2> USE UpdateAssumption DEF UpdateInv, TypeOK, CopyIsRow, HostOrder, ApplyProgress,
     Working, Build,
        None, HasRow
  <2>1. CASE ApplyReadFiles
    BY <1>1, <2>1 DEF ApplyReadFiles, AlreadyApplied, LocalBuild, DownloadedVersion
  <2>2. CASE ApplyClear
    BY <1>1, <2>2 DEF ApplyClear
  <2> QED
    BY <1>1, <2>1, <2>2, OnlyApplyClears
<1>2. UpdateInv /\ [Next]_vars => [HasRow /\ ~HasRow' => live >= pending]_vars
  BY <1>1
<1> QED
  BY <1>2, UpdateInvariance, PTL DEF Spec, ClearedOnlyIfLive

-----------------------------------------------------------------------------
(* The promise to the players.                                             *)

\* A row is not due before the time announced, or was put off by a run that had
\* served the row before it, or by a restart: then by the whole of that delay.
Warned ==
  \/ promise <= wait
  \/ dueBy = "former" /\ promise + Retry <= Lead + wait
  \/ crashes > 0 /\ promise + Orphan <= Lead + wait

\* What is worked on is due, and by a living daemon.
PromiseInv ==
  /\ HasRow => Warned
  /\ Working => wait = 0
  /\ daemon # "up" => crashes > 0 /\ apply = "idle" /\ check = "idle"

LEMMA PromiseInduction == UpdateInv /\ PromiseInv /\ [Next]_vars => PromiseInv'
<1> SUFFICES ASSUME UpdateInv, PromiseInv, [Next]_vars PROVE PromiseInv'
  OBVIOUS
<1> USE UpdateAssumption DEF UpdateInv, TypeOK, PromiseInv, Warned, Working, HasRow, row,
   checkVars, applyVars, bounds
<1>1. CASE World
  BY <1>1 DEF World, Publish, Tick, ManualUpdate, Down
<1>2. CASE Check
  BY <1>2 DEF Check, CheckStart, CheckLatest, CheckLocal, UpsertPending, CopyIsRow,
     CheckHasNoRow
<1>3. CASE Apply
  <2>1. CASE ApplyPoll \/ ApplyDue \/ ApplyReadLive \/ ApplyReadFiles \/ ApplyBackup
    BY <2>1 DEF ApplyPoll, ApplyDue, ApplyReadLive, ApplyReadFiles, ApplyBackup
  <2>2. CASE Vendor \/ ApplyClear \/ ApplyAnnounce
    BY <2>2 DEF Vendor, VendorDownload, VendorCommit, VendorSwitch, ApplyClear,
       ApplyAnnounce
  <2>3. CASE Defer
    BY <2>3 DEF Defer, CanFail, ApplySteps
  <2> QED
    BY <1>3, <2>1, <2>2, <2>3 DEF Apply
<1>4. CASE Trouble
  BY <1>4 DEF Trouble, CheckFail, ApplyFail, Crash, OpenDies, CanCrash, CanFail
<1>5. CASE Open \/ UNCHANGED vars
  BY <1>5 DEF Open, vars
<1> QED
  BY <1>1, <1>2, <1>3, <1>4, <1>5 DEF Next

\* No update starts before the time announced, but for the two deferrals of a row
\* by those who do not serve it, and those leave their delay.
THEOREM PromiseHolds == Spec => []NotBeforePromise
<1>1. Init => PromiseInv
  BY DEF Init, PromiseInv, Working, HasRow, None
<1>2. UpdateInv /\ PromiseInv => NotBeforePromise
  BY UpdateAssumption DEF UpdateInv, TypeOK, CopyIsRow, PromiseInv, Warned,
     NotBeforePromise, Updating, Working
<1>3. UpdateInv /\ PromiseInv /\ [Next]_vars => PromiseInv'
  BY PromiseInduction
<1> QED
  BY <1>1, <1>2, <1>3, UpdateInvariance, PTL DEF Spec

-----------------------------------------------------------------------------
(* No needless row and no needless update, where the manifest is readable   *)
(* and until the operator updates by hand.                                  *)

FaithfulInv ==
  manual = 0 =>
    /\ live <= installed
    /\ apply = "switch" => installed = downloaded
    /\ apply = "files" => seen = live
    /\ apply \in {"backup", "download"} => ~(installed = target /\ live = downloaded)
    /\ check = "local" => installed <= latest

\* What was inspected stays true until the vendor flow starts.
LEMMA FaithfulInduction ==
  ASSUME ManifestReadable = TRUE
  PROVE  UpdateInv /\ FaithfulInv /\ [Next]_vars => FaithfulInv'
<1> SUFFICES ASSUME UpdateInv, FaithfulInv, [Next]_vars PROVE FaithfulInv'
  OBVIOUS
<1>f. LocalBuild = installed /\ DownloadedVersion = downloaded
  BY DEF LocalBuild, DownloadedVersion
<1> USE <1>f, UpdateAssumption DEF UpdateInv, TypeOK, FaithfulInv, HostOrder,
   Published, CheckHasNoRow,
      CopyIsRow, Working, HasRow, Build, None, ApplySteps, host, row, checkVars,
         applyVars, bounds
<1>1. CASE World
  BY <1>1 DEF World, Publish, Tick, ManualUpdate
<1>2. CASE Check
  BY <1>2 DEF Check, CheckStart, CheckLatest, CheckLocal, UpsertPending
<1>3. CASE Apply
  <2>1. CASE ApplyReadFiles
    BY <2>1 DEF ApplyReadFiles, AlreadyApplied
  <2>2. CASE Vendor
    BY <2>2 DEF Vendor, VendorDownload, VendorCommit, VendorSwitch
  <2>3. CASE Defer
    BY <2>3 DEF Defer, CanFail
  <2> QED
    BY <1>3, <2>1, <2>2, <2>3 DEF Apply, ApplyPoll, ApplyDue, ApplyReadLive,
       ApplyBackup, ApplyClear, ApplyAnnounce
<1>4. CASE Trouble
  BY <1>4 DEF Trouble, CheckFail, ApplyFail, Crash, OpenDies, CanCrash, CanFail
<1>5. CASE Open \/ UNCHANGED vars
  BY <1>5 DEF Open, vars
<1> QED
  BY <1>1, <1>2, <1>3, <1>4, <1>5 DEF Next

\* The servers are not restarted for an update they already run.
THEOREM NoIdleUpdateHolds ==
  ASSUME ManifestReadable = TRUE
  PROVE  Spec => NoIdleUpdate
<1>1. Init => FaithfulInv
  BY UpdateAssumption DEF Init, FaithfulInv
<1>2. UpdateInv /\ FaithfulInv => [VendorDownload /\ manual = 0 => live < steam \/ target # steam]_vars
  BY UpdateAssumption DEF UpdateInv, TypeOK, HostOrder, FaithfulInv, VendorDownload,
     Build
<1>3. UpdateInv /\ FaithfulInv /\ [Next]_vars => FaithfulInv'
  BY FaithfulInduction
<1> QED
  BY <1>1, <1>2, <1>3, UpdateInvariance, PTL DEF Spec, NoIdleUpdate

\* A row is written only for a build the servers do not run yet.
THEOREM RealDeltaHolds ==
  ASSUME ManifestReadable = TRUE
  PROVE  Spec => RealDelta
<1>1. Init => FaithfulInv
  BY UpdateAssumption DEF Init, FaithfulInv
<1>2. ASSUME UpdateInv, FaithfulInv, [Next]_vars, ~HasRow, HasRow', manual = 0
      PROVE  live < pending'
  <2>1. CheckLocal \/ pending' = pending \/ pending' = None
    BY <1>2 DEF Next, World, Publish, Tick, ManualUpdate, Check, CheckStart,
       CheckLatest, Apply,
       ApplyPoll, ApplyDue, ApplyReadLive, ApplyReadFiles, ApplyBackup, Vendor,
          VendorDownload,
       VendorCommit, VendorSwitch, ApplyClear, ApplyAnnounce, Defer, Trouble, CheckFail, ApplyFail,
          Crash, OpenDies,
       Open, vars, row
  <2>2. CASE CheckLocal
    <3>1. LocalBuild = installed
      BY DEF LocalBuild
    <3> QED
      BY <1>2, <2>2, <3>1, UpdateAssumption DEF CheckLocal, UpsertPending, UpdateInv,
         TypeOK, FaithfulInv, HasRow, row,
         Build, None
  <2> QED
    BY <1>2, <2>1, <2>2 DEF HasRow
<1>3. UpdateInv /\ FaithfulInv /\ [Next]_vars => [~HasRow /\ HasRow' /\ manual = 0 => live < pending']_vars
  BY <1>2
<1>4. UpdateInv /\ FaithfulInv /\ [Next]_vars => FaithfulInv'
  BY FaithfulInduction
<1> QED
  BY <1>1, <1>3, <1>4, UpdateInvariance, PTL DEF Spec, RealDelta

\* The row appears only on a real delta (update_check.rs) and goes only with its
\* build live (update_apply.rs), for any number of builds, ticks and crashes, as
\* long as the manifest can be read.
THEOREM RowTruthfulHolds ==
  ASSUME ManifestReadable = TRUE
  PROVE  Spec => RowTruthful
<1> QED
  BY ClearedOnlyIfLiveHolds, RealDeltaHolds DEF RowTruthful
=============================================================================
