------------------------------ MODULE BackupRun ------------------------------
(***************************************************************************)
(* A backup: a precheck, the vendor's `battlegroup backup`, which has a    *)
(* DatabaseOperation dump the database in a pod of its own, a monitor that *)
(* looks at the dump pods every two seconds meanwhile, and the check of    *)
(* the file.  When the vendor fails, the error carries what the monitor    *)
(* caught last, or else what a last look finds.                            *)
(*                                                                         *)
(* Two tasks do this, `backup` and `update-apply` before an update, and    *)
(* their runs may overlap; the operator has the vendor's command too.      *)
(* Beside them requests prune the operations that are over; the pod of an  *)
(* operation goes with it.  Dumps, with their operation and their pod, are *)
(* numbered in the order in which they begin.                              *)
(***************************************************************************)
EXTENDS Naturals

CONSTANTS
  Callers,   \* the tasks that back up, each one run at a time
  MaxDumps,  \* bound: dumps that begin
  MaxPrunes  \* bound: prune requests, one at a time

ASSUME BackupAssumption == MaxDumps \in Nat \ {0} /\ MaxPrunes \in Nat

VARIABLES
  backups,    \* the run of each caller
  dumps,      \* how many dumps have begun
  operation,  \* the phase of the DatabaseOperation of each
  pod,        \* ... and whether its pod is there
  prune,      \* the request: "idle", or at "list" or "delete"
  targets,    \* ... its items
  eligible,   \* ... and list_prunable_dumps, read once
  prunes

dumpVars == <<dumps, operation, pod>>
pruneVars == <<prune, targets, eligible, prunes>>
backupVars == <<backups, dumpVars, pruneVars>>

Dumps == 1..MaxDumps

\* `at` is the step, "failed" after an error of the vendor; `dump` its own dump,
\* 0 before it begins; `buffer` diag_buffer: the dump whose pod the monitor found
\* last, 0 for None; `diagnosis` what the error is explained by.  For the
\* property: `around` are the dumps that had a pod while it ran, `caught` those
\* the monitor saw.
NoBackup ==
  [at |-> "idle", dump |-> 0, buffer |-> 0, diagnosis |-> 0, around |-> {}, caught |-> {}]

Backup ==
  [at : {"idle", "precheck", "vendor", "diagnose", "verify", "failed"},
   dump : 0..MaxDumps, buffer : 0..MaxDumps, diagnosis : 0..MaxDumps,
   around : SUBSET Dumps, caught : SUBSET Dumps]

BackupTypeOK ==
  /\ backups \in [Callers -> Backup] /\ dumps \in 0..MaxDumps
  /\ operation \in [Dumps -> {"none", "Running", "Succeeded", "Failed", "deleted"}]
  /\ pod \in [Dumps -> BOOLEAN]
  /\ prune \in {"idle", "list", "delete"} /\ prunes \in 0..MaxPrunes
  /\ targets \subseteq Dumps /\ eligible \subseteq Dumps

BackupInit ==
  /\ backups = [c \in Callers |-> NoBackup] /\ dumps = 0
  /\ operation = [b \in Dumps |-> "none"] /\ pod = [b \in Dumps |-> FALSE]
  /\ prune = "idle" /\ targets = {} /\ eligible = {} /\ prunes = 0

-----------------------------------------------------------------------------
\* The dumps in the cluster.

\* One begins, asked for by a caller's vendor or by the operator's: every run that
\* has a monitor may meet its pod.
Watching(c) == backups[c].at \in {"vendor", "diagnose"}

Begins(b) ==
  /\ b = dumps + 1 /\ dumps' = b
  /\ operation' = [operation EXCEPT ![b] = "Running"] /\ pod' = [pod EXCEPT ![b] = TRUE]
  /\ UNCHANGED pruneVars

Met(c, b) == IF Watching(c) THEN backups[c].around \cup {b} ELSE backups[c].around

DumpBegins ==
  \E b \in Dumps, c \in Callers :
    /\ Begins(b)
    /\ backups[c].at = "vendor" /\ backups[c].dump = 0
    /\ backups' = [d \in Callers |->
                     [backups[d] EXCEPT !.around = Met(d, b),
                                        !.dump = IF d = c THEN b ELSE @]]

OperatorDumps ==
  \E b \in Dumps :
    /\ Begins(b)
    /\ backups' = [d \in Callers |-> [backups[d] EXCEPT !.around = Met(d, b)]]

\* Also one that its vendor no longer waits for.
DumpEnds ==
  /\ \E b \in Dumps, phase \in {"Succeeded", "Failed"} :
       operation[b] = "Running" /\ operation' = [operation EXCEPT ![b] = phase]
  /\ UNCHANGED <<backups, dumps, pod, pruneVars>>

\* "deletes it on exit".
PodDeleted ==
  /\ \E b \in Dumps :
       /\ pod[b] /\ operation[b] \in {"Succeeded", "Failed"}
       /\ pod' = [pod EXCEPT ![b] = FALSE]
  /\ UNCHANGED <<backups, dumps, operation, pruneVars>>

-----------------------------------------------------------------------------
\* run_backup_and_verify.

StartBackup(c) ==
  /\ backups[c].at \in {"idle", "failed"}
  /\ backups' = [backups EXCEPT ![c] = [NoBackup EXCEPT !.at = "precheck"]]
  /\ UNCHANGED <<dumpVars, pruneVars>>

\* Tables of another owner, or a database that cannot be asked, end it here;
\* otherwise the monitor is started, then the vendor.
Precheck(c) ==
  /\ backups[c].at = "precheck"
  /\ \/ backups' = [backups EXCEPT ![c] = NoBackup]
     \/ backups' = [backups EXCEPT ![c] =
          [@ EXCEPT !.at = "vendor", !.around = {b \in Dumps : pod[b]}]]
  /\ UNCHANGED <<dumpVars, pruneVars>>

\* dump_pod_diagnostics: the dump pod created last; 0 also if kubectl fails.
Latest ==
  CHOOSE b \in 0..MaxDumps :
    /\ b # 0 => pod[b]
    /\ \A c \in Dumps : pod[c] => c <= b

\* Mutant of Poll: what is found replaces what was, found or not.
PollKeepsNothing(c) ==
  /\ backups[c].at = "vendor"
  /\ backups' = [backups EXCEPT ![c] =
       [@ EXCEPT !.buffer = Latest, !.caught = backups[c].caught \cup ({Latest} \ {0})]]
  /\ UNCHANGED <<dumpVars, pruneVars>>

\* The monitor tells dump pods by their name, not whose they are.
Poll(c) ==
  /\ backups[c].at = "vendor" /\ Latest # 0
  /\ backups' = [backups EXCEPT ![c] =
       [@ EXCEPT !.buffer = Latest, !.caught = backups[c].caught \cup {Latest}]]
  /\ UNCHANGED <<dumpVars, pruneVars>>

VendorSucceeds(c) ==
  /\ backups[c].at = "vendor"
  /\ backups[c].dump # 0 /\ operation[backups[c].dump] = "Succeeded"
  /\ backups' = [backups EXCEPT ![c].at = "verify"]
  /\ UNCHANGED <<dumpVars, pruneVars>>

\* At any time: it may not get to the dump, and it has 600 s.
VendorFails(c) ==
  /\ backups[c].at = "vendor"
  /\ backups' = [backups EXCEPT ![c].at = "diagnose"]
  /\ UNCHANGED <<dumpVars, pruneVars>>

\* The monitor is stopped before; a last look is taken only if it found nothing.
Diagnose(c) ==
  /\ backups[c].at = "diagnose"
  /\ \E found \in IF backups[c].buffer # 0 THEN {backups[c].buffer} ELSE {Latest, 0} :
       backups' = [backups EXCEPT ![c] = [@ EXCEPT !.at = "failed", !.diagnosis = found]]
  /\ UNCHANGED <<dumpVars, pruneVars>>

\* stat: also if the file is missing or empty.
Verify(c) ==
  /\ backups[c].at = "verify"
  /\ backups' = [backups EXCEPT ![c] = NoBackup]
  /\ UNCHANGED <<dumpVars, pruneVars>>

\* The daemon ends; the dumps go on.
BackupDies ==
  /\ backups' =
       [c \in Callers |-> IF backups[c].at = "failed" THEN backups[c] ELSE NoBackup]
  /\ UNCHANGED <<dumpVars, pruneVars>>

-----------------------------------------------------------------------------
\* dump_prune_execute.

\* A client sends what it likes, also what it was not shown.
AskPrune ==
  /\ prune = "idle" /\ prunes < MaxPrunes
  /\ prune' = "list" /\ prunes' = prunes + 1
  /\ targets' \in SUBSET Dumps \ {{}}
  /\ UNCHANGED <<backups, dumpVars, eligible>>

\* Mutant of Prunable: an operation is told by its action alone.
PrunableAction == {b \in Dumps : operation[b] \notin {"none", "deleted"}}

\* list_prunable_dumps.
Prunable == {b \in Dumps : operation[b] \in {"Succeeded", "Failed"}}

\* The list is read once; kubectl failing ends the request.
ListPrunable ==
  /\ prune = "list"
  /\ \/ prune' = "delete" /\ eligible' = Prunable /\ UNCHANGED targets
     \/ prune' = "idle" /\ targets' = {} /\ UNCHANGED eligible
  /\ UNCHANGED <<backups, dumpVars, prunes>>

\* One item after another; one that is not eligible, or fails, is skipped.
PruneItem ==
  /\ prune = "delete" /\ targets # {}
  /\ \E b \in targets :
       /\ targets' = targets \ {b}
       /\ \/ /\ b \in eligible
             /\ operation' = [operation EXCEPT ![b] = "deleted"]
             /\ pod' = [pod EXCEPT ![b] = FALSE]
          \/ UNCHANGED <<operation, pod>>
  /\ UNCHANGED <<backups, dumps, prune, eligible, prunes>>

AnswerPrune ==
  /\ prune = "delete" /\ targets = {}
  /\ prune' = "idle" /\ eligible' = {}
  /\ UNCHANGED <<backups, dumpVars, targets, prunes>>

-----------------------------------------------------------------------------
Dump == DumpBegins \/ OperatorDumps \/ DumpEnds \/ PodDeleted
RunBackup ==
  \/ \E c \in Callers : \/ StartBackup(c) \/ Precheck(c) \/ Poll(c) \/ VendorSucceeds(c)
                        \/ VendorFails(c) \/ Diagnose(c) \/ Verify(c)
  \/ BackupDies
Prune == AskPrune \/ ListPrunable \/ PruneItem \/ AnswerPrune

BackupNext == Dump \/ RunBackup \/ Prune

-----------------------------------------------------------------------------
\* The error of a backup the vendor failed is explained by a dump whose pod the
\* monitor saw, if it saw any before they were deleted, and otherwise by nothing or
\* by one that was in the cluster meanwhile (backup.rs: "a post-hoc diagnostics
\* query usually races the cleanup").  So by its own if no other was there; beside
\* another task's or the operator's dump it may be theirs, but never one that was
\* gone before the monitor started or came after the error.
DiagnosisKept ==
  \A c \in Callers :
    backups[c].at = "failed" =>
      /\ backups[c].diagnosis \in IF backups[c].caught # {} THEN backups[c].caught
                              ELSE backups[c].around \cup {0}
      /\ backups[c].around \subseteq {backups[c].dump} =>
           backups[c].diagnosis \in {0, backups[c].dump}

\* A prune takes no dump away that still runs, whatever the client asks for and
\* however old the list is by then.
PruneSpares ==
  [][\A b \in Dumps : operation[b] = "Running" => operation'[b] # "deleted"]_backupVars
=============================================================================
