----------------------------- MODULE Maintenance -----------------------------
(***************************************************************************)
(* A battlegroup in service: its servers are stopped and started by the    *)
(* daemon and the operator, its database is backed up and the records of   *)
(* that are pruned, or its memory is set.  The three share nothing that    *)
(* one of them changes: a behaviour is about one of them.                  *)
(***************************************************************************)
EXTENDS Lifecycle, BackupRun, MemoryProfile

VARIABLE about  \* "servers", "backups" or "memory"

maintenanceVars == <<lifecycleVars, backupVars, profileVars, about>>

Abouts == {"servers", "backups", "memory"}

MaintenanceTypeOK == LifecycleTypeOK /\ BackupTypeOK /\ ProfileTypeOK /\ about \in Abouts

MaintenanceInit == LifecycleInit /\ BackupInit /\ ProfileInit /\ about \in Abouts

Servers ==
  about = "servers" /\ LifecycleNext /\ UNCHANGED <<backupVars, profileVars, about>>
Records ==
  about = "backups" /\ BackupNext /\ UNCHANGED <<lifecycleVars, profileVars, about>>
Memory ==
  about = "memory" /\ ProfileNext /\ UNCHANGED <<lifecycleVars, backupVars, about>>

MaintenanceNext == Servers \/ Records \/ Memory

MaintenanceSpec == MaintenanceInit /\ [][MaintenanceNext]_maintenanceVars
=============================================================================
