---------------------------- MODULE MCTaskRunner ----------------------------
(* TLC instance of TaskRunner. *)
EXTENDS TaskRunner

\* Task ids and a trigger slot.
CONSTANTS backup, restart, m1
=============================================================================
