--------------------------- MODULE SingleInstance ---------------------------
(***************************************************************************)
(* What TaskRunner promises its callers ("enforces the single-instance-    *)
(* per-task overlap guard", scheduler/runner.rs): a task's body is never   *)
(* executed by two callers at once.  Nothing is said of history rows, of   *)
(* skipped runs or of how the promise is kept; TaskRunner implements it.   *)
(***************************************************************************)
CONSTANTS
  Caller,   \* whoever may execute a body: scheduler loops, manual triggers
  Task      \* task ids

VARIABLE active  \* the <<caller, task>> pairs being executed

Init == active = {}

\* A caller that executes nothing starts a task nobody is executing.
Begin(c, t) ==
  /\ \A p \in active : p[1] # c /\ p[2] # t
  /\ active' = active \cup {<<c, t>>}

\* A caller is done with its task.
End(c, t) ==
  /\ <<c, t>> \in active
  /\ active' = active \ {<<c, t>>}

\* The process dies, and everything it was executing with it.
Die == active' = {}

Next ==
  \/ \E c \in Caller, t \in Task : Begin(c, t) \/ End(c, t)
  \/ Die

Spec == Init /\ [][Next]_active
=============================================================================
