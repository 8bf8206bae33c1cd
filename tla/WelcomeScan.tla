----------------------------- MODULE WelcomeScan -----------------------------
(***************************************************************************)
(* What the welcome-package and the welcome-message task share: a run of   *)
(* either lists the accounts and takes one after the other through its     *)
(* steps.  TaskRunner's overlap guard makes it a single process.           *)
(***************************************************************************)
EXTENDS Naturals

CONSTANTS
  Account,    \* the accounts of the game database
  Nobody,     \* the current account of a scan at rest
  MaxFaults,  \* bound: failing calls of the store, the database or the broker
  MaxCrashes  \* bound: deaths of the daemon

ASSUME ScanAssumption ==
  Nobody \notin Account /\ MaxFaults \in Nat /\ MaxCrashes \in Nat

VARIABLES
  step,     \* the step the scan is at
  current,  \* the account it is at
  todo,     \* the accounts of its list that are still to come
  faults, crashes  \* how many so far (bounds)

scan == <<step, current, todo>>

ScanTypeOK ==
  /\ current \in Account \cup {Nobody} /\ todo \subseteq Account
  /\ faults \in 0..MaxFaults /\ crashes \in 0..MaxCrashes

ScanInit ==
  /\ step = "idle" /\ current = Nobody /\ todo = {}
  /\ faults = 0 /\ crashes = 0

\* The loop works on the list as it was read.
ListAccounts ==
  /\ step = "idle"
  /\ step' = "next" /\ todo' = Account
  /\ UNCHANGED current

ListDone ==
  /\ step = "next" /\ todo = {}
  /\ step' = "idle" /\ current' = Nobody
  /\ UNCHANGED todo

Take(a) ==
  /\ step = "next" /\ a \in todo
  /\ todo' = todo \ {a} /\ current' = a

\* A later run starts over with a new list.
ScanLost == step' = "idle" /\ current' = Nobody /\ todo' = {}

\* Death of the daemon.
Die ==
  /\ crashes < MaxCrashes
  /\ crashes' = crashes + 1
  /\ ScanLost
=============================================================================
