--------------------------- MODULE WelcomePackage ---------------------------
(***************************************************************************)
(* The welcome-package task: every 2 s it lists the accounts and gives     *)
(* each one that has a backpack and no ledger row the configured items, in *)
(* one Postgres transaction; then it writes the account's row into the     *)
(* SQLite ledger welcome_grants.  The two databases share no transaction:  *)
(* what is lost between them decides whether a package is given twice.     *)
(*                                                                         *)
(* One package version is modelled: the version is part of every key.      *)
(***************************************************************************)
EXTENDS WelcomeScan

CONSTANT MaxRetries  \* bound: POST .../welcome-grants/retry

ASSUME RetryAssumption == MaxRetries \in Nat

VARIABLES
  loaded,   \* accounts whose character has a backpack inventory
  items,    \* packages committed to the backpack, per account (Postgres)
  ledger,   \* welcome_grants: "none", "granted" or "failed" (SQLite)
  retries   \* requests to retry so far (bound)

bounds == <<faults, crashes, retries>>
vars == <<loaded, items, ledger, scan, bounds>>

Steps == {"idle", "next", "resolve", "insert", "log", "granted", "failed"}

TypeOK ==
  /\ loaded \subseteq Account
  /\ items \in [Account -> Nat]
  /\ ledger \in [Account -> {"none", "granted", "failed"}]
  /\ step \in Steps /\ ScanTypeOK /\ retries \in 0..MaxRetries

Init ==
  /\ loaded = {}
  /\ items = [a \in Account |-> 0]
  /\ ledger = [a \in Account |-> "none"]
  /\ ScanInit /\ retries = 0

-----------------------------------------------------------------------------
\* The character of a has finished loading.
Load(a) ==
  /\ a \notin loaded
  /\ loaded' = loaded \cup {a}
  /\ UNCHANGED <<items, ledger, scan, bounds>>

\* The cluster answers and the accounts are listed.
ScanStart == ListAccounts /\ UNCHANGED <<loaded, items, ledger, bounds>>

ScanEnd == ListDone /\ UNCHANGED <<loaded, items, ledger, bounds>>

\* welcome_grant_exists: any row, granted or failed, means done.
Pick(a) ==
  /\ Take(a)
  /\ step' = IF ledger[a] = "none" THEN "resolve" ELSE "next"
  /\ UNCHANGED <<loaded, items, ledger, bounds>>

\* Mutant of Resolve: the test for a missing backpack is inverted.
ResolveInverted ==
  /\ step = "resolve"
  /\ step' = IF current \notin loaded THEN "insert" ELSE "next"
  /\ UNCHANGED <<loaded, items, ledger, current, todo, bounds>>

\* No backpack yet: no row either, a later scan tries again.
Resolve ==
  /\ step = "resolve"
  /\ step' = IF current \in loaded THEN "insert" ELSE "next"
  /\ UNCHANGED <<loaded, items, ledger, current, todo, bounds>>

\* insert_items_to_backpack commits all items of the package or none.
Insert ==
  /\ step = "insert"
  /\ items' = [items EXCEPT ![current] = @ + 1]
  /\ step' = "log"
  /\ UNCHANGED <<loaded, ledger, current, todo, bounds>>

\* log_info after the commit; the audit record before it may fail unnoticed.
Log ==
  /\ step = "log"
  /\ step' = "granted"
  /\ UNCHANGED <<loaded, items, ledger, current, todo, bounds>>

\* Mutant of Granted: the row is left to a later scan.
GrantedForgotten ==
  /\ step = "granted"
  /\ step' = "next"
  /\ UNCHANGED <<loaded, items, ledger, current, todo, bounds>>

\* insert_welcome_grant_granted.
Granted ==
  /\ step = "granted"
  /\ ledger' = [ledger EXCEPT ![current] = "granted"]
  /\ step' = "next"
  /\ UNCHANGED <<loaded, items, current, todo, bounds>>

\* insert_welcome_grant_failed.
Failed ==
  /\ step = "failed"
  /\ ledger' = [ledger EXCEPT ![current] = "failed"]
  /\ step' = "next"
  /\ UNCHANGED <<loaded, items, current, todo, bounds>>

CanFail ==
  /\ faults < MaxFaults
  /\ faults' = faults + 1
  /\ UNCHANGED <<crashes, retries>>

\* An error inside process_item_package is caught and becomes a failed row.
\* The reply to COMMIT may be what was lost: the items are then there.
PackageError ==
  /\ step \in {"resolve", "insert", "log"} /\ CanFail
  /\ step' = "failed"
  /\ \/ UNCHANGED items
     \/ step = "insert" /\ items' = [items EXCEPT ![current] = @ + 1]
  /\ UNCHANGED <<loaded, ledger, current, todo>>

\* An error of the scan's own store calls ends it; the list starts over.
ScanError ==
  /\ step \in {"next", "granted", "failed"} /\ CanFail /\ ScanLost
  /\ UNCHANGED <<loaded, items, ledger>>

\* Mutant of Retry: any row is deleted, whatever its status.
RetryAny(a) ==
  /\ ledger[a] # "none" /\ retries < MaxRetries
  /\ ledger' = [ledger EXCEPT ![a] = "none"]
  /\ retries' = retries + 1
  /\ UNCHANGED <<loaded, items, scan, faults, crashes>>

\* The operator clears a failed row so that the next scan tries again.
Retry(a) ==
  /\ ledger[a] = "failed" /\ retries < MaxRetries
  /\ ledger' = [ledger EXCEPT ![a] = "none"]
  /\ retries' = retries + 1
  /\ UNCHANGED <<loaded, items, scan, faults, crashes>>

\* Death and restart: the scan is forgotten, an open transaction rolls back.
Crash ==
  /\ Die
  /\ UNCHANGED <<loaded, items, ledger, faults, retries>>

-----------------------------------------------------------------------------
Scan == \/ ScanStart \/ ScanEnd \/ (\E a \in Account : Pick(a))
        \/ Resolve \/ Insert \/ Log \/ Granted \/ Failed

Next == \/ Scan \/ PackageError \/ ScanError \/ Crash
        \/ \E a \in Account : Load(a) \/ Retry(a)

Spec == Init /\ [][Next]_vars

\* The scan comes around again; players, operator, faults and crashes owe nothing.
FairSpec == Spec /\ WF_vars(Scan)

-----------------------------------------------------------------------------
\* Every package beyond an account's first is paid for by a fault or a crash
\* between the two databases: operator retries and scans alone never
\* duplicate one.
DuplicateNeedsFault == \A a \in Account : items[a] <= 1 + faults + crashes

\* The ledger calls an account granted only after the items are committed, and
\* from then on none are: the Delivery promise.
granted == {a \in Account : ledger[a] = "granted"}
Promise == INSTANCE Delivery WITH delivered <- items, recorded <- granted
PromiseKept == Promise!Spec

\* A failed account is not touched again until the operator clears its row.
FailedRests ==
  [][\A a \in Account : items'[a] # items[a] => ledger[a] = "none"]_vars

\* Every account whose character loads is granted, or failed for the operator to see.
EventuallyHandled == \A a \in Account : a \in loaded ~> ledger[a] # "none"

\* What the operator may retry was not given: a retry never duplicates a package.
RetryIsSafe == \A a \in Account : ledger[a] = "failed" => items[a] = 0
=============================================================================
