------------------------------ MODULE Delivery ------------------------------
(***************************************************************************)
(* What the welcome tasks promise of something they owe every account, be  *)
(* it the item package or the whisper: it is delivered before it is        *)
(* recorded as delivered, and not delivered again once it is recorded.     *)
(* How often it is delivered before that is left open.                     *)
(***************************************************************************)
EXTENDS Naturals

CONSTANT Account

VARIABLES delivered,  \* deliveries so far, per account
          recorded    \* the accounts the ledger calls served

vars == <<delivered, recorded>>

Init == delivered = [a \in Account |-> 0] /\ recorded = {}

Deliver(a) ==
  /\ a \notin recorded
  /\ delivered' = [delivered EXCEPT ![a] = @ + 1]
  /\ UNCHANGED recorded

Record(a) ==
  /\ delivered[a] > 0
  /\ recorded' = recorded \cup {a}
  /\ UNCHANGED delivered

Next == \E a \in Account : Deliver(a) \/ Record(a)

Spec == Init /\ [][Next]_vars
=============================================================================
