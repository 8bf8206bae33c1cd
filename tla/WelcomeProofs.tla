---------------------------- MODULE WelcomeProofs ----------------------------
(***************************************************************************)
(* Theorems of WelcomePackage and WelcomeMessage, for every set of         *)
(* accounts and any number of faults, crashes and retries.                 *)
(***************************************************************************)
EXTENDS WelcomePackage, WelcomeMessage, TLAPS

\* The scan is between picking an account and writing its row.
AtAccount == step \in {"resolve", "insert", "log", "granted", "failed"}

\* It only gets there with an account that has no row, and nobody else writes one.
NoRowYet == AtAccount => current \in Account /\ ledger[current] = "none"

\* The accounts whose last package is, or is about to be, in the ledger.
Settled(a) == ledger[a] = "granted" \/ (current = a /\ step \in {"log", "granted"})

\* Packages that no row tells of cost a fault or a crash each.
Paid == \A a \in Account :
  /\ Settled(a) => items[a] \in 1..(1 + faults + crashes)
  /\ ~Settled(a) => items[a] \in 0..(faults + crashes)

IInv == TypeOK /\ NoRowYet /\ Paid

LEMMA Initially == Init => IInv
BY ScanAssumption, RetryAssumption DEF Init, ScanInit, ScanTypeOK, IInv, TypeOK, NoRowYet, Paid, Settled, AtAccount, Steps

\* The steps of the scan that write neither database.
LEMMA QuietStep ==
  ASSUME IInv, UNCHANGED <<items, ledger, faults, crashes, retries>>,
         loaded' \subseteq Account, todo' \subseteq Account, step' \in Steps,
         current' \in Account \cup {Nobody},
         NoRowYet', \A a \in Account : Settled(a)' <=> Settled(a)
  PROVE  IInv'
BY DEF IInv, TypeOK, ScanTypeOK, Paid

LEMMA Induction == IInv /\ [Next]_vars => IInv'
<1> SUFFICES ASSUME IInv, [Next]_vars PROVE IInv'
  OBVIOUS
<1> USE ScanAssumption, RetryAssumption DEF IInv, TypeOK, ScanTypeOK, NoRowYet, AtAccount, Settled, Steps, scan,
   bounds
<1>1. CASE ScanStart
  BY <1>1, QuietStep DEF ScanStart, ListAccounts
<1>2. CASE ScanEnd
  BY <1>2, QuietStep DEF ScanEnd, ListDone
<1>3. ASSUME NEW a \in Account, Pick(a) PROVE IInv'
  BY <1>3, QuietStep DEF Pick, Take
<1>4. CASE Resolve
  BY <1>4, QuietStep DEF Resolve
<1>5. CASE Insert
  BY <1>5 DEF Insert, Paid
<1>6. CASE Log
  BY <1>6, QuietStep DEF Log
<1>7. CASE Granted
  BY <1>7 DEF Granted, Paid
<1>8. CASE Failed
  BY <1>8 DEF Failed, Paid
<1>9. CASE PackageError
  BY <1>9 DEF PackageError, CanFail, Paid
<1>10. CASE ScanError
  BY <1>10 DEF ScanError, CanFail, ScanLost, Paid
<1>11. CASE Crash
  BY <1>11 DEF Crash, Die, ScanLost, Paid
<1>12. ASSUME NEW a \in Account, Load(a) PROVE IInv'
  BY <1>12, QuietStep DEF Load
<1>13. ASSUME NEW a \in Account, Retry(a) PROVE IInv'
  BY <1>13 DEF Retry, Paid
<1>14. CASE UNCHANGED vars
  BY <1>14, QuietStep DEF vars
<1> QED
  BY <1>1, <1>2, <1>3, <1>4, <1>5, <1>6, <1>7, <1>8, <1>9, <1>10, <1>11, <1>12, <1>13,
     <1>14
  DEF Next, Scan

\* The ledger and the backpacks never drift apart but for faults and crashes.
THEOREM Invariance == Spec => []IInv
BY Initially, Induction, PTL DEF Spec

\* Every variable keeps its type.
THEOREM TypeCorrect == Spec => []TypeOK
<1>1. IInv => TypeOK
  BY DEF IInv
<1> QED
  BY <1>1, Invariance, PTL

\* However often the operator retries and the scan comes around, a second
\* package needs a fault or a crash.
THEOREM DuplicateNeedsFaultHolds == Spec => []DuplicateNeedsFault
<1>1. ASSUME IInv, NEW a \in Account PROVE items[a] <= 1 + faults + crashes
  BY <1>1, ScanAssumption DEF IInv, TypeOK, ScanTypeOK, Paid
<1>2. IInv => DuplicateNeedsFault
  BY <1>1 DEF DuplicateNeedsFault
<1> QED
  BY <1>2, Invariance, PTL

\* Only the two steps that may commit change the backpacks.
LEMMA OnlyInsertGives ==
  ASSUME [Next]_vars, items' # items
  PROVE  /\ step \in {"insert"} /\ items' = [items EXCEPT ![current] = @ + 1]
         /\ UNCHANGED ledger
<1>1. Insert \/ PackageError
  BY DEF Next, Scan, ScanStart, ScanEnd, Pick, Resolve, Log, Granted, Failed,
     ScanError, Crash,
     Load, Retry, vars
<1> QED
  BY <1>1 DEF Insert, PackageError

\* No row, granted or failed, is ever followed by a delivery.
THEOREM FailedRestsHolds == Spec => FailedRests
<1>1. ASSUME IInv, [Next]_vars, NEW a \in Account, items'[a] # items[a]
      PROVE  ledger[a] = "none"
  <2>1. step = "insert" /\ items' = [items EXCEPT ![current] = @ + 1]
    BY <1>1, OnlyInsertGives
  <2> QED
    BY <1>1, <2>1 DEF IInv, TypeOK, NoRowYet, AtAccount
<1>2. IInv /\ [Next]_vars => [\A a \in Account : items'[a] # items[a] => ledger[a] = "none"]_vars
  BY <1>1
<1> QED
  BY <1>2, Invariance, PTL DEF Spec, FailedRests

\* The package implements the delivery promise: items first, then the row,
\* then never again.
THEOREM Refinement == Spec => PromiseKept
<1>1. Init => Promise!Init
  BY DEF Init, Promise!Init, granted
<1>2. ASSUME IInv, [Next]_vars PROVE [Promise!Next]_(Promise!vars)
  <2>1. CASE items' # items
    <3>1. /\ step = "insert" /\ items' = [items EXCEPT ![current] = @ + 1] /\ UNCHANGED ledger
      BY <1>2, <2>1, OnlyInsertGives
    <3>2. current \in Account /\ ledger[current] = "none"
      BY <1>2, <3>1 DEF IInv, NoRowYet, AtAccount
    <3>3. Promise!Deliver(current)
      BY <3>1, <3>2 DEF Promise!Deliver, granted
    <3> QED
      BY <3>2, <3>3 DEF Promise!Next
  <2>2. CASE Granted
    <3>1. current \in Account /\ items[current] > 0 /\ UNCHANGED items
      BY <1>2, <2>2, ScanAssumption
      DEF IInv, TypeOK, ScanTypeOK, NoRowYet, AtAccount, Paid, Settled, Granted
    <3>2. granted' = granted \cup {current}
      BY <1>2, <2>2, <3>1 DEF IInv, TypeOK, Granted, granted
    <3>3. Promise!Record(current)
      BY <3>1, <3>2 DEF Promise!Record
    <3> QED
      BY <3>1, <3>3 DEF Promise!Next
  <2>3. CASE items' = items /\ ~Granted
    <3>1. granted' = granted
      <4>1. CASE Failed
        BY <1>2, <4>1 DEF IInv, TypeOK, NoRowYet, AtAccount, Failed, granted
      <4>2. ASSUME NEW a \in Account, Retry(a) PROVE granted' = granted
        BY <1>2, <4>2 DEF IInv, TypeOK, Retry, granted
      <4>3. CASE UNCHANGED ledger
        BY <4>3 DEF granted
      <4> QED
        BY <1>2, <2>3, <4>1, <4>2, <4>3 DEF Next, Scan, ScanStart, ScanEnd, Pick,
           Resolve, Insert, Log,
           PackageError, ScanError, Crash, Load, vars
    <3> QED
      BY <2>3, <3>1 DEF Promise!vars
  <2> QED
    BY <2>1, <2>2, <2>3
<1> QED
  BY <1>1, <1>2, Invariance, PTL DEF Spec, PromiseKept, Promise!Spec

-----------------------------------------------------------------------------
(* The welcome message, whose scan is of the same form.                    *)

\* Before the whisper goes out no row says it did.
MessageUnsent ==
  /\ step \in {"resolve", "ensure", "send", "published",
     "confirmed"} => current \in Account
  /\ step \in {"send", "published"} => action[current] \notin {"published", "confirmed"}
  /\ step = "confirmed" => action[current] \in {"published", "confirmed"}

\* The whispers the action row tells of, or is about to.
MessageSettled(a) == a \in sent \/ (current = a /\ step = "published")

\* Whispers no row tells of cost a fault or a crash each.
MessagePaid == \A a \in Account :
  /\ MessageSettled(a) => whispers[a] \in 1..(1 + faults + crashes)
  /\ ~MessageSettled(a) => whispers[a] \in 0..(faults + crashes)

MessageIInv == MessageTypeOK /\ MessageUnsent /\ MessagePaid

LEMMA MessageInitially == MessageInit => MessageIInv
BY ScanAssumption DEF MessageInit, ScanInit, ScanTypeOK, MessageIInv, MessageTypeOK, MessageUnsent,
   MessagePaid, MessageSettled, sent, MessageSteps

LEMMA MessageInduction == MessageIInv /\ [MessageNext]_messageVars => MessageIInv'
<1> SUFFICES ASSUME MessageIInv, [MessageNext]_messageVars PROVE MessageIInv'
  OBVIOUS
<1> USE ScanAssumption DEF ScanTypeOK, MessageIInv, MessageTypeOK, MessageUnsent, MessagePaid,
   MessageSettled, sent, MessageSteps, scan, messageBounds
<1>1. CASE MessageStart \/ MessageEnd
  BY <1>1 DEF MessageStart, MessageEnd, ListAccounts, ListDone
<1>2. ASSUME NEW a \in Account, MessagePick(a) \/ Appear(a) PROVE MessageIInv'
  BY <1>2 DEF MessagePick, Take, Appear
<1>3. CASE MessageResolve
  BY <1>3 DEF MessageResolve
<1>4. CASE Ensure
  <2>2. \A a \in Account : a \in sent' <=> a \in sent
    BY <1>4 DEF Ensure
  <2>3. \A a \in Account : MessageSettled(a)' <=> MessageSettled(a)
    BY <1>4, <2>2 DEF Ensure
  <2>4. MessageTypeOK' /\ MessagePaid'
    BY <1>4, <2>3 DEF Ensure
  <2>5. MessageUnsent'
    BY <1>4 DEF Ensure
  <2> QED
    BY <2>4, <2>5
<1>5. CASE Send
  BY <1>5 DEF Send
<1>6. CASE Published
  BY <1>6 DEF Published
<1>7. CASE Confirmed
  BY <1>7 DEF Confirmed
<1>8. CASE AccountError
  BY <1>8 DEF AccountError, MessageCanFail, ScanLost
<1>9. CASE MessageCrash
  BY <1>9 DEF MessageCrash, Die, ScanLost
<1>10. CASE UNCHANGED messageVars
  BY <1>10 DEF messageVars
<1> QED
  BY <1>1, <1>2, <1>3, <1>4, <1>5, <1>6, <1>7, <1>8, <1>9, <1>10 DEF MessageNext,
     MessageScan

\* The action rows and the broker never drift apart but for faults and crashes.
THEOREM MessageInvariance == MessageSpec => []MessageIInv
BY MessageInitially, MessageInduction, PTL DEF MessageSpec

\* Every variable keeps its type.
THEOREM MessageTypeCorrect == MessageSpec => []MessageTypeOK
<1>1. MessageIInv => MessageTypeOK
  BY DEF MessageIInv
<1> QED
  BY <1>1, MessageInvariance, PTL

\* A second whisper to the same account needs a fault or a crash.
THEOREM MessageRepeatNeedsFaultHolds == MessageSpec => []RepeatNeedsFault
<1>1. ASSUME MessageIInv, NEW a \in Account PROVE whispers[a] <= 1 + faults + crashes
  BY <1>1, ScanAssumption DEF ScanTypeOK, MessageIInv, MessageTypeOK, MessagePaid
<1>2. MessageIInv => RepeatNeedsFault
  BY <1>1 DEF RepeatNeedsFault
<1> QED
  BY <1>2, MessageInvariance, PTL

\* The whisper implements the delivery promise: sent first, then marked
\* published, then never sent again.
THEOREM MessageRefinement == MessageSpec => MessagePromiseKept
<1>1. MessageInit => MessagePromise!Init
  BY DEF MessageInit, MessagePromise!Init, sent
<1>2. ASSUME MessageIInv, [MessageNext]_messageVars
   PROVE [MessagePromise!Next]_(MessagePromise!vars)
  <2> USE <1>2 DEF MessageIInv, MessageTypeOK, MessageUnsent
  <2>1. CASE Send \/ (AccountError /\ whispers' # whispers)
    <3>1. current \in Account /\ current \notin sent /\ sent' = sent
      BY <2>1 DEF Send, AccountError, sent
    <3>2. MessagePromise!Deliver(current)
      BY <2>1, <3>1 DEF MessagePromise!Deliver, Send, AccountError
    <3> QED
      BY <3>1, <3>2 DEF MessagePromise!Next
  <2>2. CASE Published
    <3>1. current \in Account /\ whispers[current] > 0 /\ whispers' = whispers
      BY <2>2 DEF Published, MessagePaid, MessageSettled
    <3>2. sent' = sent \cup {current}
      BY <2>2, <3>1 DEF Published, sent
    <3>3. MessagePromise!Record(current)
      BY <3>1, <3>2 DEF MessagePromise!Record
    <3> QED
      BY <3>1, <3>3 DEF MessagePromise!Next
  <2>3. CASE Ensure \/ Confirmed
    <3>1. whispers' = whispers /\ sent' = sent
      BY <2>3 DEF Ensure, Confirmed, sent
    <3> QED
      BY <3>1 DEF MessagePromise!vars
  <2>4. CASE UNCHANGED <<whispers, action>>
    BY <2>4 DEF MessagePromise!vars, sent
  <2> QED
    BY <2>1, <2>2, <2>3, <2>4 DEF MessageNext, MessageScan, MessageStart,
       MessageEnd, MessagePick, MessageResolve, AccountError,
       MessageCrash,
       Appear, messageVars
<1> QED
  BY <1>1, <1>2, MessageInvariance, PTL DEF MessageSpec, MessagePromiseKept,
     MessagePromise!Spec

=============================================================================
