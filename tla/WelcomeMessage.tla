--------------------------- MODULE WelcomeMessage ---------------------------
(***************************************************************************)
(* The welcome-message task: every minute it whispers to each account that *)
(* can be resolved to a chat player and whose action row is not confirmed. *)
(* The whisper goes through the message broker; the action row in SQLite   *)
(* is marked published and then confirmed, in two statements after it.     *)
(***************************************************************************)
EXTENDS WelcomeScan

VARIABLES
  present,   \* accounts resolve_chat_player finds
  whispers,  \* whispers the broker accepted, per account
  action     \* status of the row in welcome_grant_actions, "none" without one

messageBounds == <<faults, crashes>>
messageVars == <<present, whispers, action, scan, messageBounds>>

MessageSteps == {"idle", "next", "resolve", "ensure", "send", "published", "confirmed"}

MessageTypeOK ==
  /\ present \subseteq Account
  /\ whispers \in [Account -> Nat]
  /\ action \in [Account -> {"none", "pending", "published", "confirmed"}]
  /\ step \in MessageSteps /\ ScanTypeOK

MessageInit ==
  /\ present = {}
  /\ whispers = [a \in Account |-> 0]
  /\ action = [a \in Account |-> "none"]
  /\ ScanInit

-----------------------------------------------------------------------------
\* The player of a gets a chat identity.
Appear(a) ==
  /\ a \notin present
  /\ present' = present \cup {a}
  /\ UNCHANGED <<whispers, action, scan, messageBounds>>

MessageStart == ListAccounts /\ UNCHANGED <<present, whispers, action, messageBounds>>

MessageEnd == ListDone /\ UNCHANGED <<present, whispers, action, messageBounds>>

\* Mutant of MessagePick: a published row counts as confirmed.
MessagePickPublished(a) ==
  /\ Take(a)
  /\ step' = IF action[a] \in {"published", "confirmed"} THEN "next" ELSE "resolve"
  /\ UNCHANGED <<present, whispers, action, messageBounds>>

\* welcome_action_confirmed: the cheap test before any lookup.
MessagePick(a) ==
  /\ Take(a)
  /\ step' = IF action[a] = "confirmed" THEN "next" ELSE "resolve"
  /\ UNCHANGED <<present, whispers, action, messageBounds>>

\* The recipient may not be resolvable yet; a later scan tries again.
MessageResolve ==
  /\ step = "resolve"
  /\ step' = IF current \in present THEN "ensure" ELSE "next"
  /\ UNCHANGED <<present, whispers, action, current, todo, messageBounds>>

\* Mutant of Ensure: the row of an interrupted attempt is not looked at.
EnsureResends ==
  /\ step = "ensure"
  /\ action' = [action EXCEPT ![current] = IF @ = "none" THEN "pending" ELSE @]
  /\ step' = "send"
  /\ UNCHANGED <<present, whispers, current, todo, messageBounds>>

\* ensure_welcome_grant and ensure_welcome_action; a row that was published by
\* an interrupted attempt is only confirmed.
Ensure ==
  /\ step = "ensure"
  /\ action' = [action EXCEPT ![current] = IF @ = "none" THEN "pending" ELSE @]
  /\ step' = CASE action[current] = "published" -> "confirmed"
             [] action[current] = "confirmed" -> "next"
             [] OTHER -> "send"
  /\ UNCHANGED <<present, whispers, current, todo, messageBounds>>

\* The broker accepts the whisper and says so.
Send ==
  /\ step = "send"
  /\ whispers' = [whispers EXCEPT ![current] = @ + 1]
  /\ step' = "published"
  /\ UNCHANGED <<present, action, current, todo, messageBounds>>

\* Mutant of Published: the action row is not written.
PublishedForgotten ==
  /\ step = "published"
  /\ step' = "next"
  /\ UNCHANGED <<present, whispers, action, current, todo, messageBounds>>

\* mark_welcome_action_published.
Published ==
  /\ step = "published"
  /\ action' = [action EXCEPT ![current] = "published"]
  /\ step' = "confirmed"
  /\ UNCHANGED <<present, whispers, current, todo, messageBounds>>

\* mark_welcome_action_confirmed.
Confirmed ==
  /\ step = "confirmed"
  /\ action' = [action EXCEPT ![current] = "confirmed"]
  /\ step' = "next"
  /\ UNCHANGED <<present, whispers, current, todo, messageBounds>>

MessageCanFail ==
  /\ faults < MaxFaults
  /\ faults' = faults + 1
  /\ UNCHANGED crashes

\* An error while an account is processed is caught and logged: the scan goes
\* on with the next account, or ends if the log cannot be written either, or if
\* the error was in asking the ledger.  The whisper may be out although kubectl
\* reported an error.
AccountError ==
  /\ step \in {"next", "resolve", "ensure", "send", "published", "confirmed"} /\ MessageCanFail
  /\ \/ UNCHANGED whispers
     \/ step = "send" /\ whispers' = [whispers EXCEPT ![current] = @ + 1]
  /\ \/ step' = "next" /\ UNCHANGED <<current, todo>>
     \/ ScanLost
  /\ UNCHANGED <<present, action>>

\* Death and restart: the scan is forgotten.
MessageCrash ==
  /\ Die
  /\ UNCHANGED <<present, whispers, action, faults>>

-----------------------------------------------------------------------------
MessageScan ==
  \/ MessageStart \/ MessageEnd \/ (\E a \in Account : MessagePick(a))
  \/ MessageResolve \/ Ensure \/ Send \/ Published \/ Confirmed

MessageNext == MessageScan \/ AccountError \/ MessageCrash \/ \E a \in Account : Appear(a)

MessageSpec == MessageInit /\ [][MessageNext]_messageVars

\* The scan comes around again; players, faults and crashes owe nothing.
MessageFairSpec == MessageSpec /\ WF_messageVars(MessageScan)

-----------------------------------------------------------------------------
\* Every whisper beyond an account's first is paid for by a fault or a crash.
RepeatNeedsFault == \A a \in Account : whispers[a] <= 1 + faults + crashes

\* A row says published only after the whisper went out, and from then on no
\* scan sends another: the Delivery promise.
sent == {a \in Account : action[a] \in {"published", "confirmed"}}
MessagePromise == INSTANCE Delivery WITH delivered <- whispers, recorded <- sent
MessagePromiseKept == MessagePromise!Spec

\* Every player that appears is greeted in the end, whatever failed before.
EventuallyGreeted == \A a \in Account : a \in present ~> action[a] = "confirmed"
=============================================================================
