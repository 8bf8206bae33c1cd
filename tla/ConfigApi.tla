------------------------------ MODULE ConfigApi ------------------------------
(***************************************************************************)
(* The settings of the daemon.  They are read from the store when it       *)
(* starts; a save goes to the store only, key by key in the order of the   *)
(* code, and each key is validated just before it is written.  A read goes *)
(* through the store key by key as well, and says whether what is stored   *)
(* differs from what the daemon runs with.                                 *)
(*                                                                         *)
(* Four keys stand for the others: a number with a least value (the        *)
(* frequency of the warnings, u64 in a request and i64 in the store), a    *)
(* schedule that an empty text switches off, the switch of the welcome     *)
(* package, and its actions, which the daemon parses when it starts.       *)
(***************************************************************************)
EXTENDS Naturals, Sequences, FiniteSets

CONSTANTS
  MaxSaves,   \* bound: requests that save
  MaxKeys,    \* bound: keys of all requests
  MaxStarts   \* bound: starts of the daemon

ASSUME ConfigAssumption == MaxSaves \in Nat /\ MaxKeys \in Nat /\ MaxStarts \in Nat \ {0}

Saves == 1..MaxSaves

Keys == <<"frequency", "cron", "package", "actions">>
KeySet == {Keys[i] : i \in 1..Len(Keys)}
Past == Len(Keys) + 1

\* What a request may ask for.  "huge" is a number that takes all 64 bits.
Asked == [frequency |-> {"zero", "other", "huge"}, cron |-> {"", "other", "bad"},
          package |-> {"default", "other"}, actions |-> {"other", "bad"}]
Refused == {"zero", "bad"}

\* Requests for one or two keys.
Requests ==
  {w \in UNION {[ks -> {"zero", "default", "", "other", "huge", "bad"}] :
                ks \in {ks \in SUBSET KeySet : Cardinality(ks) \in 1..2}} :
     \A k \in DOMAIN w : w[k] \in Asked[k]}

VARIABLES
  store,     \* of each key its row, "absent" or what was asked for
  env,       \* of each key what the daemon runs with: "default", "other" or "bad"
  starts,    \* so far (bound)
  wanted,    \* of each save the keys it sets and their values
  at,        \* the key it is at, 0: not begun, Past: over
  sanswer,
  raced,     \* saves during which another save ran
  readAt,    \* the key the read is at, 0: there is none
  differs,   \* what it has seen so far
  flag,      \* restart_required in the last answer: "yes", "no", "none"
  dirty      \* a save wrote since the read of that answer began

configVars ==
  <<store, env, starts, wanted, at, sanswer, raced, readAt, differs, flag, dirty>>

ConfigTypeOK ==
  /\ store \in [KeySet -> {"absent", "default", "", "other", "huge", "bad", "zero"}]
  /\ env \in [KeySet -> {"default", "other", "bad"}] /\ starts \in 1..MaxStarts
  /\ at \in [Saves -> 0..Past] /\ raced \subseteq Saves
  /\ sanswer \in [Saves -> {"none", "ok", "refused", "error", "gone"}]
  /\ readAt \in 0..Len(Keys) /\ differs \in BOOLEAN
  /\ flag \in {"yes", "no", "none"} /\ dirty \in BOOLEAN

\* What main.rs makes of a row: a number or a schedule it cannot parse counts as
\* absent, the text of the actions is kept as it is.
InForce(key, row) ==
  IF row \in {"absent", "", "huge", "zero"} \/ (row = "bad" /\ key # "actions")
  THEN "default" ELSE row

\* Without actions that parse the package is off, whatever its switch says.
Resolve(rows) ==
  LET read == [k \in KeySet |-> InForce(k, rows[k])]
  IN  IF read.actions = "bad" THEN [read EXCEPT !.package = "default"] ELSE read

\* A new store, or one with actions that another version of the daemon took.
ConfigInit ==
  /\ store \in {[k \in KeySet |-> "absent"],
                [k \in KeySet |-> IF k = "actions" THEN "bad" ELSE "absent"]}
  /\ env = Resolve(store) /\ starts = 1
  /\ wanted = [s \in Saves |-> <<>>] /\ at = [s \in Saves |-> 0]
  /\ sanswer = [s \in Saves |-> "none"] /\ raced = {}
  /\ readAt = 0 /\ differs = FALSE /\ flag = "none" /\ dirty = FALSE

Running(s) == at[s] \in 1..Len(Keys)
Reader == UNCHANGED <<readAt, differs, flag>>
Saver == UNCHANGED <<store, wanted, at, sanswer, raced>>

-----------------------------------------------------------------------------
\* The next key a request has anything to say about.
KeyAfter(w, i) ==
  LET later == {j \in (i + 1)..Len(Keys) : Keys[j] \in DOMAIN w}
  IN  IF later = {} THEN Past ELSE CHOOSE j \in later : \A l \in later : j <= l

KeysAsked == Cardinality({p \in Saves \X KeySet : p[2] \in DOMAIN wanted[p[1]]})

AskConfig(s) ==
  /\ at[s] = 0 /\ \A r \in 1..(s - 1) : at[r] # 0
  /\ \E w \in Requests :
       /\ KeysAsked + Cardinality(DOMAIN w) <= MaxKeys
       /\ wanted' = [wanted EXCEPT ![s] = w] /\ at' = [at EXCEPT ![s] = KeyAfter(w, 0)]
  /\ LET others == {r \in Saves : Running(r)}
     IN  raced' = IF others = {} THEN raced ELSE raced \cup others \cup {s}
  /\ Reader /\ UNCHANGED <<store, env, starts, sanswer, dirty>>

Ends(s, answer) ==
  at' = [at EXCEPT ![s] = Past] /\ sanswer' = [sanswer EXCEPT ![s] = answer]

NextKey(s) ==
  IF KeyAfter(wanted[s], at[s]) = Past
  THEN Ends(s, "ok")
  ELSE at' = [at EXCEPT ![s] = KeyAfter(wanted[s], @)] /\ UNCHANGED sanswer

Write(key, row) == store' = [store EXCEPT ![key] = row] /\ dirty' = TRUE

\* Mutant of SetKey: the key is written before it is validated.
WriteFirst(s) ==
  /\ Running(s)
  /\ LET row == wanted[s][Keys[at[s]]]
     IN  \/ /\ Write(Keys[at[s]], row)
            /\ IF row \in Refused THEN Ends(s, "refused") ELSE NextKey(s)
         \/ Ends(s, "error") /\ UNCHANGED <<store, dirty>>
  /\ Reader /\ UNCHANGED <<env, starts, wanted, raced>>

\* One key: validate and write it.  The store may refuse.
SetKey(s) ==
  /\ Running(s)
  /\ LET row == wanted[s][Keys[at[s]]]
     IN  \/ row \notin Refused /\ Write(Keys[at[s]], row) /\ NextKey(s)
         \/ row \in Refused /\ Ends(s, "refused") /\ UNCHANGED <<store, dirty>>
         \/ Ends(s, "error") /\ UNCHANGED <<store, dirty>>
  /\ Reader /\ UNCHANGED <<env, starts, wanted, raced>>

\* Mutant of Differs: a row that is not there, or empty, never differs.
OverrideDiffers(key, row) ==
  row \notin {"absent", "", "huge", "zero"} /\ row # env[key]

\* A schedule is compared as it would be resolved, of the others a row that can
\* be read.
Differs(key, row) ==
  IF key = "cron"
  THEN (IF row \in {"absent", ""} THEN "default" ELSE row) # env.cron
  ELSE row \notin {"absent", "huge"} /\ row # env[key]

\* The first key of the answer.
ReadConfig ==
  /\ readAt = 0 /\ readAt' = 1 /\ differs' = FALSE /\ flag' = "none" /\ dirty' = FALSE
  /\ Saver /\ UNCHANGED <<env, starts>>

ReadKey ==
  /\ readAt > 0
  /\ LET seen == differs \/ Differs(Keys[readAt], store[Keys[readAt]])
     IN  IF readAt = Len(Keys)
         THEN readAt' = 0 /\ differs' = FALSE /\ flag' = (IF seen THEN "yes" ELSE "no")
         ELSE readAt' = readAt + 1 /\ differs' = seen /\ UNCHANGED flag
  /\ Saver /\ UNCHANGED <<env, starts, dirty>>

\* The daemon stops where it is, and the next one resolves what is stored; a row
\* it fails to read (here one at most) counts as absent.
ConfigRestart ==
  /\ starts < MaxStarts /\ starts' = starts + 1
  /\ \E failed \in KeySet \cup {"none"} :
       env' = Resolve([k \in KeySet |-> IF k = failed THEN "absent" ELSE store[k]])
  /\ at' = [s \in Saves |-> IF Running(s) THEN Past ELSE at[s]]
  /\ sanswer' = [s \in Saves |-> IF Running(s) THEN "gone" ELSE sanswer[s]]
  /\ readAt' = 0 /\ differs' = FALSE /\ flag' = "none" /\ dirty' = FALSE
  /\ UNCHANGED <<store, wanted, raced>>

-----------------------------------------------------------------------------
\* An administrator who is told that no restart is required loses nothing by not
\* restarting: the daemon would come up with what it runs with, whichever saves
\* were made, refused half way or cut off before, unless one wrote since the
\* answer was begun.  This includes a schedule that was taken away.  A number that
\* takes all 64 bits is the exception: it is stored, read as nothing, and the
\* next start goes back to the default.
RestartFlagTruthful ==
  flag = "no" /\ ~dirty /\ store.frequency # "huge" => Resolve(store) = env

\* Nothing is stored that the daemon would leave aside at its next start, however
\* a save ends, except a number it cannot hold and actions of another version; a
\* save that was answered with ok, with no other meanwhile or after it, is there
\* key for key.
SavesHold ==
  /\ store.frequency # "zero" /\ store.cron # "bad"
  /\ \A s \in Saves \ raced :
       (sanswer[s] = "ok" /\ \A r \in Saves : r > s => at[r] = 0) =>
          \A k \in DOMAIN wanted[s] : store[k] = wanted[s][k]
=============================================================================
