---------------------------- MODULE BrokerScripts ----------------------------
(***************************************************************************)
(* Commands to the game server and whispers to players: the daemon has the *)
(* pod of the message broker run a script, which puts its input into a     *)
(* file, evaluates what the file holds and removes it.  There is one file  *)
(* for commands and one for whispers, whoever publishes: handlers of the   *)
(* API and the daemon's own tasks.                                         *)
(*                                                                         *)
(* The script is a process of the pod: it goes on when kubectl is killed,  *)
(* after 30 seconds or with the handler.                                   *)
(***************************************************************************)
EXTENDS ClusterCache

CONSTANT Channels    \* "publish" and "whisper"

ASSUME ScriptsAssumption ==
  Channels # {} /\ Callers \cap {"none", "empty", "mixed"} = {}

VARIABLES
  channel,    \* of each request
  ppc,        \* where its publisher is
  script,     \* where its script is
  file,       \* of each channel: "none", "empty", "mixed" or whose text it is
  text,       \* what the script has read
  published,  \* how often the text of each request has been published
  crossed,    \* requests whose scripts ran while another of the channel did
  panswer     \* what the publisher has been told, and its row in admin_commands

scriptVars == <<channel, ppc, script, file, text, published, crossed, panswer>>

Texts == Callers \cup {"none", "empty", "mixed"}

ScriptsTypeOK ==
  /\ channel \in [Callers -> Channels]
  /\ ppc \in [Callers -> {"unsent", "cluster", "exec", "wait", "over"}]
  /\ script \in [Callers -> {"none", "open", "fill", "read", "eval", "remove", "ok", "failed"}]
  /\ file \in [Channels -> Texts] /\ text \in [Callers -> Texts]
  /\ published \in [Callers -> 0..2] /\ crossed \subseteq Callers
  /\ panswer \in [Callers -> {"none", "ok", "error", "gone"}]

ScriptsInit ==
  /\ channel = [c \in Callers |-> CHOOSE h \in Channels : TRUE]
  /\ ppc = [c \in Callers |-> "unsent"] /\ script = [c \in Callers |-> "none"]
  /\ file = [h \in Channels |-> "none"] /\ text = [c \in Callers |-> "none"]
  /\ published = [c \in Callers |-> 0] /\ crossed = {}
  /\ panswer = [c \in Callers |-> "none"]

Alive(c) == script[c] \in {"open", "fill", "read", "eval", "remove"}
PubGoes(c, pc) == ppc' = [ppc EXCEPT ![c] = pc]
ScriptGoes(c, pc) == script' = [script EXCEPT ![c] = pc]
Pod == UNCHANGED <<channel, script, file, text, published, crossed>>

-----------------------------------------------------------------------------
AskPublish(c) ==
  /\ ppc[c] = "unsent" /\ PubGoes(c, "cluster")
  /\ \E h \in Channels : channel' = [channel EXCEPT ![c] = h]
  /\ UNCHANGED <<script, file, text, published, crossed, panswer, cacheVars>>

Told(c, answer) == PubGoes(c, "over") /\ panswer' = [panswer EXCEPT ![c] = answer]

GetCluster(c) ==
  /\ ppc[c] = "cluster"
  /\ \/ busy[c] < 0 /\ CacheHit(c) /\ PubGoes(c, "exec") /\ UNCHANGED panswer
     \/ busy[c] < 0 /\ CacheMiss(c) /\ UNCHANGED <<ppc, panswer>>
     \/ Detect(c) /\ UNCHANGED <<ppc, panswer>>
     \/ Keep(c) /\ PubGoes(c, "exec") /\ UNCHANGED panswer
     \/ busy[c] >= 0 /\ found[c] = 0 /\ Abandon(c) /\ Told(c, "error")
  /\ Pod

\* The pod may be gone, or the API server out of reach.
Exec(c) ==
  /\ ppc[c] = "exec"
  /\ \/ /\ found[c] = home
        /\ ScriptGoes(c, "open") /\ PubGoes(c, "wait")
        /\ LET met == {d \in Callers : Alive(d) /\ channel[d] = channel[c]}
           IN  crossed' = IF met = {} THEN crossed ELSE crossed \cup met \cup {c}
        /\ UNCHANGED panswer
     \/ Told(c, "error") /\ UNCHANGED <<script, crossed>>
  /\ Abandon(c) /\ UNCHANGED <<channel, file, text, published>>

\* The script has ended: ok is its own exit code and the reply to its own eval.
Answered(c) ==
  /\ ppc[c] = "wait" /\ script[c] \in {"ok", "failed"}
  /\ Told(c, IF script[c] = "ok" THEN "ok" ELSE "error")
  /\ Pod /\ UNCHANGED cacheVars

\* Mutant of ExecTimesOut: the publisher tries again.
ExecAgain(c) ==
  /\ ppc[c] = "wait" /\ PubGoes(c, "cluster")
  /\ Pod /\ UNCHANGED <<panswer, cacheVars>>

\* Thirty seconds, or the connection to the pod is lost.
ExecTimesOut(c) ==
  /\ ppc[c] = "wait" /\ Told(c, "error")
  /\ Pod /\ UNCHANGED cacheVars

\* The application closes the connection, the handler is dropped at its await.
PublishDropped(c) ==
  /\ ppc[c] \in {"cluster", "exec", "wait"} /\ Abandon(c)
  /\ Told(c, "gone") /\ Pod

\* The daemon ends; the scripts do not.
PublishersCut ==
  LET flying == {c \in Callers : ppc[c] \in {"cluster", "exec", "wait"}}
  IN  /\ CacheLost
      /\ ppc' = [c \in Callers |-> IF c \in flying THEN "over" ELSE ppc[c]]
      /\ panswer' = [c \in Callers |-> IF c \in flying THEN "gone" ELSE panswer[c]]
      /\ Pod

-----------------------------------------------------------------------------
\* The script, which goes on without its publisher.
ScriptAt(c, pc) == script[c] = pc /\ UNCHANGED <<channel, ppc, crossed, panswer, cacheVars>>
FileBecomes(c, what) == file' = [file EXCEPT ![channel[c]] = what]

Truncate(c) ==
  /\ ScriptAt(c, "open") /\ ScriptGoes(c, "fill") /\ FileBecomes(c, "empty")
  /\ UNCHANGED <<text, published>>

\* The input goes over whatever is in the file by then, or into a file without a
\* name.  It may end early when kubectl is no more, and is no expression then.
Fill(c) ==
  /\ ScriptAt(c, "fill") /\ ScriptGoes(c, "read")
  /\ LET now == file[channel[c]]
     IN  \/ now = "none" /\ UNCHANGED file
         \/ now # "none" /\ FileBecomes(c, c)
         \/ now \notin {"none", "empty"} /\ FileBecomes(c, "mixed")
         \/ ppc[c] = "over" /\ UNCHANGED file
  /\ UNCHANGED <<text, published>>

\* set -e: a file that is not there ends the script.
ReadBack(c) ==
  /\ ScriptAt(c, "read")
  /\ text' = [text EXCEPT ![c] = file[channel[c]]]
  /\ ScriptGoes(c, IF file[channel[c]] = "none" THEN "failed" ELSE "eval")
  /\ UNCHANGED <<file, published>>

\* What two have written may be no expression, or that of any of them.
Eval(c) ==
  /\ ScriptAt(c, "eval")
  /\ \/ \E d \in Callers :
          /\ text[c] = d \/ (text[c] = "mixed" /\ d \in crossed /\ channel[d] = channel[c])
          /\ published[d] < 2
          /\ published' = [published EXCEPT ![d] = @ + 1]
          /\ ScriptGoes(c, "remove")
     \/ ScriptGoes(c, "failed") /\ UNCHANGED published
  /\ text' = [text EXCEPT ![c] = "none"] /\ UNCHANGED file

Remove(c) ==
  /\ ScriptAt(c, "remove") /\ ScriptGoes(c, "ok") /\ FileBecomes(c, "none")
  /\ UNCHANGED <<text, published>>

ScriptStep(c) == Truncate(c) \/ Fill(c) \/ ReadBack(c) \/ Eval(c) \/ Remove(c)

PublishStep(c) ==
  \/ AskPublish(c) \/ GetCluster(c) \/ Exec(c) \/ Answered(c) \/ ExecTimesOut(c)
  \/ PublishDropped(c) \/ ScriptStep(c)

\* A command whose script met no other is published at most once, and exactly once
\* when the answer or the history says so, whatever scripts before it have left in
\* the file; one that was refused a pod is not published at all.
PublishedAsAsked ==
  \A c \in Callers \ crossed :
    /\ published[c] <= 1
    /\ panswer[c] = "ok" => published[c] = 1
    /\ script[c] = "none" => published[c] = 0
=============================================================================
