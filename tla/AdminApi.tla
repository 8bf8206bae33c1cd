------------------------------- MODULE AdminApi -------------------------------
(***************************************************************************)
(* The administrator's part of the daemon's API: grants to a player who is *)
(* offline, commands and whispers through the message broker, settings.    *)
(* Their handlers have no state in common but the daemon, which may end at *)
(* any step of theirs and is started again.  So a behaviour is about the   *)
(* requests of one kind: those of another would only come in between.      *)
(***************************************************************************)
EXTENDS OfflineGrants, BrokerScripts, ConfigApi

VARIABLE about    \* the kind of requests this behaviour is about

vars == <<about, grantVars, scriptVars, cacheVars, configVars>>

Init ==
  /\ about \in {"grants", "scripts", "settings"}
  /\ GrantsInit /\ ScriptsInit /\ CacheInit /\ ConfigInit
  /\ about = "grants" \/ (player = "one" /\ engine = "careful")
  /\ about = "settings" \/ store.actions = "absent"

\* Every variable of the four parts.
AdminTypeOK == GrantsTypeOK /\ CacheTypeOK /\ ScriptsTypeOK /\ ConfigTypeOK

Grants ==
  /\ about = "grants"
  /\ Engine \/ \E g \in G : GrantStep(g)
  /\ UNCHANGED <<about, scriptVars, cacheVars, configVars>>

Scripts ==
  /\ about = "scripts"
  /\ \/ \E c \in Callers : PublishStep(c)
     \/ (CacheTick \/ Moves) /\ UNCHANGED scriptVars
  /\ UNCHANGED <<about, grantVars, configVars>>

Settings ==
  /\ about = "settings"
  /\ ReadConfig \/ ReadKey \/ \E s \in Saves : AskConfig(s) \/ SetKey(s)
  /\ UNCHANGED <<about, grantVars, scriptVars, cacheVars>>

DaemonRestart == ConfigRestart /\ GrantsCut /\ PublishersCut /\ UNCHANGED about

Next == Grants \/ Scripts \/ Settings \/ DaemonRestart

Spec == Init /\ [][Next]_vars
=============================================================================
