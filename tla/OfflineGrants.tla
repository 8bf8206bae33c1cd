---------------------------- MODULE OfflineGrants ----------------------------
(***************************************************************************)
(* Grants to a player who is offline: House Scrip, Intel and               *)
(* specialization XP are added in the game database, as no command of the  *)
(* game server does it.  A handler opens a connection of its own, and in   *)
(* one transaction reads and locks the row of the player, refuses unless   *)
(* it says offline, adds and commits.                                      *)
(*                                                                         *)
(* The desktop application waits five seconds for an answer.  When it      *)
(* gives up, its connection closes, and the daemon drops the handler at    *)
(* the await it has reached.                                               *)
(*                                                                         *)
(* The game server is external: it keeps the balances of a player in       *)
(* memory and writes them back on logout.  A careful one marks the player  *)
(* as online before it loads them, and saves them before it takes the mark *)
(* back; the code can only protect a grant from such a one.                *)
(***************************************************************************)
EXTENDS Naturals, FiniteSets

CONSTANTS
  Kinds,       \* the kinds of grants looked at
  MaxGrants,   \* bound: requests
  MaxLogins    \* bound: sessions of the player

ASSUME GrantsAssumption ==
  /\ Kinds \subseteq {"currency", "intel", "xp"} /\ Kinds # {}
  /\ MaxGrants \in Nat /\ MaxLogins \in Nat

VARIABLES
  player,    \* the rows the id resolves to: "one", "none", "two", or one without a pawn
  engine,    \* "careful" or "careless"
  online,    \* player_state.online_status is not offline
  loaded,    \* the server has the balances in memory
  memory,    \* those
  db,        \* the committed balances, in grants
  logins,    \* so far (bound)
  rowLock,   \* the transaction that holds the player's row, 0: none
  gkind,     \* of each request
  gpc,       \* where its handler is
  granted,   \* requests whose transaction has committed
  ganswer,   \* what the application has, "gone" once it has given up
  grow       \* the row of the request in admin_commands

grantVars == <<player, engine, online, loaded, memory, db, logins, rowLock, gkind, gpc,
               granted, ganswer, grow>>

G == 1..MaxGrants

GrantsTypeOK ==
  /\ player \in {"one", "none", "two", "no pawn"} /\ engine \in {"careful", "careless"}
  /\ online \in BOOLEAN /\ loaded \in BOOLEAN
  /\ memory \in [Kinds -> 0..MaxGrants] /\ db \in [Kinds -> 0..MaxGrants]
  /\ logins \in 0..MaxLogins /\ rowLock \in G \cup {0}
  /\ gkind \in [G -> Kinds]
  /\ gpc \in [G -> {"unsent", "connect", "resolve", "add", "commit", "over"}]
  /\ granted \subseteq G
  /\ ganswer \in [G -> {"none", "ok", "refused", "error", "gone"}]
  /\ grow \in [G -> {"none", "ok", "failed"}]

GrantsInit ==
  /\ player \in {"one", "none", "two", "no pawn"} /\ engine \in {"careful", "careless"}
  /\ online = FALSE /\ loaded = FALSE
  /\ memory = [k \in Kinds |-> 0] /\ db = [k \in Kinds |-> 0]
  /\ logins = 0 /\ rowLock = 0
  /\ gkind = [g \in G |-> CHOOSE k \in Kinds : TRUE] /\ gpc = [g \in G |-> "unsent"]
  /\ granted = {} /\ ganswer = [g \in G |-> "none"] /\ grow = [g \in G |-> "none"]

Count(k) == Cardinality({g \in granted : gkind[g] = k})

GrantGoes(g, pc) == gpc' = [gpc EXCEPT ![g] = pc]
EngineRests == UNCHANGED <<player, engine, online, loaded, memory, logins>>
World == EngineRests /\ UNCHANGED gkind

-----------------------------------------------------------------------------
\* A valid request; the others are refused before anything is read.
AskGrant(g) ==
  /\ gpc[g] = "unsent" /\ \A h \in 1..(g - 1) : gpc[h] # "unsent"
  /\ GrantGoes(g, "connect") /\ \E k \in Kinds : gkind' = [gkind EXCEPT ![g] = k]
  /\ EngineRests /\ UNCHANGED <<db, rowLock, granted, ganswer, grow>>

\* The answer and its row: nothing awaits between them, and a row that cannot be
\* written is not missed.
Answers(g, answer) ==
  /\ GrantGoes(g, "over")
  /\ ganswer' = [ganswer EXCEPT ![g] = IF @ = "none" THEN answer ELSE @]
  /\ grow' \in {[grow EXCEPT ![g] = IF answer = "ok" THEN "ok" ELSE "failed"], grow}
  /\ rowLock' = IF rowLock = g THEN 0 ELSE rowLock

\* dedicated_client, and the beginning of the transaction.
BeginGrant(g) ==
  /\ gpc[g] = "connect"
  /\ GrantGoes(g, "resolve")
  /\ World /\ UNCHANGED <<db, rowLock, granted, ganswer, grow>>

\* Any statement may fail, the transaction is rolled back.  Before it the cluster
\* and the credentials are looked up.
GrantFails(g) ==
  /\ gpc[g] \in {"connect", "resolve", "add"}
  /\ Answers(g, "error")
  /\ World /\ UNCHANGED <<db, granted>>

\* Mutant of ResolvePlayer: the row is read without FOR UPDATE.
ReadPlayer(g) ==
  /\ gpc[g] = "resolve"
  /\ IF player \in {"none", "two"} \/ online
     THEN Answers(g, "refused")
     ELSE GrantGoes(g, "add") /\ UNCHANGED <<rowLock, ganswer, grow>>
  /\ World /\ UNCHANGED <<db, granted>>

\* SELECT ... FOR UPDATE OF ps: behind whoever has the row.
ResolvePlayer(g) ==
  /\ gpc[g] = "resolve" /\ (player \in {"one", "no pawn"} => rowLock = 0)
  /\ IF player \in {"none", "two"} \/ online
     THEN Answers(g, "refused")
     ELSE GrantGoes(g, "add") /\ rowLock' = g /\ UNCHANGED <<ganswer, grow>>
  /\ World /\ UNCHANGED <<db, granted>>

\* The addition, which intel and xp refuse without a character.  A careless
\* server may have the row of the balance.
Add(g) ==
  /\ gpc[g] = "add"
  /\ IF player = "no pawn" /\ gkind[g] # "currency"
     THEN Answers(g, "refused")
     ELSE GrantGoes(g, "commit") /\ UNCHANGED <<rowLock, ganswer, grow>>
  /\ World /\ UNCHANGED <<db, granted>>

Take(g) ==
  /\ granted' = granted \cup {g}
  /\ db' = [db EXCEPT ![gkind[g]] = @ + 1]

\* Mutant of Commit: the answer does not wait for the commit.
AnswerFirst(g) ==
  /\ gpc[g] = "commit"
  /\ Answers(g, "ok")
  /\ Take(g) \/ UNCHANGED <<granted, db>>
  /\ World

\* The reply to COMMIT may be lost, and the commit may not have happened then.
Commit(g) ==
  /\ gpc[g] = "commit"
  /\ \/ Take(g) /\ Answers(g, "ok")
     \/ (Take(g) \/ UNCHANGED <<granted, db>>) /\ Answers(g, "error")
  /\ World

\* Five seconds are over.
GiveUp(g) ==
  /\ gpc[g] \notin {"unsent", "over"} /\ ganswer[g] = "none"
  /\ ganswer' = [ganswer EXCEPT ![g] = "gone"]
  /\ World /\ UNCHANGED <<db, rowLock, gpc, granted, grow>>

\* The handler ends at an await, or the daemon where it is; a COMMIT that was sent
\* is carried out, or was not sent yet.
Dropped(g) ==
  /\ gpc[g] \notin {"unsent", "over"}
  /\ GrantGoes(g, "over")
  /\ rowLock' = IF rowLock = g THEN 0 ELSE rowLock
  /\ (gpc[g] = "commit" /\ Take(g)) \/ UNCHANGED <<granted, db>>
  /\ ganswer' = [ganswer EXCEPT ![g] = "gone"]
  /\ World /\ UNCHANGED grow

\* The daemon ends, and all its handlers with it.
GrantsCut ==
  LET flying == {g \in G : gpc[g] \notin {"unsent", "over"}}
  IN  /\ \E sent \in SUBSET {g \in flying : gpc[g] = "commit"} :
           /\ granted' = granted \cup sent
           /\ db' = [k \in Kinds |-> db[k] + Cardinality({g \in sent : gkind[g] = k})]
      /\ gpc' = [g \in G |-> IF g \in flying THEN "over" ELSE gpc[g]]
      /\ ganswer' = [g \in G |-> IF g \in flying THEN "gone" ELSE ganswer[g]]
      /\ rowLock' = 0
      /\ World /\ UNCHANGED grow

GrantStep(g) ==
  \/ AskGrant(g) \/ BeginGrant(g) \/ GrantFails(g) \/ ResolvePlayer(g) \/ Add(g) \/ Commit(g)
  \/ GiveUp(g) \/ (ganswer[g] = "gone" /\ Dropped(g))

-----------------------------------------------------------------------------
\* The game server.  An update of the player's row waits for its lock.
Mark(b) == online # b /\ rowLock = 0 /\ online' = b
Load == ~loaded /\ loaded' = TRUE /\ memory' = db
Save == loaded /\ loaded' = FALSE /\ db' = memory

Handlers == UNCHANGED <<player, engine, rowLock, gkind, gpc, granted, ganswer, grow>>

Login ==
  /\ logins < MaxLogins /\ ~online
  /\ IF engine = "careful"
     THEN ~loaded /\ Mark(TRUE) /\ logins' = logins + 1 /\ UNCHANGED <<loaded, memory>>
     ELSE Load /\ logins' = logins + 1 /\ UNCHANGED online
  /\ Handlers /\ UNCHANGED db

\* The second half of a login, or the first of a logout.
Play ==
  /\ IF engine = "careful"
     THEN online /\ Load /\ UNCHANGED online
     ELSE loaded /\ Mark(~online) /\ UNCHANGED <<loaded, memory>>
  /\ Handlers /\ UNCHANGED <<db, logins>>

Logout ==
  /\ IF engine = "careful"
     THEN online /\ Save /\ Mark(FALSE)
     ELSE ~online /\ Save /\ UNCHANGED online
  /\ Handlers /\ UNCHANGED <<memory, logins>>

Engine == Login \/ Play \/ Logout

-----------------------------------------------------------------------------
\* Nothing that was committed is lost, and nothing is there that was not granted,
\* whatever grants, logins, dropped handlers and lost replies meet: the lock on
\* the row keeps a careful server from loading the balances of before.
Conserved ==
  engine = "careful" =>
    \A k \in Kinds : db[k] = Count(k) /\ (loaded => memory[k] = Count(k))

\* Nothing is given twice, also by a careless server: what one loads too early and
\* saves too late takes grants back, and adds none.
NothingDoubled ==
  \A k \in Kinds : db[k] <= Count(k) /\ (loaded => memory[k] <= Count(k))

\* A grant whose answer is yes has been made, one that was refused has not, and
\* the history agrees; only a request without an answer, or with an error, leaves
\* the administrator in doubt.  A grant without a row that says so is one whose
\* row could not be written, whose commit was not answered, or whose
\* administrator did not wait.
GrantsAsAnswered ==
  \A g \in G :
    /\ ganswer[g] = "ok" \/ grow[g] = "ok" => g \in granted
    /\ ganswer[g] = "refused" => g \notin granted
    /\ grow[g] = "failed" /\ g \in granted => ganswer[g] \in {"error", "gone"}
=============================================================================
