---------------------------- MODULE AdminApiProofs ----------------------------
(***************************************************************************)
(* Theorems of AdminApi, for any number of grants, logins, publishers,     *)
(* clusters and saves, and any times of the cache.                         *)
(***************************************************************************)
EXTENDS AdminApi, FiniteSetTheorems, TLAPS

-----------------------------------------------------------------------------
(* The cache of the cluster. *)

\* A clock that stops at its end never runs ahead.
LEMMA LaterBound ==
  ASSUME NEW t \in Nat, NEW end \in Nat
  PROVE  /\ Later(t, end) \in {t, t + 1}
         /\ Later(t, end) < end => Later(t, end) = t + 1
BY DEF Later

\* What a caller found is a cluster that went, if it went, while he detected; he
\* has found nothing before he looks.
CacheInv ==
  /\ gone \in Nat /\ age \in Nat
  /\ busy \in [Callers -> -1..DetectTime] /\ found \in [Callers -> Nat] /\ cached \in Nat /\ home \in Nat
  /\ ppc \in [Callers -> {"unsent", "cluster", "exec", "wait", "over"}]
  /\ \A c \in Callers :
       /\ busy[c] >= 0 /\ found[c] # 0 /\ found[c] # home => gone <= busy[c]
       /\ ppc[c] \in {"unsent", "cluster"} /\ busy[c] < 0 => found[c] = 0
       /\ ppc[c] = "unsent" => busy[c] < 0
  /\ CacheBounded

LEMMA CacheInitially == Init => CacheInv
BY CacheAssumption
DEF Init, CacheInit, ScriptsInit, CacheInv, CacheBounded, Fresh, Never

LEMMA CacheByCaller ==
  ASSUME CacheInv, NEW c \in Callers,
         AskPublish(c) \/ GetCluster(c) \/ Exec(c) \/ Answered(c) \/ ExecTimesOut(c)
           \/ PublishDropped(c)
  PROVE  CacheInv'
<1> USE CacheAssumption DEF CacheInv, CacheBounded, Fresh, PubGoes, cacheVars, Abandon
<1>1. CASE AskPublish(c) BY <1>1 DEF AskPublish
<1>2. CASE GetCluster(c)
  <2>1. CASE busy[c] < 0 /\ CacheHit(c) /\ PubGoes(c, "exec") BY <2>1 DEF CacheHit
  <2>2. CASE busy[c] < 0 /\ CacheMiss(c) /\ UNCHANGED ppc BY <1>2, <2>2 DEF CacheMiss, GetCluster
  <2>3. CASE Detect(c) /\ UNCHANGED ppc BY <2>3 DEF Detect
  <2>4. CASE Keep(c) /\ PubGoes(c, "exec") BY <2>4 DEF Keep
  <2>5. CASE Abandon(c) /\ Told(c, "error") BY <2>5 DEF Told
  <2> QED BY <1>2, <2>1, <2>2, <2>3, <2>4, <2>5 DEF GetCluster
<1>3. CASE Exec(c) BY <1>3 DEF Exec, Told
<1>4. CASE Answered(c) \/ ExecTimesOut(c) BY <1>4 DEF Answered, ExecTimesOut, Told
<1>5. CASE PublishDropped(c) BY <1>5 DEF PublishDropped, Told
<1> QED BY <1>1, <1>2, <1>3, <1>4, <1>5

LEMMA CacheInduction == CacheInv /\ [Next]_vars => CacheInv'
<1> SUFFICES ASSUME CacheInv, [Next]_vars PROVE CacheInv'
  OBVIOUS
<1>1. CASE CacheTick /\ UNCHANGED ppc
  <2>1. gone' \in {gone, gone + 1}
    BY <1>1, CacheAssumption, LaterBound DEF CacheTick, CacheInv, Never
  <2>2. age' \in Nat /\ (cached # 0 /\ age' < CacheTtl => age' = age + 1)
    BY <1>1, CacheAssumption, LaterBound DEF CacheTick, CacheInv
  <2> QED
    BY <1>1, <2>1, <2>2, CacheAssumption DEF CacheTick, CacheInv, CacheBounded, Fresh
<1>2. CASE Moves /\ UNCHANGED ppc
  BY <1>2, CacheAssumption DEF Moves, CacheInv, CacheBounded, Fresh
<1>3. CASE PublishersCut
  BY <1>3, CacheAssumption DEF PublishersCut, CacheLost, CacheInv, CacheBounded, Fresh
<1>4. CASE UNCHANGED <<cacheVars, ppc>>
  BY <1>4 DEF cacheVars, CacheInv, CacheBounded, Fresh
<1>5. ASSUME NEW c \in Callers, PublishStep(c) PROVE CacheInv'
  <2>1. CASE ScriptStep(c)
    BY <1>4, <2>1 DEF ScriptStep, Truncate, Fill, ReadBack, Eval, Remove, ScriptAt
  <2> QED
    BY <1>5, <2>1, CacheByCaller DEF PublishStep
<1> QED
  BY <1>1, <1>2, <1>3, <1>4, <1>5
  DEF Next, Grants, Scripts, Settings, DaemonRestart, vars, scriptVars

\* A cluster that is gone is not given out for longer than CACHE_TTL and one
\* detection (cluster.rs ClusterCache), for any of the two and any callers.
THEOREM CacheBoundedAlways == Spec => []CacheBounded
<1>1. CacheInv => CacheBounded
  BY DEF CacheInv
<1> QED
  BY <1>1, CacheInitially, CacheInduction, PTL DEF Spec

-----------------------------------------------------------------------------
(* Grants: what the answers say. *)

GrantPlaces == {"unsent", "connect", "resolve", "add", "commit", "over"}

\* Nothing is granted, answered or noted before a handler is over, but that the
\* administrator may have given up.
AnswersInv ==
  /\ gpc \in [G -> GrantPlaces]
  /\ ganswer \in [G -> {"none", "ok", "refused", "error", "gone"}]
  /\ grow \in [G -> {"none", "ok", "failed"}]
  /\ \A g \in G : gpc[g] # "over" =>
       g \notin granted /\ ganswer[g] \in {"none", "gone"} /\ grow[g] = "none"
  /\ GrantsAsAnswered

LEMMA AnswersInitially == Init => AnswersInv
BY DEF Init, GrantsInit, AnswersInv, GrantsAsAnswered, GrantPlaces

LEMMA AnswersByStep == ASSUME AnswersInv, NEW g \in G, GrantStep(g) PROVE AnswersInv'
<1> USE DEF AnswersInv, GrantsAsAnswered, GrantPlaces, GrantGoes, World, EngineRests, Answers
<1>1. CASE AskGrant(g) BY <1>1 DEF AskGrant
<1>2. CASE BeginGrant(g) BY <1>2 DEF BeginGrant
<1>3. CASE GrantFails(g) BY <1>3 DEF GrantFails
<1>4. CASE ResolvePlayer(g)
  <2>1. CASE Answers(g, "refused") BY <1>4, <2>1 DEF ResolvePlayer
  <2>2. CASE GrantGoes(g, "add") /\ UNCHANGED <<ganswer, grow>> BY <1>4, <2>2 DEF ResolvePlayer
  <2> QED BY <1>4, <2>1, <2>2 DEF ResolvePlayer
<1>5. CASE Add(g)
  <2>1. CASE Answers(g, "refused") BY <1>5, <2>1 DEF Add
  <2>2. CASE GrantGoes(g, "commit") /\ UNCHANGED <<ganswer, grow>> BY <1>5, <2>2 DEF Add
  <2> QED BY <1>5, <2>1, <2>2 DEF Add
<1>6. CASE Commit(g)
  <2>1. CASE Take(g) /\ Answers(g, "ok") BY <1>6, <2>1 DEF Commit, Take
  <2>2. CASE (Take(g) \/ UNCHANGED granted) /\ Answers(g, "error") BY <1>6, <2>2 DEF Commit, Take
  <2> QED BY <1>6, <2>1, <2>2 DEF Commit
<1>7. CASE GiveUp(g) BY <1>7 DEF GiveUp
<1>8. CASE Dropped(g) BY <1>8 DEF Dropped, Take
<1> QED BY <1>1, <1>2, <1>3, <1>4, <1>5, <1>6, <1>7, <1>8 DEF GrantStep

LEMMA AnswersInduction == AnswersInv /\ [Next]_vars => AnswersInv'
<1> SUFFICES ASSUME AnswersInv, [Next]_vars PROVE AnswersInv'
  OBVIOUS
<1>1. CASE GrantsCut
  BY <1>1 DEF GrantsCut, AnswersInv, GrantsAsAnswered, GrantPlaces
<1>2. CASE UNCHANGED <<gpc, granted, ganswer, grow>>
  BY <1>2 DEF AnswersInv, GrantsAsAnswered
<1> QED
  BY <1>1, <1>2, AnswersByStep
  DEF Next, Grants, Engine, Login, Play, Logout, Handlers, Scripts, Settings, DaemonRestart,
      vars, grantVars

\* Whatever the application is told, and the history says, of a grant is what
\* happened (http player handlers), with any number of requests, lost replies,
\* dropped handlers and restarts.
THEOREM GrantsAsAnsweredAlways == Spec => []GrantsAsAnswered
<1>1. AnswersInv => GrantsAsAnswered
  BY DEF AnswersInv
<1> QED
  BY <1>1, AnswersInitially, AnswersInduction, PTL DEF Spec

-----------------------------------------------------------------------------
(* Grants: what the balances are. *)

\* Whoever is about to add holds the row of a player who is offline, and what a
\* careful server has in memory it has of a player who is online.
LockInv ==
  /\ player \in {"one", "none", "two", "no pawn"}
  /\ gpc \in [G -> GrantPlaces] /\ DOMAIN gkind = G
  /\ granted \subseteq G /\ \A g \in granted : gpc[g] = "over"
  /\ \A g \in G : gpc[g] # "unsent" => gkind[g] \in Kinds
  /\ \A g \in G : gpc[g] \in {"add", "commit"} => rowLock = g
  /\ {loaded, online} \subseteq BOOLEAN
  /\ engine = "careful" => (loaded => online) /\ (rowLock # 0 => ~online)
  /\ db \in [Kinds -> Nat] /\ memory \in [Kinds -> Nat]
  /\ Conserved

LEMMA NoGrantIsZero == \A g \in G : g # 0
BY GrantsAssumption DEF G

LEMMA CountEmpty == ASSUME NEW k, granted = {} PROVE Count(k) = 0
<1>1. {g \in granted : gkind[g] = k} = {}
  OBVIOUS
<1> QED
  BY <1>1, FS_EmptySet DEF Count

\* One more grant is one more of its kind.
LEMMA CountTake ==
  ASSUME granted \subseteq G, NEW g \in G, g \notin granted, granted' = granted \cup {g},
         UNCHANGED gkind, NEW k
  PROVE  Count(k) \in Nat /\ Count(k)' = IF gkind[g] = k THEN Count(k) + 1 ELSE Count(k)
<1> DEFINE S == {h \in granted : gkind[h] = k}
           T == {h \in granted' : gkind'[h] = k}
<1>1. IsFiniteSet(S)
  <2>1. IsFiniteSet(G)
    BY GrantsAssumption, FS_Interval DEF G
  <2> QED
    BY <2>1, FS_Subset
<1>2. Cardinality(S) \in Nat
  BY <1>1, FS_CardinalityType
<1>3. CASE gkind[g] = k
  <2>1. T = S \cup {g} /\ g \notin S
    BY <1>3
  <2>2. Cardinality(T) = Cardinality(S) + 1
    BY <1>1, <2>1, FS_AddElement
  <2> QED
    BY <1>2, <1>3, <2>2 DEF Count
<1>4. CASE gkind[g] # k
  <2>1. T = S
    BY <1>4
  <2> QED
    BY <1>2, <1>4, <2>1 DEF Count
<1> QED
  BY <1>3, <1>4

\* As long as the grants and their kinds stay, so does what is due.
LEMMA CountStays ==
  ASSUME UNCHANGED granted, \A g \in granted : gkind'[g] = gkind[g], NEW k
  PROVE  Count(k)' = Count(k)
<1>1. {g \in granted' : gkind'[g] = k} = {g \in granted : gkind[g] = k}
  OBVIOUS
<1> QED
  BY <1>1 DEF Count

LEMMA LockInitially == Init => LockInv
<1> SUFFICES ASSUME Init PROVE LockInv
  OBVIOUS
<1>1. granted = {} /\ loaded = FALSE /\ db = [k \in Kinds |-> 0]
  BY DEF Init, GrantsInit
<1>2. Conserved
  BY <1>1, CountEmpty DEF Conserved
<1>3. db \in [Kinds -> Nat] /\ memory \in [Kinds -> Nat]
  BY DEF Init, GrantsInit
<1>4. gpc \in [G -> GrantPlaces] /\ DOMAIN gkind = G /\ \A g \in G : gpc[g] = "unsent"
  BY DEF Init, GrantsInit, GrantPlaces
<1> QED
  BY <1>1, <1>2, <1>3, <1>4 DEF Init, GrantsInit, LockInv

\* The commit of one grant, whoever is told of it.
LEMMA LockByTake ==
  ASSUME LockInv, NEW g \in G, gpc[g] = "commit", gpc' = [gpc EXCEPT ![g] = "over"], Take(g), World,
         rowLock' = IF rowLock = g THEN 0 ELSE rowLock
  PROVE  LockInv'
<1>1. granted \subseteq G /\ g \notin granted
  BY DEF LockInv
<1>2. \A k : Count(k) \in Nat /\ Count(k)' = IF gkind[g] = k THEN Count(k) + 1 ELSE Count(k)
  BY <1>1, CountTake DEF Take, World
<1>3. db' \in [Kinds -> Nat] /\ \A k \in Kinds : db'[k] = IF gkind[g] = k THEN db[k] + 1 ELSE db[k]
  <2>1. db \in [Kinds -> Nat]
    BY DEF LockInv
  <2>2. gkind[g] \in Kinds
    BY DEF LockInv
  <2> QED
    BY <2>1, <2>2 DEF Take
<1>4. rowLock = g /\ g # 0 /\ rowLock' = 0
  <2>1. rowLock = g
    BY DEF LockInv
  <2> QED
    BY <2>1, NoGrantIsZero
<1>5. engine = "careful" => ~loaded
  BY <1>4 DEF LockInv
<1>6. Conserved'
  BY <1>2, <1>3, <1>5 DEF LockInv, Conserved, World, EngineRests
<1> QED
  BY <1>1, <1>3, <1>4, <1>6 DEF LockInv, World, EngineRests, Take, GrantPlaces

LEMMA LockByStep == ASSUME LockInv, NEW g \in G, GrantStep(g) PROVE LockInv'
<1> USE DEF LockInv, GrantPlaces, GrantGoes, World, EngineRests, Answers
<1>1. ASSUME UNCHANGED granted, \A h \in granted : gkind'[h] = gkind[h],
             UNCHANGED <<db, memory, loaded, engine>>
      PROVE  Conserved'
  BY <1>1, CountStays DEF Conserved
<1>2. CASE AskGrant(g)
  <2>1. Conserved'
    BY <1>1, <1>2 DEF AskGrant
  <2> QED
    BY <1>2, <2>1 DEF AskGrant
<1>3. CASE BeginGrant(g)
  BY <1>1, <1>3 DEF BeginGrant
<1>4. CASE GrantFails(g)
  BY <1>1, <1>4 DEF GrantFails
<1>5. CASE ResolvePlayer(g)
  <2>1. Conserved'
    BY <1>1, <1>5 DEF ResolvePlayer
  <2>2. CASE Answers(g, "refused")
    BY <1>5, <2>1, <2>2 DEF ResolvePlayer
  <2>3. CASE ~online /\ rowLock = 0 /\ GrantGoes(g, "add") /\ rowLock' = g
    <3>1. \A h \in G : gpc[h] \notin {"add", "commit"}
      BY <2>3, NoGrantIsZero
    <3> QED
      BY <1>5, <2>1, <2>3, <3>1 DEF ResolvePlayer
  <2> QED
    BY <1>5, <2>2, <2>3 DEF ResolvePlayer
<1>6. CASE Add(g)
  <2>1. Conserved'
    BY <1>1, <1>6 DEF Add
  <2>2. CASE Answers(g, "refused")
    BY <1>6, <2>1, <2>2 DEF Add
  <2>3. CASE GrantGoes(g, "commit") /\ UNCHANGED rowLock
    BY <1>6, <2>1, <2>3 DEF Add
  <2> QED
    BY <1>6, <2>2, <2>3 DEF Add
<1>7. ASSUME gpc[g] = "commit", gpc' = [gpc EXCEPT ![g] = "over"], UNCHANGED <<granted, db>>, World,
             rowLock' = IF rowLock = g THEN 0 ELSE rowLock
      PROVE  LockInv'
  BY <1>1, <1>7
<1>8. CASE Commit(g)
  BY <1>7, <1>8, LockByTake DEF Commit
<1>9. CASE GiveUp(g)
  BY <1>1, <1>9 DEF GiveUp
<1>10. CASE Dropped(g)
  <2>1. CASE gpc[g] = "commit" /\ Take(g)
    BY <1>10, <2>1, LockByTake DEF Dropped
  <2>2. CASE UNCHANGED <<granted, db>>
    BY <1>1, <1>10, <2>2 DEF Dropped
  <2> QED
    BY <1>10, <2>1, <2>2 DEF Dropped
<1> QED
  BY <1>2, <1>3, <1>4, <1>5, <1>6, <1>8, <1>9, <1>10 DEF GrantStep

LEMMA LockByEngine ==
  ASSUME LockInv, Engine PROVE LockInv'
<1> USE DEF LockInv, Mark, Load, Save, Handlers
<1>1. \A k : Count(k)' = Count(k)
  BY CountStays DEF Engine, Login, Play, Logout
<1>2. CASE Login
  BY <1>1, <1>2 DEF Login, Conserved
<1>3. CASE Play
  BY <1>1, <1>3 DEF Play, Conserved
<1>4. CASE Logout
  BY <1>1, <1>4 DEF Logout, Conserved
<1> QED
  BY <1>2, <1>3, <1>4 DEF Engine

\* The daemon ends: at most one handler holds the row, and only that may commit.
LEMMA CutTakesOne ==
  ASSUME LockInv, GrantsCut
  PROVE  UNCHANGED <<granted, db>> \/ \E g \in G : gpc[g] = "commit" /\ Take(g)
<1> DEFINE flying == {g \in G : gpc[g] \notin {"unsent", "over"}}
           Sent(S, k) == {g \in S : gkind[g] = k}
<1>0. db \in [Kinds -> Nat]
  BY DEF LockInv
<1>1. PICK sent \in SUBSET {g \in flying : gpc[g] = "commit"} :
        /\ granted' = granted \cup sent
        /\ db' = [k \in Kinds |-> db[k] + Cardinality(Sent(sent, k))]
  BY DEF GrantsCut
<1>2. CASE sent = {}
  <2>1. \A k \in Kinds : Sent(sent, k) = {}
    BY <1>2
  <2> HIDE DEF Sent
  <2>2. \A k \in Kinds : db[k] + Cardinality(Sent(sent, k)) = db[k]
    BY <1>0, <2>1, FS_EmptySet
  <2>3. db' = db
    BY <1>0, <1>1, <2>2
  <2> QED
    BY <1>1, <1>2, <2>3
<1>3. ASSUME NEW g \in sent PROVE gpc[g] = "commit" /\ Take(g)
  <2>1. sent = {g} /\ g \in G /\ gpc[g] = "commit"
    BY <1>1, <1>3 DEF LockInv
  <2>2. \A k \in Kinds : Sent(sent, k) = IF gkind[g] = k THEN {g} ELSE {}
    BY <2>1
  <2> HIDE DEF Sent
  <2>3. ASSUME NEW k \in Kinds
        PROVE  Cardinality(Sent(sent, k)) = IF gkind[g] = k THEN 1 ELSE 0
    <3>1. CASE gkind[g] = k
      BY <2>2, <3>1, FS_Singleton
    <3>2. CASE gkind[g] # k
      BY <2>2, <3>2, FS_EmptySet
    <3> QED
      BY <3>1, <3>2
  <2>4. gkind[g] \in Kinds
    BY <2>1 DEF LockInv
  <2>5. db' = [db EXCEPT ![gkind[g]] = db[gkind[g]] + 1]
    <3>1. \A k \in Kinds :
            db[k] + Cardinality(Sent(sent, k)) = IF gkind[g] = k THEN db[k] + 1 ELSE db[k]
      BY <1>0, <2>3
    <3>2. db' = [k \in Kinds |-> IF gkind[g] = k THEN db[k] + 1 ELSE db[k]]
      BY <1>1, <3>1
    <3> QED
      BY <1>0, <2>4, <3>2
  <2> QED
    BY <1>1, <2>1, <2>5 DEF Take
<1> QED
  <2>1. CASE sent # {}
    <3>1. PICK g \in sent : TRUE
      BY <2>1
    <3> QED
      BY <1>1, <1>3, <3>1
  <2> QED
    BY <1>2, <2>1

LEMMA LockByCut == ASSUME LockInv, GrantsCut PROVE LockInv'
<1> DEFINE flying == {g \in G : gpc[g] \notin {"unsent", "over"}}
<1>1. gpc' = [g \in G |-> IF g \in flying THEN "over" ELSE gpc[g]] /\ rowLock' = 0 /\ World
  BY DEF GrantsCut
<1>2. CASE UNCHANGED <<granted, db>>
  <2>1. Conserved'
    BY <1>1, <1>2, CountStays DEF Conserved, LockInv, World, EngineRests
  <2> QED
    BY <1>1, <1>2, <2>1 DEF LockInv, World, EngineRests, GrantPlaces
<1>3. ASSUME NEW g \in G, gpc[g] = "commit", Take(g) PROVE LockInv'
  <2>1. g \notin granted /\ granted' = granted \cup {g} /\ granted \subseteq G
    BY <1>3 DEF LockInv, Take
  <2>2. \A k : Count(k) \in Nat /\ Count(k)' = IF gkind[g] = k THEN Count(k) + 1 ELSE Count(k)
    BY <1>1, <2>1, CountTake DEF World
  <2>3. db' \in [Kinds -> Nat] /\ \A k \in Kinds : db'[k] = IF gkind[g] = k THEN db[k] + 1 ELSE db[k]
    <3>1. db \in [Kinds -> Nat] /\ gkind[g] \in Kinds
      BY <1>3 DEF LockInv
    <3> QED
      BY <1>3, <3>1 DEF Take
  <2>4. engine = "careful" => ~loaded
    BY <1>3, NoGrantIsZero DEF LockInv
  <2>5. Conserved'
    BY <1>1, <2>2, <2>3, <2>4 DEF LockInv, Conserved, World, EngineRests
  <2> QED
    BY <1>1, <1>3, <2>1, <2>3, <2>5 DEF LockInv, World, EngineRests, GrantPlaces
<1> QED
  BY <1>2, <1>3, CutTakesOne

LEMMA LockInduction == LockInv /\ [Next]_vars => LockInv'
<1> SUFFICES ASSUME LockInv, [Next]_vars PROVE LockInv'
  OBVIOUS
<1>1. CASE UNCHANGED grantVars
  BY <1>1, CountStays DEF LockInv, Conserved, grantVars
<1> QED
  BY <1>1, LockByStep, LockByEngine, LockByCut
  DEF Next, Grants, Scripts, Settings, DaemonRestart, vars

\* With a game server that marks a player online before it loads him, no balance
\* that was granted is lost and none appears that was not (queries.rs, the lock
\* FOR UPDATE OF ps), for any number of grants, kinds and logins.
THEOREM ConservedAlways == Spec => []Conserved
<1>1. LockInv => Conserved
  BY DEF LockInv
<1> QED
  BY <1>1, LockInitially, LockInduction, PTL DEF Spec

\* No more grants than there are requests.
LEMMA CountBound == ASSUME granted \subseteq G, NEW k PROVE Count(k) \in 0..MaxGrants
<1> DEFINE S == {g \in granted : gkind[g] = k}
<1>1. IsFiniteSet(G) /\ Cardinality(G) = MaxGrants
  BY GrantsAssumption, FS_Interval DEF G
<1>2. IsFiniteSet(S) /\ Cardinality(S) <= Cardinality(G)
  BY <1>1, FS_Subset
<1>3. Cardinality(S) \in Nat
  BY <1>2, FS_CardinalityType
<1> QED
  BY <1>1, <1>2, <1>3, GrantsAssumption DEF Count

\* What is in the database and in the server's memory is at most what was granted,
\* whoever saves what he loaded when.
BalanceInv ==
  /\ engine \in {"careful", "careless"} /\ logins \in 0..MaxLogins /\ rowLock \in G \cup {0}
  /\ gkind \in [G -> Kinds] /\ memory \in [Kinds -> 0..MaxGrants]
  /\ NothingDoubled

LEMMA BalanceBound ==
  ASSUME LockInv, NothingDoubled
  PROVE  db \in [Kinds -> 0..MaxGrants]
<1>1. \A k : Count(k) \in 0..MaxGrants
  BY CountBound DEF LockInv
<1>2. \A k \in Kinds : db[k] \in 0..MaxGrants
  <2>1. \A k \in Kinds : db[k] \in Nat /\ db[k] <= Count(k)
    BY DEF LockInv, NothingDoubled
  <2> QED
    BY <1>1, <2>1, GrantsAssumption
<1>3. db \in [Kinds -> Nat]
  BY DEF LockInv
<1> QED
  BY <1>2, <1>3

LEMMA BalanceInitially == Init => BalanceInv
<1> SUFFICES ASSUME Init PROVE BalanceInv
  OBVIOUS
<1>1. granted = {} /\ loaded = FALSE /\ db = [k \in Kinds |-> 0]
  BY DEF Init, GrantsInit
<1>2. NothingDoubled
  BY <1>1, CountEmpty DEF NothingDoubled
<1>3. (CHOOSE k \in Kinds : TRUE) \in Kinds
  BY GrantsAssumption
<1>4. engine \in {"careful", "careless"} /\ logins = 0 /\ rowLock = 0
  BY DEF Init, GrantsInit
<1>5. gkind = [g \in G |-> CHOOSE k \in Kinds : TRUE] /\ memory = [k \in Kinds |-> 0]
  BY DEF Init, GrantsInit
<1>6. gkind \in [G -> Kinds]
  BY <1>3, <1>5
<1>7. memory \in [Kinds -> 0..MaxGrants] /\ logins \in 0..MaxLogins
  BY <1>4, <1>5, GrantsAssumption
<1> QED
  BY <1>2, <1>4, <1>6, <1>7 DEF BalanceInv

\* One grant that is made is one that is due.
LEMMA BalanceByTake ==
  ASSUME LockInv, BalanceInv, NEW g \in G, gpc[g] = "commit", Take(g), World
  PROVE  NothingDoubled'
<1>1. granted \subseteq G /\ g \notin granted
  BY DEF LockInv
<1>2. \A k : Count(k) \in Nat /\ Count(k)' = IF gkind[g] = k THEN Count(k) + 1 ELSE Count(k)
  BY <1>1, CountTake DEF Take, World
<1>3. \A k \in Kinds : db'[k] = IF gkind[g] = k THEN db[k] + 1 ELSE db[k]
  BY DEF LockInv, Take
<1>4. \A k \in Kinds : db[k] \in Nat /\ memory[k] \in Nat
  BY DEF LockInv
<1>5. \A k \in Kinds : db[k] <= Count(k) /\ (loaded => memory[k] <= Count(k))
  BY DEF BalanceInv, NothingDoubled
<1>6. UNCHANGED <<loaded, memory>>
  BY DEF World, EngineRests
<1>7. ASSUME NEW k \in Kinds PROVE db'[k] <= Count(k)' /\ (loaded => memory[k] <= Count(k)')
  BY <1>2, <1>3, <1>4, <1>5
<1> QED
  BY <1>6, <1>7 DEF NothingDoubled

LEMMA BalanceByStep == ASSUME LockInv, BalanceInv, NEW g \in G, GrantStep(g) PROVE BalanceInv'
<1>1. /\ UNCHANGED <<engine, logins, memory, loaded>>
      /\ \A h \in granted : gkind'[h] = gkind[h]
  BY DEF GrantStep, AskGrant, BeginGrant, GrantFails, ResolvePlayer, Add, Commit, GiveUp, Dropped,
         World, EngineRests, LockInv
<1>2. gkind' \in [G -> Kinds]
  BY DEF GrantStep, AskGrant, BeginGrant, GrantFails, ResolvePlayer, Add, Commit, GiveUp, Dropped,
         World, BalanceInv
<1>3. rowLock' \in G \cup {0}
  BY DEF GrantStep, AskGrant, BeginGrant, GrantFails, ResolvePlayer, Add, Commit, GiveUp, Dropped,
         Answers, BalanceInv
<1>4. NothingDoubled'
  <2>1. CASE UNCHANGED <<granted, db>>
    BY <1>1, <2>1, CountStays DEF NothingDoubled, BalanceInv
  <2>2. CASE gpc[g] = "commit" /\ Take(g) /\ World
    BY <2>2, BalanceByTake
  <2> QED
    BY <2>1, <2>2
    DEF GrantStep, AskGrant, BeginGrant, GrantFails, ResolvePlayer, Add, Commit, GiveUp, Dropped
<1> QED
  BY <1>1, <1>2, <1>3, <1>4 DEF BalanceInv

LEMMA BalanceByEngine == ASSUME LockInv, BalanceInv, Engine PROVE BalanceInv'
<1>1. \A k : Count(k)' = Count(k)
  BY CountStays DEF Engine, Login, Play, Logout, Handlers
<1>2. db \in [Kinds -> 0..MaxGrants]
  BY BalanceBound DEF BalanceInv
<1>3. logins' \in 0..MaxLogins /\ UNCHANGED <<engine, rowLock, gkind>>
  <2>1. UNCHANGED <<engine, rowLock, gkind>>
    BY DEF Engine, Login, Play, Logout, Handlers
  <2>2. logins' = logins \/ (logins < MaxLogins /\ logins' = logins + 1)
    BY DEF Engine, Login, Play, Logout
  <2>3. logins \in 0..MaxLogins
    BY DEF BalanceInv
  <2> QED
    BY <2>1, <2>2, <2>3, GrantsAssumption
<1> USE DEF Mark, Load, Save
<1>4. memory' \in {memory, db}
  BY DEF Engine, Login, Play, Logout
<1>5. NothingDoubled'
  <2>1. CASE Login
    BY <1>1, <2>1 DEF Login, BalanceInv, NothingDoubled
  <2>2. CASE Play
    BY <1>1, <2>2 DEF Play, BalanceInv, NothingDoubled
  <2>3. CASE Logout
    BY <1>1, <2>3 DEF Logout, BalanceInv, NothingDoubled
  <2> QED
    BY <2>1, <2>2, <2>3 DEF Engine
<1> QED
  BY <1>2, <1>3, <1>4, <1>5 DEF BalanceInv

LEMMA BalanceInduction == LockInv /\ BalanceInv /\ [Next]_vars => BalanceInv'
<1> SUFFICES ASSUME LockInv, BalanceInv, [Next]_vars PROVE BalanceInv'
  OBVIOUS
<1>1. CASE UNCHANGED grantVars
  BY <1>1, CountStays DEF BalanceInv, NothingDoubled, grantVars
<1>2. CASE GrantsCut
  <2>1. World /\ rowLock' = 0
    BY <1>2 DEF GrantsCut
  <2>2. NothingDoubled'
    <3>1. CASE UNCHANGED <<granted, db>>
      BY <2>1, <3>1, CountStays DEF BalanceInv, NothingDoubled, World, EngineRests
    <3> QED
      BY <1>2, <2>1, <3>1, CutTakesOne, BalanceByTake
  <2> QED
    BY <2>1, <2>2 DEF BalanceInv, World, EngineRests
<1> QED
  BY <1>1, <1>2, BalanceByStep, BalanceByEngine
  DEF Next, Grants, Scripts, Settings, DaemonRestart, vars

\* No request is carried out twice (api_admin.rs, one transaction per request), and
\* no game server makes it so: a careless one, which loads before the player is
\* marked online or saves after, takes grants back but adds none.
THEOREM NothingDoubledAlways == Spec => []NothingDoubled
<1>1. BalanceInv => NothingDoubled
  BY DEF BalanceInv
<1> QED
  BY <1>1, LockInitially, LockInduction, BalanceInitially, BalanceInduction, PTL DEF Spec

-----------------------------------------------------------------------------
(* Commands and whispers. *)

ScriptPlaces == {"none", "open", "fill", "read", "eval", "remove", "ok", "failed"}

\* Two scripts that share a file have crossed.
Apart ==
  \A c, d \in Callers :
    c # d /\ Alive(c) /\ Alive(d) /\ channel[c] = channel[d] => c \in crossed /\ d \in crossed

\* What a script may find in its file: once it has emptied it, only its own text
\* or that of scripts it crossed.
FilesOwn ==
  \A c \in Callers :
    /\ script[c] = "fill" =>
         file[channel[c]] = "empty" \/ (c \in crossed /\ file[channel[c]] \in crossed \cup {"none", "mixed"})
    /\ script[c] = "read" =>
         file[channel[c]] \in {"empty", c}
           \/ (c \in crossed /\ file[channel[c]] \in crossed \cup {"none", "mixed"})
    /\ script[c] = "eval" =>
         text[c] \in {"empty", c} \/ (c \in crossed /\ text[c] \in crossed \cup {"mixed"})

\* What has been published of a request whose script met no other.
Once ==
  \A c \in Callers \ crossed :
    published[c] = IF script[c] \in {"remove", "ok"} THEN 1 ELSE 0

ScriptsInv ==
  /\ DOMAIN channel = Callers /\ channel \in [Callers -> Channels]
  /\ ppc \in [Callers -> {"unsent", "cluster", "exec", "wait", "over"}]
  /\ script \in [Callers -> ScriptPlaces] /\ file \in [Channels -> Texts]
  /\ text \in [Callers -> Texts] /\ published \in [Callers -> Nat] /\ crossed \subseteq Callers
  /\ panswer \in [Callers -> {"none", "ok", "error", "gone"}]
  /\ \A c \in Callers :
       /\ ppc[c] \in {"unsent", "cluster", "exec"} => script[c] = "none"
       /\ panswer[c] = "ok" => script[c] = "ok"
  /\ Apart /\ FilesOwn /\ Once

LEMMA ScriptsInitially == Init => ScriptsInv
BY ScriptsAssumption
DEF Init, ScriptsInit, ScriptsInv, ScriptPlaces, Apart, FilesOwn, Once, Alive, Texts

\* A step of the publisher leaves the scripts alone, but for the one it starts.
LEMMA ScriptsByPublisher ==
  ASSUME ScriptsInv, NEW c \in Callers,
         AskPublish(c) \/ GetCluster(c) \/ Answered(c) \/ ExecTimesOut(c) \/ PublishDropped(c)
  PROVE  ScriptsInv'
<1> USE DEF ScriptsInv, PubGoes, Told
<1>1. CASE AskPublish(c)
  <2>1. script[c] = "none" /\ UNCHANGED <<script, file, text, published, crossed, panswer>>
    BY <1>1 DEF AskPublish
  <2>2. \A d \in Callers : d # c => channel'[d] = channel[d]
    BY <1>1 DEF AskPublish
  <2>3. Apart' /\ FilesOwn' /\ Once'
    BY <2>1, <2>2 DEF Apart, FilesOwn, Once, Alive
  <2> QED
    BY <1>1, <2>1, <2>3 DEF AskPublish
<1>2. CASE Pod /\ UNCHANGED <<ppc, panswer>>
  BY <1>2 DEF Pod, Apart, FilesOwn, Once, Alive
<1>3. ASSUME Pod, NEW pc \in {"exec", "over"}, PubGoes(c, pc), pc = "exec" => ppc[c] = "cluster",
             UNCHANGED panswer \/ \E a \in {"error", "gone"} : panswer' = [panswer EXCEPT ![c] = a]
                \/ (script[c] = "ok" /\ panswer' = [panswer EXCEPT ![c] = "ok"])
      PROVE ScriptsInv'
  BY <1>3 DEF Pod, Apart, FilesOwn, Once, Alive
<1>4. CASE GetCluster(c)
  BY <1>2, <1>3, <1>4 DEF GetCluster
<1>5. CASE Answered(c) \/ ExecTimesOut(c) \/ PublishDropped(c)
  BY <1>3, <1>5 DEF Answered, ExecTimesOut, PublishDropped
<1> QED
  BY <1>1, <1>4, <1>5

\* A script starts, and has crossed whatever runs on its channel.
LEMMA ScriptsByExec == ASSUME ScriptsInv, NEW c \in Callers, Exec(c) PROVE ScriptsInv'
<1> USE DEF ScriptsInv, PubGoes, Told, ScriptGoes
<1>1. UNCHANGED <<channel, file, text, published>> /\ script[c] = "none"
  BY DEF Exec
<1>2. CASE UNCHANGED <<script, crossed>>
  BY <1>1, <1>2 DEF Exec, Apart, FilesOwn, Once, Alive
<1>3. CASE script' = [script EXCEPT ![c] = "open"] /\ PubGoes(c, "wait") /\ UNCHANGED panswer
  <2> DEFINE met == {d \in Callers : Alive(d) /\ channel[d] = channel[c]}
  <2>1. crossed' = IF met = {} THEN crossed ELSE crossed \cup met \cup {c}
    BY <1>1, <1>3 DEF Exec
  <2>2. crossed \subseteq crossed' /\ crossed' \subseteq Callers /\ (met # {} => met \cup {c} \subseteq crossed')
    BY <2>1
  <2>3. Apart'
    BY <1>1, <1>3, <2>2 DEF Apart, Alive
  <2>4. FilesOwn'
    BY <1>1, <1>3, <2>2 DEF FilesOwn
  <2>5. Once'
    BY <1>1, <1>3, <2>2 DEF Once
  <2> QED
    BY <1>1, <1>3, <2>2, <2>3, <2>4, <2>5 DEF ScriptPlaces
<1> QED
  BY <1>2, <1>3 DEF Exec

\* A script's step that writes its file does so before the eyes of scripts it has
\* crossed only.
LEMMA ScriptsByScript == ASSUME ScriptsInv, NEW c \in Callers, ScriptStep(c) PROVE ScriptsInv'
<1> USE ScriptsAssumption DEF ScriptsInv, ScriptGoes, ScriptAt, FileBecomes
<1>1. /\ UNCHANGED <<channel, ppc, crossed, panswer>>
      /\ Alive(c) /\ script[c] # "ok"
      /\ \A d \in Callers : d # c => script'[d] = script[d]
  BY DEF ScriptStep, Truncate, Fill, ReadBack, Eval, Remove, Alive
<1>2. script' \in [Callers -> ScriptPlaces] /\ file' \in [Channels -> Texts]
        /\ text' \in [Callers -> Texts] /\ published' \in [Callers -> Nat]
  BY DEF ScriptStep, Truncate, Fill, ReadBack, Eval, Remove, ScriptPlaces, Texts
<1>3. Apart'
  BY <1>1 DEF ScriptStep, Truncate, Fill, ReadBack, Eval, Remove, Apart, Alive
<1>4. \A d \in Callers : ppc'[d] \in {"unsent", "cluster", "exec"} => script'[d] = "none"
  BY <1>1 DEF Alive
<1>5. \A d \in Callers : panswer'[d] = "ok" => script'[d] = "ok"
  BY <1>1
<1>6. ASSUME NEW d \in Callers, d # c, Alive(d), channel[d] = channel[c]
      PROVE  d \in crossed /\ c \in crossed
  BY <1>1, <1>6 DEF Apart
<1>7. FilesOwn'
  <2>1. CASE Truncate(c) BY <1>1, <1>6, <2>1 DEF Truncate, FilesOwn, Alive
  <2>2. CASE Fill(c) BY <1>1, <1>6, <2>2 DEF Fill, FilesOwn, Alive
  <2>3. CASE ReadBack(c) BY <1>1, <1>6, <2>3 DEF ReadBack, FilesOwn, Alive
  <2>4. CASE Eval(c) BY <1>1, <1>6, <2>4 DEF Eval, FilesOwn, Alive
  <2>5. CASE Remove(c) BY <1>1, <1>6, <2>5 DEF Remove, FilesOwn, Alive
  <2> QED BY <2>1, <2>2, <2>3, <2>4, <2>5 DEF ScriptStep
<1>8. Once'
  <2>1. CASE Eval(c)
    <3>1. CASE script' = [script EXCEPT ![c] = "failed"] /\ UNCHANGED published
      BY <2>1, <3>1 DEF Once, Eval
    <3>2. ASSUME NEW d \in Callers,
                 text[c] = d \/ (text[c] = "mixed" /\ d \in crossed),
                 published' = [published EXCEPT ![d] = @ + 1],
                 script' = [script EXCEPT ![c] = "remove"]
          PROVE  Once'
      <4>1. d = c \/ d \in crossed
        BY <2>1, <3>2 DEF FilesOwn, Eval
      <4>2. c \notin crossed => d = c
        BY <2>1, <3>2 DEF FilesOwn, Eval
      <4> QED
        BY <1>1, <2>1, <3>2, <4>1, <4>2 DEF Once, Eval
    <3> QED
      BY <2>1, <3>1, <3>2 DEF Eval
  <2>2. CASE Truncate(c) \/ Fill(c) \/ ReadBack(c) \/ Remove(c)
    BY <1>1, <2>2 DEF Truncate, Fill, ReadBack, Remove, Once
  <2> QED
    BY <2>1, <2>2 DEF ScriptStep
<1> QED
  BY <1>1, <1>2, <1>3, <1>4, <1>5, <1>7, <1>8

LEMMA ScriptsInduction == ScriptsInv /\ [Next]_vars => ScriptsInv'
<1> SUFFICES ASSUME ScriptsInv, [Next]_vars PROVE ScriptsInv'
  OBVIOUS
<1>1. CASE PublishersCut
  BY <1>1 DEF PublishersCut, Pod, ScriptsInv, Apart, FilesOwn, Once, Alive
<1>2. CASE UNCHANGED scriptVars
  BY <1>2 DEF scriptVars, ScriptsInv, Apart, FilesOwn, Once, Alive
<1> QED
  BY <1>1, <1>2, ScriptsByPublisher, ScriptsByExec, ScriptsByScript
  DEF Next, Grants, Scripts, Settings, DaemonRestart, PublishStep, vars

\* A command or a whisper whose script met no other is published at most once, and
\* exactly once when the answer says so (mq.rs publish), for any number of
\* publishers, timeouts, dropped handlers and restarts.
THEOREM PublishedAsAskedAlways == Spec => []PublishedAsAsked
<1>1. ScriptsInv => PublishedAsAsked
  BY DEF ScriptsInv, Once, PublishedAsAsked
<1> QED
  BY <1>1, ScriptsInitially, ScriptsInduction, PTL DEF Spec

-----------------------------------------------------------------------------
(* Settings. *)

Rows == {"absent", "default", "", "other", "huge", "bad", "zero"}

LEMMA KeysAre ==
  /\ KeySet = {"frequency", "cron", "package", "actions"} /\ Len(Keys) = 4 /\ Past = 5
  /\ Keys[1] = "frequency" /\ Keys[2] = "cron" /\ Keys[3] = "package" /\ Keys[4] = "actions"
<1>1. Len(Keys) = 4
  BY DEF Keys
<1>2. Keys[1] = "frequency" /\ Keys[2] = "cron" /\ Keys[3] = "package" /\ Keys[4] = "actions"
  BY DEF Keys
<1>3. \A i \in 1..4 : i = 1 \/ i = 2 \/ i = 3 \/ i = 4
  OBVIOUS
<1> QED
  BY <1>1, <1>2, <1>3 DEF KeySet, Past

LEMMA AskedAre ==
  /\ Asked["frequency"] = {"zero", "other", "huge"} /\ Asked["cron"] = {"", "other", "bad"}
  /\ Asked["package"] = {"default", "other"} /\ Asked["actions"] = {"other", "bad"}
BY DEF Asked

\* A request says of every key it is about what may be asked of that.
LEMMA RequestsAsk ==
  ASSUME NEW w \in Requests
  PROVE  DOMAIN w \subseteq KeySet /\ \A k \in DOMAIN w : w[k] \in Asked[k] /\ w[k] \in Rows
<1>1. \A k \in DOMAIN w : w[k] \in Asked[k]
  BY DEF Requests
<1>2. PICK ks \in SUBSET KeySet : w \in [ks -> {"zero", "default", "", "other", "huge", "bad"}]
  BY DEF Requests
<1> QED
  BY <1>1, <1>2 DEF Rows

\* The next key: none that is asked for lies between.
LEMMA KeyAfterIsNext ==
  ASSUME NEW w, NEW i \in 0..4
  PROVE  /\ KeyAfter(w, i) \in (i + 1)..5
         /\ KeyAfter(w, i) # 5 => Keys[KeyAfter(w, i)] \in DOMAIN w
         /\ \A j \in (i + 1)..4 : Keys[j] \in DOMAIN w => KeyAfter(w, i) <= j
<1> DEFINE later == {j \in (i + 1)..Len(Keys) : Keys[j] \in DOMAIN w}
           First(j) == \A l \in later : j <= l
<1>1. later = {j \in (i + 1)..4 : Keys[j] \in DOMAIN w}
  BY KeysAre
<1>2. CASE later = {}
  BY <1>1, <1>2, KeysAre DEF KeyAfter
<1>3. CASE later # {}
  <2>1. \E j \in later : First(j)
    <3>1. later \subseteq {1, 2, 3, 4}
      BY <1>1
    <3>2. \A j \in later : j = 1 \/ j = 2 \/ j = 3 \/ j = 4
      BY <3>1
    <3> QED
      BY <1>3, <3>2
  <2>2. KeyAfter(w, i) = CHOOSE j \in later : First(j)
    BY <1>3 DEF KeyAfter
  <2> HIDE DEF First
  <2>3. KeyAfter(w, i) \in later /\ First(KeyAfter(w, i))
    BY <2>1, <2>2
  <2> QED
    BY <1>1, <2>3 DEF First
<1> QED
  BY <1>2, <1>3

\* Saves begin in their order, and of two that run at once both are known to.
OrderInv ==
  /\ at \in [Saves -> 0..5] /\ sanswer \in [Saves -> {"none", "ok", "refused", "error", "gone"}]
  /\ \A r, s \in Saves : r < s /\ at[r] = 0 => at[s] = 0
  /\ \A r, s \in Saves : r < s /\ Running(r) /\ at[s] # 0 => r \in raced /\ s \in raced
  /\ \A s \in Saves : sanswer[s] = "ok" => at[s] = 5

\* Nothing is stored that is refused.
Storable(rows) ==
  /\ DOMAIN rows = KeySet
  /\ rows["frequency"] \in {"absent", "other", "huge"}
  /\ rows["cron"] \in {"absent", "", "other"}
  /\ rows["package"] \in {"absent", "default", "other"}
  /\ rows["actions"] \in {"absent", "other", "bad"}
StoreInv == Storable(store)

\* A save that meets no other has stored all it has passed.
PassedInv ==
  /\ DOMAIN wanted = Saves /\ \A s \in Saves : at[s] # 0 => wanted[s] \in Requests
  /\ \A s \in Saves : Running(s) => Keys[at[s]] \in DOMAIN wanted[s]
  /\ \A s \in Saves \ raced : Running(s) =>
       \A j \in 1..4 : j < at[s] /\ Keys[j] \in DOMAIN wanted[s] => store[Keys[j]] = wanted[s][Keys[j]]

\* One that was answered with ok, and was the last, is there.
KeptInv ==
  \A s \in Saves \ raced :
    (sanswer[s] = "ok" /\ \A r \in Saves : r > s => at[r] = 0) =>
       \A k \in DOMAIN wanted[s] : store[k] = wanted[s][k]

SavesInv == OrderInv /\ StoreInv /\ PassedInv /\ KeptInv

LEMMA SavesInitially == Init => SavesInv
<1> SUFFICES ASSUME Init PROVE SavesInv
  OBVIOUS
<1>1. StoreInv
  BY KeysAre DEF Init, ConfigInit, StoreInv, Storable
<1>2. \A s \in Saves : at[s] = 0 /\ sanswer[s] = "none"
  BY DEF Init, ConfigInit
<1>3. OrderInv
  BY <1>2 DEF Init, ConfigInit, OrderInv, Running
<1>4. PassedInv /\ KeptInv
  BY <1>2 DEF Init, ConfigInit, PassedInv, KeptInv, Running
<1> QED
  BY <1>1, <1>3, <1>4 DEF SavesInv

LEMMA SavesByAsk == ASSUME SavesInv, NEW s \in Saves, AskConfig(s) PROVE SavesInv'
<1>1. PICK w \in Requests :
        wanted' = [wanted EXCEPT ![s] = w] /\ at' = [at EXCEPT ![s] = KeyAfter(w, 0)]
  BY DEF AskConfig
<1>2. KeyAfter(w, 0) \in 1..5
  BY KeyAfterIsNext
<1>3. UNCHANGED <<store, sanswer>> /\ at[s] = 0 /\ \A r \in 1..(s - 1) : at[r] # 0
  BY DEF AskConfig
<1>4. /\ raced \subseteq raced'
      /\ \A r \in Saves : Running(r) => r \in raced' /\ s \in raced'
  BY DEF AskConfig
<1>5. \A r \in Saves : r # s => at'[r] = at[r] /\ wanted'[r] = wanted[r]
  BY <1>1 DEF SavesInv, OrderInv, PassedInv
<1>6. at'[s] = KeyAfter(w, 0) /\ wanted'[s] = w
  BY <1>1 DEF SavesInv, OrderInv, PassedInv
<1>7. OrderInv'
  <2>1. at' \in [Saves -> 0..5]
    BY <1>1, <1>2 DEF SavesInv, OrderInv
  <2>2. \A r, t \in Saves : r < t /\ at'[r] = 0 => at'[t] = 0
    BY <1>2, <1>3, <1>5, <1>6 DEF SavesInv, OrderInv, Saves
  <2>3. \A r, t \in Saves : r < t /\ Running(r)' /\ at'[t] # 0 => r \in raced' /\ t \in raced'
    BY <1>2, <1>3, <1>4, <1>5, <1>6 DEF SavesInv, OrderInv, Saves, Running
  <2> QED
    BY <1>3, <1>5, <2>1, <2>2, <2>3 DEF SavesInv, OrderInv
<1>8. StoreInv'
  BY <1>3 DEF SavesInv, StoreInv, Storable
<1>9. PassedInv'
  <2>1. DOMAIN wanted' = Saves /\ \A r \in Saves : at'[r] # 0 => wanted'[r] \in Requests
    BY <1>1, <1>5, <1>6 DEF SavesInv, PassedInv
  <2>2. KeyAfter(w, 0) # 5 => Keys[KeyAfter(w, 0)] \in DOMAIN w
    BY KeyAfterIsNext
  <2>3. \A j \in 1..4 : j < KeyAfter(w, 0) => Keys[j] \notin DOMAIN w
    BY <1>2, KeyAfterIsNext
  <2>4. ASSUME NEW r \in Saves, Running(r)'
        PROVE  Keys[at'[r]] \in DOMAIN wanted'[r]
    BY <1>2, <1>5, <1>6, <2>2, <2>4, KeysAre DEF SavesInv, PassedInv, Running
  <2>5. ASSUME NEW r \in Saves \ raced', Running(r)', NEW j \in 1..4, j < at'[r],
               Keys[j] \in DOMAIN wanted'[r]
        PROVE  store'[Keys[j]] = wanted'[r][Keys[j]]
    <3>1. CASE r = s
      BY <1>6, <2>3, <2>5, <3>1
    <3>2. CASE r # s
      BY <1>3, <1>4, <1>5, <2>5, <3>2 DEF SavesInv, PassedInv, Running
    <3> QED
      BY <3>1, <3>2
  <2> QED
    BY <2>1, <2>4, <2>5 DEF PassedInv
<1>10. KeptInv'
  BY <1>2, <1>3, <1>4, <1>5, <1>6 DEF SavesInv, OrderInv, KeptInv
<1> QED
  BY <1>7, <1>8, <1>9, <1>10 DEF SavesInv

\* One key is written, or the save ends there.
LEMMA SavesBySet == ASSUME SavesInv, NEW s \in Saves, SetKey(s) PROVE SavesInv'
<1> DEFINE i == at[s]
           key == Keys[i]
           row == wanted[s][key]
           next == KeyAfter(wanted[s], i)
<1>1. /\ i \in 1..4 /\ key \in DOMAIN wanted[s] /\ key \in KeySet /\ wanted[s] \in Requests
      /\ UNCHANGED <<wanted, raced>>
  <2>1. Running(s)
    BY DEF SetKey
  <2>2. i \in 1..4 /\ key \in DOMAIN wanted[s] /\ wanted[s] \in Requests
    BY <2>1, KeysAre DEF SavesInv, PassedInv, Running
  <2> QED
    BY <2>2, RequestsAsk DEF SetKey
<1>2. /\ next \in (i + 1)..5 /\ (next # 5 => Keys[next] \in DOMAIN wanted[s])
      /\ \A j \in (i + 1)..4 : Keys[j] \in DOMAIN wanted[s] => next <= j
  BY <1>1, KeyAfterIsNext
<1>3. \/ /\ row \notin Refused /\ store' = [store EXCEPT ![key] = row]
         /\ \/ at' = [at EXCEPT ![s] = next] /\ UNCHANGED sanswer
            \/ next = 5 /\ at' = [at EXCEPT ![s] = 5] /\ sanswer' = [sanswer EXCEPT ![s] = "ok"]
      \/ \E a \in {"refused", "error"} :
           UNCHANGED store /\ at' = [at EXCEPT ![s] = 5] /\ sanswer' = [sanswer EXCEPT ![s] = a]
  BY <1>1, KeysAre DEF SetKey, Write, NextKey, Ends
<1>4. \A r \in Saves : r # s => at'[r] = at[r] /\ sanswer'[r] = sanswer[r]
  BY <1>3 DEF SavesInv, OrderInv
<1>5. at' \in [Saves -> 0..5] /\ at'[s] \in 1..5
  BY <1>1, <1>2, <1>3 DEF SavesInv, OrderInv
<1>6. OrderInv'
  <2>1. sanswer' \in [Saves -> {"none", "ok", "refused", "error", "gone"}]
    BY <1>3 DEF SavesInv, OrderInv
  <2>2. \A r \in Saves : sanswer'[r] = "ok" => at'[r] = 5
    BY <1>1, <1>3, <1>5 DEF SavesInv, OrderInv
  <2>3. at[s] # 0 /\ Running(s)
    BY <1>1, KeysAre DEF Running
  <2>4. \A r, t \in Saves : r < t /\ at'[r] = 0 => at'[t] = 0
    BY <1>4, <1>5, <2>3 DEF SavesInv, OrderInv
  <2>5. \A r, t \in Saves : r < t /\ Running(r)' /\ at'[t] # 0 => r \in raced' /\ t \in raced'
    BY <1>1, <1>4, <1>5, <2>3 DEF SavesInv, OrderInv, Running
  <2> QED
    BY <1>5, <2>1, <2>2, <2>4, <2>5 DEF OrderInv
<1>7. row \in Asked[key] /\ row \in Rows
  BY <1>1, RequestsAsk
<1>8. StoreInv'
  <2>1. CASE UNCHANGED store
    BY <2>1 DEF SavesInv, StoreInv, Storable
  <2>2. CASE row \notin Refused /\ store' = [store EXCEPT ![key] = row]
    <3>1. DOMAIN store' = KeySet /\ \A k \in KeySet : store'[k] = IF k = key THEN row ELSE store[k]
      BY <2>2 DEF SavesInv, StoreInv, Storable
    <3>2. row # "zero" /\ row # "bad"
      BY <2>2 DEF Refused
    <3>3. /\ key = "frequency" => row \in {"zero", "other", "huge"}
          /\ key = "cron" => row \in {"", "other", "bad"}
          /\ key = "package" => row \in {"default", "other"}
          /\ key = "actions" => row \in {"other", "bad"}
      BY <1>7, AskedAre
    <3>4. key \in KeySet
      BY <1>1
    <3> HIDE DEF key, row
    <3>5. CASE key = "frequency"
      BY <3>1, <3>2, <3>3, <3>5, KeysAre DEF SavesInv, StoreInv, Storable
    <3>6. CASE key = "cron"
      BY <3>1, <3>2, <3>3, <3>6, KeysAre DEF SavesInv, StoreInv, Storable
    <3>7. CASE key = "package"
      BY <3>1, <3>2, <3>3, <3>7, KeysAre DEF SavesInv, StoreInv, Storable
    <3>8. CASE key = "actions"
      BY <3>1, <3>2, <3>3, <3>8, KeysAre DEF SavesInv, StoreInv, Storable
    <3> QED
      BY <3>4, <3>5, <3>6, <3>7, <3>8, KeysAre
  <2> QED
    BY <1>3, <2>1, <2>2
\* Who writes beside another has raced, and so has the other.
<1>9. \A r \in Saves : r # s /\ (Running(r) \/ (at[r] # 0 /\ r > s)) => r \in raced
  <2>1. at[s] # 0 /\ Running(s)
    BY <1>1, KeysAre DEF Running
  <2>2. \A r \in Saves : Running(r) => at[r] # 0
    BY KeysAre DEF Running
  <2> QED
    BY <2>1, <2>2 DEF SavesInv, OrderInv, Saves
<1>10. \A j \in 1..4 : j # i => Keys[j] # key
  BY <1>1, KeysAre
<1>11. \A k \in KeySet : k # key => store'[k] = store[k]
  BY <1>3 DEF SavesInv, StoreInv, Storable
<1>12. PassedInv'
  <2>1. \A r \in Saves : Running(r)' => Keys[at'[r]] \in DOMAIN wanted'[r]
    BY <1>1, <1>2, <1>3, <1>4, KeysAre DEF SavesInv, OrderInv, PassedInv, Running
  <2>2. ASSUME NEW r \in Saves \ raced', Running(r)', NEW j \in 1..4, j < at'[r],
               Keys[j] \in DOMAIN wanted'[r]
        PROVE  store'[Keys[j]] = wanted'[r][Keys[j]]
    <3>1. r = s
      BY <1>1, <1>4, <1>9, <2>2 DEF Running
    <3>2. at'[s] = next /\ store' = [store EXCEPT ![key] = row]
      BY <1>3, <2>2, <3>1, KeysAre DEF Running, SavesInv, OrderInv
    <3>3. CASE j = i
      BY <1>1, <3>1, <3>2, <3>3 DEF SavesInv, StoreInv, Storable
    <3>4. CASE j < i
      BY <1>1, <1>10, <1>11, <2>2, <3>1, <3>4, KeysAre DEF SavesInv, PassedInv, Running
    <3>5. CASE j > i
      BY <1>1, <1>2, <2>2, <3>1, <3>2, <3>5
    <3> QED
      BY <1>1, <3>3, <3>4, <3>5
  <2> QED
    BY <1>1, <1>4, <1>5, <2>1, <2>2 DEF SavesInv, PassedInv
<1>13. KeptInv'
  <2> SUFFICES ASSUME NEW r \in Saves \ raced, sanswer'[r] = "ok",
                      \A t \in Saves : t > r => at'[t] = 0, NEW k \in DOMAIN wanted[r]
               PROVE  store'[k] = wanted[r][k]
    BY <1>1 DEF KeptInv
  <2>1. CASE r = s
    <3>1. next = 5 /\ store' = [store EXCEPT ![key] = row]
      BY <1>1, <1>3, <2>1 DEF SavesInv, OrderInv
    <3>2. wanted[s] \in Requests /\ k \in KeySet
      BY <1>1, <2>1, RequestsAsk
    <3>3. PICK j \in 1..4 : k = Keys[j]
      BY <3>2, KeysAre
    <3>4. CASE j = i
      BY <1>1, <2>1, <3>1, <3>3, <3>4 DEF SavesInv, StoreInv, Storable
    <3>5. CASE j < i
      BY <1>1, <1>10, <1>11, <2>1, <3>2, <3>3, <3>5, KeysAre DEF SavesInv, PassedInv, Running
    <3>6. CASE j > i
      BY <1>1, <1>2, <2>1, <3>1, <3>3, <3>6
    <3> QED
      BY <1>1, <3>4, <3>5, <3>6
  <2>2. CASE r # s
    <3>1. sanswer[r] = "ok" /\ at[r] = 5
      BY <1>4, <2>2 DEF SavesInv, OrderInv
    <3>2. FALSE
      <4>1. CASE r > s
        BY <1>1, <1>9, <3>1, <4>1
      <4>2. CASE r < s
        BY <1>5, <4>2
      <4> QED
        BY <2>2, <4>1, <4>2 DEF Saves
    <3> QED
      BY <3>2
  <2> QED
    BY <2>1, <2>2
<1> QED
  BY <1>6, <1>8, <1>12, <1>13 DEF SavesInv

LEMMA SavesInduction == SavesInv /\ [Next]_vars => SavesInv'
<1> SUFFICES ASSUME SavesInv, [Next]_vars PROVE SavesInv'
  OBVIOUS
<1>1. CASE UNCHANGED <<store, wanted, at, sanswer, raced>>
  <2>1. OrderInv' /\ StoreInv'
    BY <1>1 DEF SavesInv, OrderInv, StoreInv, Storable, Running
  <2>2. PassedInv' /\ KeptInv'
    BY <1>1 DEF SavesInv, PassedInv, KeptInv, Running
  <2> QED
    BY <2>1, <2>2 DEF SavesInv
<1>2. CASE ConfigRestart
  <2>1. /\ UNCHANGED <<store, wanted, raced>>
        /\ at' = [s \in Saves |-> IF Running(s) THEN 5 ELSE at[s]]
        /\ sanswer' = [s \in Saves |-> IF Running(s) THEN "gone" ELSE sanswer[s]]
    BY <1>2, KeysAre DEF ConfigRestart
  <2>2. \A s \in Saves : /\ at'[s] = 0 <=> at[s] = 0
                         /\ ~Running(s)'
                         /\ sanswer'[s] = "ok" => sanswer[s] = "ok" /\ at'[s] = at[s]
    BY <2>1, KeysAre DEF SavesInv, OrderInv, Running
  <2>3. OrderInv'
    BY <2>1, <2>2 DEF SavesInv, OrderInv
  <2>4. StoreInv' /\ PassedInv' /\ KeptInv'
    BY <2>1, <2>2 DEF SavesInv, StoreInv, Storable, PassedInv, KeptInv
  <2> QED
    BY <2>3, <2>4 DEF SavesInv
<1> QED
  BY <1>1, <1>2, SavesByAsk, SavesBySet
  DEF Next, Grants, Scripts, Settings, DaemonRestart, ReadConfig, ReadKey, Saver, vars, configVars

\* Nothing is stored that the next start would leave aside, and a save answered
\* with ok that met no other is there key for key (set_config, api_runs.rs),
\* however many saves, failures and restarts there are.
THEOREM SavesHoldAlways == Spec => []SavesHold
<1>1. SavesInv => SavesHold
  BY DEF SavesInv, StoreInv, Storable, KeptInv, SavesHold
<1> QED
  BY <1>1, SavesInitially, SavesInduction, PTL DEF Spec

\* What the daemon runs with was stored once, and no row is ever taken away.
Stored(running, rows) ==
  /\ running \in [KeySet -> {"default", "other", "bad"}]
  /\ \A k \in {"frequency", "cron", "package"} : running[k] # "bad"
  /\ running["actions"] = "bad" => running["package"] = "default"
  /\ \A k \in KeySet : running[k] # "default" => rows[k] # "absent"

\* The first n keys, of four, do not differ.
Same(n) == \A j \in 1..4 : j <= n => ~Differs(Keys[j], store[Keys[j]])

\* What a read has passed without seeing a difference does not differ.
FlagInv ==
  /\ readAt \in 0..4 /\ (readAt > 0 => flag = "none")
  /\ readAt > 0 /\ ~dirty /\ ~differs => Same(readAt - 1)
  /\ flag = "no" /\ ~dirty => Same(4)

\* Resolve, key by key.
LEMMA ResolveIs ==
  ASSUME NEW rows
  PROVE  /\ Resolve(rows) = [k \in KeySet |-> Resolve(rows)[k]]
         /\ \A k \in KeySet \ {"package"} : Resolve(rows)[k] = InForce(k, rows[k])
         /\ Resolve(rows)["package"] =
              IF InForce("actions", rows["actions"]) = "bad" THEN "default"
              ELSE InForce("package", rows["package"])
<1> DEFINE read == [k \in KeySet |-> InForce(k, rows[k])]
<1>1. Resolve(rows) = IF read["actions"] = "bad" THEN [read EXCEPT !["package"] = "default"] ELSE read
  BY DEF Resolve
<1>2. "actions" \in KeySet /\ "package" \in KeySet
  BY KeysAre
<1> QED
  BY <1>1, <1>2

\* The daemon starts on rows that can be stored, or has failed to read.
LEMMA StartsOnRows ==
  ASSUME NEW stored, Storable(stored), NEW rows, \A k \in KeySet : rows[k] \in {stored[k], "absent"}
  PROVE  Stored(Resolve(rows), stored)
<1> DEFINE running == Resolve(rows)
<1> USE KeysAre DEF InForce, Storable
<1>1. \A k \in KeySet : InForce(k, "absent") = "default"
  OBVIOUS
<1>2. InForce("frequency", rows["frequency"]) \in {"default", "other"}
  OBVIOUS
<1>3. InForce("cron", rows["cron"]) \in {"default", "other"}
  OBVIOUS
<1>4. InForce("package", rows["package"]) \in {"default", "other"}
  OBVIOUS
<1>5. InForce("actions", rows["actions"]) \in {"default", "other", "bad"}
  OBVIOUS
<1> HIDE DEF InForce, Storable, running
<1>6. running = [k \in KeySet |-> running[k]]
  BY ResolveIs DEF running
<1>7. /\ running["frequency"] = InForce("frequency", rows["frequency"])
      /\ running["cron"] = InForce("cron", rows["cron"])
      /\ running["actions"] = InForce("actions", rows["actions"])
      /\ running["package"] = IF running["actions"] = "bad" THEN "default"
                              ELSE InForce("package", rows["package"])
  BY ResolveIs DEF running
<1>8. \A k \in KeySet : running[k] # "default" => InForce(k, rows[k]) # "default"
  BY <1>7
<1>9. \A k \in KeySet : running[k] # "default" => stored[k] # "absent"
  BY <1>1, <1>8
<1>10. \A k \in KeySet : running[k] \in {"default", "other", "bad"}
  BY <1>2, <1>3, <1>4, <1>5, <1>7
<1> QED
  BY <1>2, <1>3, <1>4, <1>6, <1>7, <1>9, <1>10 DEF Stored, running

\* If nothing differs, a start would change nothing.
LEMMA NothingDiffers ==
  ASSUME Storable(store), Stored(env, store), store["frequency"] # "huge",
         \A j \in 1..4 : ~Differs(Keys[j], store[Keys[j]])
  PROVE  Resolve(store) = env
<1>1. /\ ~Differs("frequency", store["frequency"]) /\ ~Differs("cron", store["cron"])
      /\ ~Differs("package", store["package"]) /\ ~Differs("actions", store["actions"])
  BY KeysAre
<1>2. InForce("frequency", store["frequency"]) = env["frequency"]
  BY <1>1, KeysAre DEF InForce, Differs, Storable, Stored
<1>3. InForce("cron", store["cron"]) = env["cron"]
  BY <1>1, KeysAre DEF InForce, Differs, Storable, Stored
<1>4. InForce("actions", store["actions"]) = env["actions"]
  BY <1>1, KeysAre DEF InForce, Differs, Storable, Stored
<1>5. Resolve(store)["package"] = env["package"]
  BY <1>1, <1>4, ResolveIs, KeysAre DEF InForce, Differs, Storable, Stored
<1>6. \A k \in KeySet : Resolve(store)[k] = env[k]
  BY <1>2, <1>3, <1>4, <1>5, ResolveIs, KeysAre
<1>7. Resolve(store) = [k \in KeySet |-> Resolve(store)[k]] /\ env = [k \in KeySet |-> env[k]]
  BY ResolveIs DEF Stored
<1> QED
  BY <1>6, <1>7

FlagIInv == StoreInv /\ Stored(env, store) /\ FlagInv

LEMMA FlagInitially == Init => FlagIInv
<1> SUFFICES ASSUME Init PROVE FlagIInv
  OBVIOUS
<1>1. StoreInv
  BY SavesInitially DEF SavesInv
<1>2. env = Resolve(store)
  BY DEF Init, ConfigInit
<1>3. Stored(env, store)
  BY <1>1, <1>2, StartsOnRows DEF StoreInv
<1>4. FlagInv
  BY DEF Init, ConfigInit, FlagInv
<1> QED
  BY <1>1, <1>3, <1>4 DEF FlagIInv

LEMMA SameStays ==
  ASSUME UNCHANGED <<store, env>>, NEW n PROVE Same(n)' <=> Same(n)
BY DEF Same, Differs

LEMMA FlagByRead == ASSUME FlagInv, ReadConfig \/ ReadKey, UNCHANGED <<store, env>> PROVE FlagInv'
<1>1. Same(0)'
  BY DEF Same
<1>2. CASE ReadConfig
  <2>1. readAt' = 1 /\ differs' = FALSE /\ flag' = "none" /\ dirty' = FALSE
    BY <1>2 DEF ReadConfig
  <2>2. readAt' - 1 = 0
    BY <2>1
  <2>3. Same(readAt - 1)'
    BY <1>1, <2>2
  <2> QED
    BY <2>1, <2>3 DEF FlagInv
<1>3. CASE ReadKey
  <2> DEFINE D == Differs(Keys[readAt], store[Keys[readAt]])
  <2>1. readAt \in 1..4 /\ dirty' = dirty
    BY <1>3 DEF ReadKey, FlagInv
  <2>2. ~dirty /\ ~differs /\ ~D => Same(readAt)
    BY <2>1 DEF FlagInv, Same
  <2>3. CASE readAt = 4
    <3>1. readAt' = 0 /\ differs' = FALSE /\ flag' = (IF differs \/ D THEN "yes" ELSE "no")
      BY <1>3, <2>3, KeysAre DEF ReadKey
    <3> HIDE DEF D
    <3>2. flag' = "no" /\ ~dirty' => Same(4)
      BY <2>1, <2>2, <2>3, <3>1
    <3>3. flag' = "no" /\ ~dirty' => Same(4)'
      BY <3>2, SameStays
    <3> QED
      BY <2>1, <3>1, <3>3 DEF FlagInv
  <2>4. CASE readAt # 4
    <3>1. readAt' = readAt + 1 /\ differs' = (differs \/ D) /\ flag' = flag
      BY <1>3, <2>4, KeysAre DEF ReadKey
    <3>2. ~differs' => ~differs /\ ~D
      BY <3>1, Zenon
    <3> HIDE DEF D
    <3>3. readAt' \in 1..4 /\ readAt' - 1 = readAt /\ flag' = "none"
      BY <2>1, <2>4, <3>1 DEF FlagInv
    <3>4. PICK i \in 1..4 : readAt = i
      BY <2>1
    <3>5. ~dirty' /\ ~differs' => Same(i)'
      BY <2>1, <2>2, <3>2, <3>4, SameStays
    <3>6. readAt' - 1 = i
      BY <3>3, <3>4
    <3>7. ~dirty' /\ ~differs' => Same(readAt - 1)'
      BY <3>5, <3>6
    <3> QED
      BY <2>1, <3>3, <3>7 DEF FlagInv
  <2> QED
    BY <2>3, <2>4
<1> QED
  BY <1>2, <1>3

LEMMA FlagInduction == SavesInv /\ FlagIInv /\ [Next]_vars => FlagIInv'
<1> SUFFICES ASSUME SavesInv, FlagIInv, [Next]_vars PROVE FlagIInv'
  OBVIOUS
<1> USE DEF FlagIInv
<1>1. SavesInv' /\ StoreInv'
  BY SavesInduction DEF SavesInv
<1>2. CASE UNCHANGED <<store, env, readAt, differs, flag, dirty>>
  <2>1. Stored(env, store)'
    BY <1>2 DEF Stored
  <2>2. FlagInv'
    BY <1>2 DEF FlagInv, Same, Differs
  <2> QED
    BY <1>1, <2>1, <2>2
<1>3. CASE ReadConfig \/ ReadKey
  <2>1. UNCHANGED <<store, env>>
    BY <1>3 DEF ReadConfig, ReadKey, Saver
  <2>2. Stored(env, store)'
    BY <2>1 DEF Stored
  <2> QED
    BY <1>1, <1>3, <2>1, <2>2, FlagByRead
<1>4. CASE ConfigRestart
  <2>1. PICK failed \in KeySet \cup {"none"} :
          env' = Resolve([k \in KeySet |-> IF k = failed THEN "absent" ELSE store[k]])
    BY <1>4 DEF ConfigRestart
  <2>2. UNCHANGED store /\ readAt' = 0 /\ flag' = "none"
    BY <1>4 DEF ConfigRestart
  <2>3. Stored(env', store)
    BY <2>1, StartsOnRows DEF StoreInv
  <2>4. Stored(env, store)'
    BY <2>2, <2>3 DEF Stored
  <2>5. FlagInv'
    BY <2>2 DEF FlagInv
  <2> QED
    BY <1>1, <2>4, <2>5
<1>5. ASSUME NEW s \in Saves, SetKey(s) PROVE FlagIInv'
  <2>1. UNCHANGED <<env, readAt, differs, flag>>
    BY <1>5 DEF SetKey, Reader
  <2>2. CASE UNCHANGED <<store, dirty>>
    BY <1>2, <2>1, <2>2
  <2>3. CASE dirty' = TRUE
    <3>1. \A k \in KeySet : store[k] # "absent" => store'[k] # "absent"
      <4>1. Keys[at[s]] \in DOMAIN wanted[s] /\ wanted[s] \in Requests
        BY <1>5, KeysAre DEF SetKey, Running, SavesInv, PassedInv
      <4>2. wanted[s][Keys[at[s]]] \in Asked[Keys[at[s]]] /\ Keys[at[s]] \in KeySet
        BY <4>1, RequestsAsk
      <4>3. wanted[s][Keys[at[s]]] # "absent"
        BY <4>2, AskedAre, KeysAre
      <4>4. UNCHANGED store \/ store' = [store EXCEPT ![Keys[at[s]]] = wanted[s][Keys[at[s]]]]
        BY <1>5 DEF SetKey, Write
      <4> QED
        BY <4>3, <4>4 DEF StoreInv, Storable
    <3>2. Stored(env, store)'
      BY <2>1, <3>1 DEF Stored
    <3>3. FlagInv'
      BY <2>1, <2>3 DEF FlagInv
    <3> QED
      BY <1>1, <3>2, <3>3
  <2> QED
    BY <1>5, <2>2, <2>3 DEF SetKey, Write
<1> QED
  BY <1>2, <1>3, <1>4, <1>5
  DEF Next, Grants, Scripts, Settings, DaemonRestart, AskConfig, Reader, vars, configVars

\* An administrator who reads that no restart is required loses nothing by not
\* restarting (get_config, api_runs.rs), whatever saves were made, refused half
\* way or cut off before, except a number that takes all 64 bits.
THEOREM RestartFlagTruthfulAlways == Spec => []RestartFlagTruthful
<1>1. FlagIInv => RestartFlagTruthful
  <2> SUFFICES ASSUME FlagIInv, flag = "no", ~dirty, store.frequency # "huge"
               PROVE  Resolve(store) = env
    BY DEF RestartFlagTruthful
  <2>1. \A j \in 1..4 : ~Differs(Keys[j], store[Keys[j]])
    BY DEF FlagIInv, FlagInv, Same
  <2> QED
    BY <2>1, NothingDiffers DEF FlagIInv, StoreInv
<1> QED
  BY <1>1, SavesInitially, SavesInduction, FlagInitially, FlagInduction, PTL DEF Spec
-----------------------------------------------------------------------------
(* Types. *)

CacheTyped ==
  /\ home \in 1..MaxClusters /\ gone \in 0..Never
  /\ cached \in 0..MaxClusters /\ age \in 0..CacheTtl
  /\ found \in [Callers -> 0..MaxClusters]

\* A clock stops at its end.
LEMMA LaterTyped ==
  ASSUME NEW end \in Nat, NEW t \in 0..end
  PROVE  Later(t, end) \in 0..end
BY DEF Later

LEMMA CacheTypedFirst == Init => CacheTyped
BY CacheAssumption DEF Init, CacheInit, CacheTyped, Never

LEMMA CacheTypedNext == CacheTyped /\ [Next]_vars => CacheTyped'
<1> SUFFICES ASSUME CacheTyped, [Next]_vars PROVE CacheTyped'
  OBVIOUS
<1> USE CacheAssumption DEF CacheTyped
<1>1. CASE UNCHANGED cacheVars BY <1>1 DEF cacheVars
<1>2. CASE CacheTick
  <2>1. Never \in Nat
    BY DEF Never
  <2>2. gone' \in 0..Never
    BY <1>2, <2>1, LaterTyped DEF CacheTick
  <2>3. age' \in 0..CacheTtl
    BY <1>2, LaterTyped DEF CacheTick
  <2> QED
    BY <1>2, <2>2, <2>3 DEF CacheTick
<1>3. CASE Moves BY <1>3 DEF Moves, Never
<1>4. CASE CacheLost BY <1>4 DEF CacheLost
<1>5. ASSUME NEW c \in Callers, CacheHit(c) \/ CacheMiss(c) \/ Detect(c) \/ Keep(c) \/ Abandon(c)
      PROVE  CacheTyped'
  <2>1. CASE CacheHit(c) BY <2>1 DEF CacheHit
  <2>2. CASE CacheMiss(c) BY <2>2 DEF CacheMiss
  <2>3. CASE Detect(c) BY <2>3 DEF Detect
  <2>4. CASE Keep(c) BY <2>4 DEF Keep
  <2>5. CASE Abandon(c) BY <2>5 DEF Abandon
  <2> QED BY <1>5, <2>1, <2>2, <2>3, <2>4, <2>5
<1>6. ASSUME NEW c \in Callers, PublishStep(c) PROVE CacheTyped'
  BY <1>1, <1>5, <1>6
  DEF PublishStep, AskPublish, GetCluster, Exec, Answered, ExecTimesOut, PublishDropped, ScriptStep,
      Truncate, Fill, ReadBack, Eval, Remove, ScriptAt
<1> QED
  BY <1>1, <1>2, <1>3, <1>4, <1>6
  DEF Next, Grants, Scripts, Settings, DaemonRestart, PublishersCut, vars

\* A text is counted until it has been published twice.
PublishedTyped == published \in [Callers -> 0..2]

LEMMA PublishedFirst == Init => PublishedTyped
BY DEF Init, ScriptsInit, PublishedTyped

LEMMA PublishedNext == PublishedTyped /\ [Next]_vars => PublishedTyped'
<1> SUFFICES ASSUME PublishedTyped, [Next]_vars PROVE PublishedTyped'
  OBVIOUS
<1>1. CASE UNCHANGED published BY <1>1 DEF PublishedTyped
<1>2. ASSUME NEW c \in Callers, Eval(c) PROVE PublishedTyped'
  <2>1. ASSUME NEW d \in Callers, published[d] < 2, published' = [published EXCEPT ![d] = @ + 1]
        PROVE  PublishedTyped'
    BY <2>1 DEF PublishedTyped
  <2> QED
    BY <1>1, <1>2, <2>1 DEF Eval
<1> QED
  BY <1>1, <1>2
  DEF Next, Grants, Scripts, Settings, DaemonRestart, PublishersCut, vars, scriptVars, PublishStep,
      AskPublish, GetCluster, Exec, Answered, ExecTimesOut, PublishDropped, ScriptStep, Truncate,
      Fill, ReadBack, Remove, Pod

\* The rows are those of the keys, whatever a save wrote of them.
RowsTyped ==
  /\ store \in [KeySet -> Rows] /\ starts \in 1..MaxStarts /\ raced \subseteq Saves
  /\ flag \in {"yes", "no", "none"}

MarksTyped == differs \in BOOLEAN /\ dirty \in BOOLEAN

LEMMA RowsFirst == Init => RowsTyped
<1> SUFFICES ASSUME Init PROVE RowsTyped
  OBVIOUS
<1>1. store \in [KeySet -> Rows]
  BY DEF Init, ConfigInit, Rows
<1>2. starts = 1 /\ raced = {} /\ flag = "none"
  BY DEF Init, ConfigInit
<1> QED
  BY <1>1, <1>2, ConfigAssumption DEF RowsTyped

LEMMA RowsNext == SavesInv /\ RowsTyped /\ [Next]_vars => RowsTyped'
<1> SUFFICES ASSUME SavesInv, RowsTyped, [Next]_vars PROVE RowsTyped'
  OBVIOUS
<1> USE DEF RowsTyped
<1>1. ASSUME NEW s \in Saves, AskConfig(s) PROVE RowsTyped'
  <2>1. UNCHANGED <<store, starts, flag>>
    BY <1>1 DEF AskConfig, Reader
  <2>2. raced' \subseteq Saves
    BY <1>1 DEF AskConfig
  <2> QED
    BY <2>1, <2>2
<1>2. ASSUME NEW s \in Saves, SetKey(s) PROVE RowsTyped'
  <2> DEFINE key == Keys[at[s]]
             row == wanted[s][key]
  <2>1. UNCHANGED <<starts, raced, flag>>
    BY <1>2 DEF SetKey, Reader
  <2>2. store' = store \/ store' = [store EXCEPT ![key] = row]
    BY <1>2 DEF SetKey, Write
  <2>3. Running(s) /\ at[s] \in 1..4
    BY <1>2, KeysAre DEF SetKey, Running
  <2>4. wanted[s] \in Requests /\ key \in DOMAIN wanted[s]
    BY <2>3 DEF SavesInv, PassedInv
  <2>5. key \in KeySet /\ row \in Rows
    BY <2>4, RequestsAsk
  <2> HIDE DEF key, row
  <2> QED
    BY <2>1, <2>2, <2>5
<1>3. CASE ReadConfig BY <1>3 DEF ReadConfig, Saver
<1>4. CASE ReadKey
  <2>1. UNCHANGED <<store, starts, raced>> /\ flag' \in {"yes", "no", flag}
    BY <1>4 DEF ReadKey, Saver
  <2> QED
    BY <2>1
<1>5. CASE ConfigRestart BY <1>5, ConfigAssumption DEF ConfigRestart
<1>6. CASE UNCHANGED configVars BY <1>6 DEF configVars
<1> QED
  BY <1>1, <1>2, <1>3, <1>4, <1>5, <1>6 DEF Next, Grants, Scripts, Settings, DaemonRestart, vars

LEMMA MarksFirst == Init => MarksTyped
BY DEF Init, ConfigInit, MarksTyped

LEMMA MarksNext == MarksTyped /\ [Next]_vars => MarksTyped'
<1> SUFFICES ASSUME MarksTyped, [Next]_vars PROVE MarksTyped'
  OBVIOUS
<1> USE DEF MarksTyped
<1>1. ASSUME NEW s \in Saves, AskConfig(s) PROVE MarksTyped'
  BY <1>1, Zenon DEF AskConfig, Reader
<1>2. ASSUME NEW s \in Saves, SetKey(s) PROVE MarksTyped'
  <2>1. differs' = differs /\ (dirty' = TRUE \/ dirty' = dirty)
    BY <1>2, Zenon DEF SetKey, Reader, Write
  <2> QED
    BY <2>1, Zenon
<1>3. CASE ReadConfig BY <1>3, Zenon DEF ReadConfig
<1>4. CASE ReadKey
  <2> DEFINE differ == Differs(Keys[readAt], store[Keys[readAt]])
  <2>1. dirty' = dirty
    BY <1>4, Zenon DEF ReadKey
  <2>2. differ \in BOOLEAN
    BY Zenon DEF Differs
  <2>3. differs' = FALSE \/ differs' = (differs \/ differ)
    BY <1>4, Zenon DEF ReadKey
  <2> HIDE DEF differ
  <2>4. (differs \/ differ) \in BOOLEAN
    BY Zenon
  <2> QED
    BY <2>1, <2>3, <2>4, Zenon
<1>5. CASE ConfigRestart BY <1>5, Zenon DEF ConfigRestart
<1>6. CASE UNCHANGED configVars BY <1>6, Zenon DEF configVars
<1> QED
  BY <1>1, <1>2, <1>3, <1>4, <1>5, <1>6, Zenon
  DEF Next, Grants, Scripts, Settings, DaemonRestart, vars

LEMMA GrantsTyped == AnswersInv /\ LockInv /\ BalanceInv => GrantsTypeOK
<1> SUFFICES ASSUME AnswersInv, LockInv, BalanceInv PROVE GrantsTypeOK
  OBVIOUS
<1>1. db \in [Kinds -> 0..MaxGrants]
  BY BalanceBound DEF BalanceInv
<1>2. online \in BOOLEAN /\ loaded \in BOOLEAN
  <2>1. {loaded, online} \subseteq BOOLEAN
    BY DEF LockInv
  <2> QED
    BY <2>1, Zenon
<1>3. player \in {"one", "none", "two", "no pawn"} /\ granted \subseteq G
  BY DEF LockInv
<1>4. /\ gpc \in [G -> GrantPlaces] /\ ganswer \in [G -> {"none", "ok", "refused", "error", "gone"}]
      /\ grow \in [G -> {"none", "ok", "failed"}]
  BY DEF AnswersInv
<1>5. /\ engine \in {"careful", "careless"} /\ logins \in 0..MaxLogins /\ rowLock \in G \cup {0}
      /\ gkind \in [G -> Kinds] /\ memory \in [Kinds -> 0..MaxGrants]
  BY DEF BalanceInv
<1> QED
  BY <1>1, <1>2, <1>3, <1>4, <1>5, Zenon DEF GrantsTypeOK, GrantPlaces

LEMMA ConfigTyped ==
  SavesInv /\ FlagIInv /\ RowsTyped /\ MarksTyped => ConfigTypeOK
<1> SUFFICES ASSUME SavesInv, FlagIInv, RowsTyped, MarksTyped PROVE ConfigTypeOK
  OBVIOUS
<1>1. /\ store \in [KeySet -> {"absent", "default", "", "other", "huge", "bad", "zero"}]
      /\ starts \in 1..MaxStarts /\ raced \subseteq Saves /\ flag \in {"yes", "no", "none"}
  BY DEF RowsTyped, Rows
<1>2. env \in [KeySet -> {"default", "other", "bad"}] /\ readAt \in 0..Len(Keys)
  BY KeysAre DEF FlagIInv, Stored, FlagInv
<1>3. /\ at \in [Saves -> 0..Past]
      /\ sanswer \in [Saves -> {"none", "ok", "refused", "error", "gone"}]
  BY KeysAre DEF SavesInv, OrderInv
<1>4. differs \in BOOLEAN /\ dirty \in BOOLEAN
  BY DEF MarksTyped
<1> QED
  BY <1>1, <1>2, <1>3, <1>4, Zenon DEF ConfigTypeOK

\* Every variable of the administrator's part keeps its type (api_admin.rs, mq.rs,
\* cluster.rs, api_runs.rs): no clock of the cache runs past its end, no balance
\* past the grants that were asked for, and what is stored is a row of its key.
THEOREM AdminTypeCorrect == Spec => []AdminTypeOK
<1>1. CacheInv /\ CacheTyped => CacheTypeOK
  BY DEF CacheInv, CacheTyped, CacheTypeOK
<1>2. ScriptsInv /\ PublishedTyped => ScriptsTypeOK
  BY DEF ScriptsInv, PublishedTyped, ScriptsTypeOK, ScriptPlaces
<1>3. Spec => []GrantsTypeOK
  BY AnswersInitially, AnswersInduction, LockInitially, LockInduction, BalanceInitially,
     BalanceInduction, GrantsTyped, PTL DEF Spec
<1>4. Spec => []CacheTypeOK
  BY <1>1, CacheInitially, CacheInduction, CacheTypedFirst, CacheTypedNext, PTL DEF Spec
<1>5. Spec => []ScriptsTypeOK
  BY <1>2, ScriptsInitially, ScriptsInduction, PublishedFirst, PublishedNext, PTL DEF Spec
<1>6. Spec => []ConfigTypeOK
  BY SavesInitially, SavesInduction, FlagInitially, FlagInduction, RowsFirst, RowsNext, MarksFirst,
     MarksNext, ConfigTyped, PTL DEF Spec
<1>7. GrantsTypeOK /\ CacheTypeOK /\ ScriptsTypeOK /\ ConfigTypeOK => AdminTypeOK
  BY DEF AdminTypeOK
<1> QED
  BY <1>3, <1>4, <1>5, <1>6, <1>7, PTL

=============================================================================
