----------------------------- MODULE ClusterCache -----------------------------
(***************************************************************************)
(* The cache of where the game's cluster is: the namespace, and in it the  *)
(* pods of the message broker and of the database.  A caller looks at the  *)
(* cache under its lock, detects without the lock when what is there is    *)
(* older than CACHE_TTL, and stores what it found as found now.            *)
(*                                                                         *)
(* A cluster is a number: the battlegroup may be taken down and another    *)
(* one put in its place.  A detection is three calls of kubectl, each with *)
(* a timeout of its own.                                                   *)
(***************************************************************************)
EXTENDS Integers

CONSTANTS
  Callers,       \* who asks
  CacheTtl,      \* CACHE_TTL, in ticks
  DetectTime,    \* bound of the code: the longest detection, in ticks
  MaxClusters    \* bound: clusters that follow one another

ASSUME CacheAssumption ==
  CacheTtl \in Nat \ {0} /\ DetectTime \in Nat /\ MaxClusters \in Nat \ {0}

VARIABLES
  home,      \* the cluster that is there
  gone,      \* ticks since the one before it went, as far as they are told apart
  cached,    \* what the cache holds, 0: nothing
  age,       \* ticks since it was stored
  found,     \* what each caller has found, 0: nothing yet
  busy       \* ticks since each caller began to detect

cacheVars == <<home, gone, cached, age, found, busy>>

\* A clock goes on as long as that makes a difference.
Later(t, end) == IF t < end THEN t + 1 ELSE t
Never == CacheTtl + DetectTime

CacheTypeOK ==
  /\ home \in 1..MaxClusters /\ gone \in 0..Never
  /\ cached \in 0..MaxClusters /\ age \in 0..CacheTtl
  /\ found \in [Callers -> 0..MaxClusters] /\ busy \in [Callers -> -1..DetectTime]

CacheInit ==
  /\ home = 1 /\ gone = Never /\ cached = 0 /\ age = 0
  /\ found = [c \in Callers |-> 0] /\ busy = [c \in Callers |-> -1]

Fresh == cached # 0 /\ age < CacheTtl

\* Mutant of CacheHit: an entry that is used is kept for another while.
SlidingHit(c) ==
  /\ Fresh
  /\ found' = [found EXCEPT ![c] = cached] /\ age' = 0
  /\ UNCHANGED <<home, gone, cached, busy>>

CacheHit(c) ==
  /\ Fresh
  /\ found' = [found EXCEPT ![c] = cached]
  /\ UNCHANGED <<home, gone, cached, age, busy>>

CacheMiss(c) ==
  /\ ~Fresh /\ busy' = [busy EXCEPT ![c] = 0]
  /\ UNCHANGED <<home, gone, cached, age, found>>

\* The calls of kubectl are over, and what they said is on its way.
Detect(c) ==
  /\ busy[c] >= 0 /\ found[c] = 0
  /\ found' = [found EXCEPT ![c] = home]
  /\ UNCHANGED <<home, gone, cached, age, busy>>

\* Whoever comes last is what is kept.
Keep(c) ==
  /\ busy[c] >= 0 /\ found[c] # 0
  /\ cached' = found[c] /\ age' = 0
  /\ busy' = [busy EXCEPT ![c] = -1]
  /\ UNCHANGED <<home, gone, found>>

\* No call of kubectl answers, or the caller is no more.
Abandon(c) ==
  /\ busy' = [busy EXCEPT ![c] = -1] /\ found' = [found EXCEPT ![c] = 0]
  /\ UNCHANGED <<home, gone, cached, age>>

\* The daemon starts without a cache, and all who asked are gone.
CacheLost ==
  /\ cached' = 0 /\ age' = 0
  /\ found' = [c \in Callers |-> 0] /\ busy' = [c \in Callers |-> -1]
  /\ UNCHANGED <<home, gone>>

Moves ==
  /\ home < MaxClusters /\ home' = home + 1 /\ gone' = 0
  /\ UNCHANGED <<cached, age, found, busy>>

CacheTick ==
  /\ \A c \in Callers : busy[c] < DetectTime
  /\ age' = (IF cached = 0 THEN 0 ELSE Later(age, CacheTtl)) /\ gone' = Later(gone, Never)
  /\ busy' = [c \in Callers |-> IF busy[c] < 0 THEN -1 ELSE busy[c] + 1]
  /\ UNCHANGED <<home, cached, found>>

\* A cluster that is gone is not given out for longer than the time of the cache
\* and one detection, whichever of two slow detections stores last.
CacheBounded ==
  Fresh /\ cached # home => gone <= age + DetectTime
=============================================================================
