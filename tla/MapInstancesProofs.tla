------------------------- MODULE MapInstancesProofs -------------------------
(***************************************************************************)
(* Theorems of MapInstances, for any number of admins, commands, names,    *)
(* arguments and counts and for any BattleGroup deployed at first:         *)
(*   - type correctness;                                                   *)
(*   - whatever races: ids stay distinct, no map loses its last partition, *)
(*     the server group follows the list, PvP is in the Deep Desert only;  *)
(*   - without a race: a count keeps the ids of the partitions that stay,  *)
(*     and names are shown where they were asked for and nowhere else.     *)
(***************************************************************************)
EXTENDS MapInstances, FiniteSetTheorems, FunctionTheorems, SequenceTheorems, TLAPS

-----------------------------------------------------------------------------
(* The order of a list of partitions. *)

LEMMA BeforeOrders ==
  ASSUME NEW p \in Partition, NEW q \in Partition, NEW r \in Partition
  PROVE  /\ ~Before(p, p)
         /\ Before(p, q) /\ Before(q, r) => Before(p, r)
         /\ p # q => Before(p, q) \/ Before(q, p)
BY DEF Before, Partition

\* How many partitions of a list come before one.
Place(S, p) == Cardinality({q \in S : Before(q, p)})

LEMMA PlaceInList ==
  ASSUME NEW S \in SUBSET Partition, IsFiniteSet(S), NEW p \in S
  PROVE  Place(S, p) \in 0..(Cardinality(S) - 1)
<1> DEFINE B == {q \in S : Before(q, p)}
<1>1. B \in SUBSET S /\ p \notin B
  BY BeforeOrders
<1>2. IsFiniteSet(B) /\ Cardinality(B) \in Nat /\ Cardinality(S) \in Nat
  BY <1>1, FS_Subset, FS_CardinalityType
<1>3. Cardinality(B) <= Cardinality(S) /\ (Cardinality(S) = Cardinality(B) => S = B)
  BY <1>1, FS_Subset
<1>4. Cardinality(B) # Cardinality(S)
  BY <1>1, <1>3
<1> QED
  BY <1>2, <1>3, <1>4 DEF Place

LEMMA PlacesOrdered ==
  ASSUME NEW S \in SUBSET Partition, IsFiniteSet(S), NEW p \in S, NEW q \in S
  PROVE  Before(p, q) <=> Place(S, p) < Place(S, q)
<1>1. ASSUME NEW x \in S, NEW y \in S, Before(x, y) PROVE Place(S, x) < Place(S, y)
  <2> DEFINE B == {z \in S : Before(z, x)}
             C == {z \in S : Before(z, y)}
  <2>1. B \in SUBSET C /\ x \in C /\ x \notin B
    BY <1>1, BeforeOrders
  <2>2. C \in SUBSET S
    OBVIOUS
  <2>3. IsFiniteSet(C) /\ IsFiniteSet(B)
    BY <2>1, <2>2, FS_Subset
  <2>4. Cardinality(B) \in Nat /\ Cardinality(C) \in Nat
    BY <2>3, FS_CardinalityType
  <2>5. Cardinality(B) <= Cardinality(C) /\ Cardinality(C) # Cardinality(B)
    BY <2>1, <2>3, FS_Subset
  <2> QED
    BY <2>4, <2>5 DEF Place
<1>2. Place(S, p) \in Nat /\ Place(S, q) \in Nat
  <2>1. Cardinality(S) \in Nat
    BY FS_CardinalityType
  <2> QED
    BY <2>1, PlaceInList
<1>3. p = q \/ Before(p, q) \/ Before(q, p)
  BY BeforeOrders
<1>4. p = q => ~Before(p, q)
  BY BeforeOrders
<1> QED
  BY <1>1, <1>2, <1>3, <1>4

\* The places of a list are the numbers below its length.
LEMMA PlacesFill ==
  ASSUME NEW S \in SUBSET Partition, IsFiniteSet(S)
  PROVE  [p \in S |-> Place(S, p)] \in Bijection(S, 0..(Cardinality(S) - 1))
<1> DEFINE n == Cardinality(S)
           f == [p \in S |-> Place(S, p)]
<1>1. n \in Nat
  BY FS_CardinalityType
<1>2. f \in [S -> 0..(n - 1)]
  BY PlaceInList
<1>3. ASSUME NEW p \in S, NEW q \in S, f[p] = f[q] PROVE p = q
  <2>1. Place(S, p) = Place(S, q) /\ Place(S, p) \in Nat
    BY <1>1, <1>3, PlaceInList
  <2>2. ~Before(p, q) /\ ~Before(q, p)
    BY <2>1, PlacesOrdered
  <2> QED
    BY <2>2, BeforeOrders
<1>4. f \in Injection(S, 0..(n - 1))
  BY <1>2, <1>3, Fun_IsInj
<1>5. IsFiniteSet(0..(n - 1)) /\ Cardinality(0..(n - 1)) = n
  BY <1>1, FS_Interval
<1>6. f \in Surjection(S, 0..(n - 1))
  BY <1>4, <1>5, FS_Injection
<1> QED
  BY <1>4, <1>6 DEF Bijection

LEMMA LowestIn ==
  ASSUME NEW S \in SUBSET Partition, IsFiniteSet(S), NEW n \in Nat
  PROVE  /\ Lowest(S, n) \in SUBSET S /\ IsFiniteSet(Lowest(S, n))
         /\ Lowest(S, n) = {p \in S : Place(S, p) < n}
         /\ Cardinality(Lowest(S, n)) = IF n <= Cardinality(S) THEN n ELSE Cardinality(S)
         /\ n >= Cardinality(S) => Lowest(S, n) = S
<1> DEFINE L == Lowest(S, n)
           f == [p \in S |-> Place(S, p)]
           g == [p \in L |-> Place(S, p)]
<1>1. L \in SUBSET S /\ L = {p \in S : Place(S, p) < n}
  BY DEF Lowest, Place
<1>2. IsFiniteSet(L) /\ Cardinality(S) \in Nat
  BY <1>1, FS_Subset, FS_CardinalityType
<1>3. n >= Cardinality(S) => L = S
  BY <1>1, <1>2, PlaceInList
<1>4. ASSUME n <= Cardinality(S) PROVE Cardinality(L) = n
  <2>1. f \in Bijection(S, 0..(Cardinality(S) - 1))
    BY PlacesFill
  <2>2. g \in [L -> 0..(n - 1)]
    BY <1>1, <1>2, PlaceInList
  <2>3. ASSUME NEW p \in L, NEW q \in L, g[p] = g[q] PROVE p = q
    <3>1. f[p] = f[q] /\ p \in S /\ q \in S
      BY <1>1, <2>3
    <3> QED
      BY <2>1, <3>1 DEF Bijection, Injection, IsInjective
  <2>4. \A i \in 0..(n - 1) : \E p \in L : g[p] = i
    <3>1. ASSUME NEW i \in 0..(n - 1) PROVE \E p \in L : g[p] = i
      <4>1. i \in 0..(Cardinality(S) - 1) /\ i < n
        BY <1>2, <1>4, <3>1
      <4>2. PICK p \in S : f[p] = i
        BY <2>1, <4>1 DEF Bijection, Surjection
      <4>3. p \in L
        BY <1>1, <4>1, <4>2
      <4> QED
        BY <4>2, <4>3
    <3> QED
      BY <3>1
  <2>5. g \in Bijection(L, 0..(n - 1))
    BY <2>2, <2>3, <2>4, Fun_IsBij
  <2>6. Cardinality(0..(n - 1)) = n
    BY FS_Interval
  <2> QED
    BY <1>2, <2>5, <2>6, FS_Bijection DEF ExistsBijection
<1> QED
  BY <1>1, <1>2, <1>3, <1>4

-----------------------------------------------------------------------------
(* The largest id, and the partitions that are added after it. *)

LEMMA LargestIn ==
  ASSUME NEW S \in SUBSET Nat, IsFiniteSet(S), S # {}
  PROVE  Largest(S) \in S /\ \A x \in S : Largest(S) >= x
<1> DEFINE Bounded(T) == T # {} => \E m \in T : \A x \in T : m >= x
           Wrong == {T \in FiniteSubsetsOf(S) : ~Bounded(T)}
<1>1. Wrong = {}
  <2> SUFFICES ASSUME Wrong # {} PROVE FALSE
    OBVIOUS
  <2>1. PICK T \in Wrong : \A U \in Wrong : ~ (<<U, T>> \in StrictSubsetOrdering(S))
    BY FS_StrictSubsetOrderingWellFounded, WFMin
  <2>2. T \in SUBSET S /\ IsFiniteSet(T) /\ ~Bounded(T)
    BY DEF FiniteSubsetsOf
  <2>3. PICK x \in T : TRUE
    BY <2>2
  <2>4. T \ {x} \in SUBSET S /\ IsFiniteSet(T \ {x})
    BY <2>2, FS_Difference
  <2>5. <<T \ {x}, T>> \in StrictSubsetOrdering(S)
    <3>1. T \ {x} \subseteq T /\ T \ {x} # T
      BY <2>3
    <3> QED
      BY <2>2, <2>4, <3>1 DEF StrictSubsetOrdering
  <2>6. Bounded(T \ {x})
    BY <2>1, <2>4, <2>5 DEF FiniteSubsetsOf
  <2>7. CASE T \ {x} = {}
    BY <2>2, <2>3, <2>7
  <2>8. CASE T \ {x} # {}
    <3>1. PICK m \in T \ {x} : \A y \in T \ {x} : m >= y
      BY <2>6, <2>8
    <3>2. x \in Nat /\ m \in Nat
      BY <2>2, <2>3
    <3>3. CASE m >= x
      BY <2>2, <3>1, <3>3
    <3>4. CASE ~(m >= x)
      <4>1. ASSUME NEW y \in T PROVE x >= y
        BY <2>2, <3>1, <3>2, <3>4
      <4> QED
        BY <2>2, <2>3, <4>1
    <3> QED
      BY <3>3, <3>4
  <2> QED
    BY <2>7, <2>8
<1>2. S \in FiniteSubsetsOf(S)
  BY DEF FiniteSubsetsOf
<1>3. \E m \in S : \A x \in S : m >= x
  BY <1>1, <1>2
<1> QED
  BY <1>3 DEF Largest

-----------------------------------------------------------------------------
(* What the constants are. *)

\* Every operation but a removal has a name to put.
Edits ==
  [op : {"add_podSpecs", "add_podSpec", "add_arguments", "add_argument",
         "replace_argument"},
   spec : Nat, argument : Nat, id : Nat, name : Names]
    \cup [op : {"remove_argument"}, spec : Nat, argument : Nat, id : Nat, name : {None}]

\* None stands for the lack of a value: it is no set, list or record.
NoneApart ==
  /\ None \notin SUBSET Nat /\ None \notin SUBSET Partition
  /\ None \notin Seq(PodSpec) /\ None \notin Seq(Names \cup Arguments)
  /\ None \notin Edits

ConstantsFit == Deployable /\ NoneApart

LEMMA MapsDiffer == Maps = {Survival, DeepDesert} /\ Survival # DeepDesert
BY DEF Maps, Survival, DeepDesert

-----------------------------------------------------------------------------
(* The desired list. *)

\* A list that Survival_1 may have beside the other maps of a BattleGroup.
Fits(b, S) ==
  /\ S \in SUBSET Partition /\ IsFiniteSet(S) /\ S # {}
  /\ \A p, q \in S : p.id = q.id \/ p.dimension = q.dimension => p = q
  /\ Ids(S) \cap (OtherIds \cup Ids(b.partitions[DeepDesert])) = {}

LEMMA NumbersUpTo ==
  ASSUME NEW n \in Int
  PROVE  IsFiniteSet(1..n) /\ Cardinality(1..n) = IF n < 1 THEN 0 ELSE n
BY FS_Interval

LEMMA IdsFinite ==
  ASSUME NEW S \in SUBSET Partition, IsFiniteSet(S)
  PROVE  Ids(S) \in SUBSET Nat /\ IsFiniteSet(Ids(S))
<1> DEFINE f == [p \in S |-> p.id]
<1>1. f \in [S -> Ids(S)] /\ \A i \in Ids(S) : \E p \in S : f[p] = i
  BY DEF Ids
<1>2. f \in Surjection(S, Ids(S))
  BY <1>1, Fun_IsSurj
<1>3. IsFiniteSet(Ids(S))
  BY <1>2, FS_Surjection
<1> QED
  BY <1>3 DEF Ids, Partition

LEMMA IdsCounted ==
  ASSUME NEW b, NEW S, Fits(b, S)
  PROVE  Cardinality(Ids(S)) = Cardinality(S)
<1> DEFINE f == [p \in S |-> p.id]
<1>1. f \in [S -> Ids(S)] /\ \A i \in Ids(S) : \E p \in S : f[p] = i
  BY DEF Ids
<1>2. \A p, q \in S : f[p] = f[q] => p = q
  BY DEF Fits
<1>3. f \in Bijection(S, Ids(S))
  BY <1>1, <1>2, Fun_IsBij
<1> QED
  BY <1>3, FS_Bijection DEF ExistsBijection, Fits

LEMMA DimensionsFinite ==
  ASSUME NEW S \in SUBSET Partition, IsFiniteSet(S)
  PROVE  {p.dimension : p \in S} \in SUBSET Nat /\ IsFiniteSet({p.dimension : p \in S})
<1> DEFINE f == [p \in S |-> p.dimension]
           T == {p.dimension : p \in S}
<1>1. f \in [S -> T] /\ \A i \in T : \E p \in S : f[p] = i
  OBVIOUS
<1>2. f \in Surjection(S, T)
  BY <1>1, Fun_IsSurj
<1>3. IsFiniteSet(T)
  BY <1>2, FS_Surjection
<1> QED
  BY <1>3 DEF Partition

\* The list that a count asks for has that many partitions, keeps the first
\* ones, and gives those it adds ids and dimensions that are not in use.
LEMMA DesiredFits ==
  ASSUME ConstantsFit, NEW b, NEW count \in Nat \ {0},
         b.partitions[DeepDesert] \in SUBSET Partition,
         IsFiniteSet(b.partitions[DeepDesert]),
         Fits(b, b.partitions[Survival])
  PROVE  LET S == b.partitions[Survival]
             D == Desired(b, Survival, count)
         IN /\ Fits(b, D) /\ Cardinality(D) = count
            /\ count <= Cardinality(S) => D = Lowest(S, count)
            /\ count >= Cardinality(S) => S \subseteq D
<1> DEFINE S == b.partitions[Survival]
           Deeps == b.partitions[DeepDesert]
           L == Lowest(S, count)
           D == Desired(b, Survival, count)
           Used == Ids(AllPartitions(b)) \cup OtherIds
           Dimensions == {p.dimension : p \in S}
           m == Largest(Used)
           d == Largest(Dimensions)
           n == count - Cardinality(S)
           new == [k \in 1..n |-> [id |-> m + k, dimension |-> d + k]]
           N == {[id |-> m + k, dimension |-> d + k] : k \in 1..n}
<1>1. S \in SUBSET Partition /\ IsFiniteSet(S) /\ S # {}
  BY DEF Fits
<1>2. AllPartitions(b) = S \cup Deeps
  BY MapsDiffer DEF AllPartitions
<1>3. Used \in SUBSET Nat /\ IsFiniteSet(Used) /\ Used # {}
  <2>1. IsFiniteSet(S \cup Deeps) /\ S \cup Deeps \in SUBSET Partition
    BY <1>1, FS_Union
  <2>2. Ids(S \cup Deeps) \in SUBSET Nat /\ IsFiniteSet(Ids(S \cup Deeps))
    BY <2>1, IdsFinite
  <2>3. Ids(S \cup Deeps) # {}
    BY <1>1 DEF Ids
  <2>4. OtherIds \in SUBSET Nat /\ IsFiniteSet(OtherIds)
    BY DEF ConstantsFit, Deployable
  <2>5. IsFiniteSet(Ids(S \cup Deeps) \cup OtherIds)
    BY <2>2, <2>4, FS_Union
  <2> QED
    BY <1>2, <2>2, <2>3, <2>4, <2>5
<1>4. m \in Nat /\ \A i \in Used : i \in Nat /\ m >= i
  BY <1>3, LargestIn
<1>5. d \in Nat /\ \A p \in S : p.dimension \in Nat /\ d >= p.dimension
  <2>1. Dimensions \in SUBSET Nat /\ IsFiniteSet(Dimensions) /\ Dimensions # {}
    BY <1>1, DimensionsFinite
  <2>2. d \in Dimensions /\ \A x \in Dimensions : d >= x
    BY <2>1, LargestIn
  <2> QED
    BY <2>1, <2>2
<1>6. D = L \cup N
  <2>1. \A k \in 1..n : NextFreeId(b, k) = m + k /\ NextDimension(b, Survival, k) = d + k
    BY MapsDiffer DEF NextFreeId, NextDimension
  <2> HIDE DEF m, d
  <2> QED
    BY <2>1 DEF Desired
<1> HIDE DEF m, d
<1>7. /\ L \in SUBSET S /\ IsFiniteSet(L)
      /\ Cardinality(L) = IF count <= Cardinality(S) THEN count ELSE Cardinality(S)
      /\ count >= Cardinality(S) => L = S
  BY <1>1, LowestIn
<1>8. Cardinality(S) \in Nat /\ n \in Int
  BY <1>1, FS_CardinalityType
<1>9. new \in Bijection(1..n, N)
  <2>1. new \in [1..n -> N] /\ \A p \in N : \E k \in 1..n : new[k] = p
    OBVIOUS
  <2>2. ASSUME NEW k \in 1..n, NEW l \in 1..n, new[k] = new[l] PROVE k = l
    <3>1. new[k].id = m + k /\ new[l].id = m + l
      OBVIOUS
    <3> QED
      BY <1>4, <1>8, <2>2, <3>1
  <2> QED
    BY <2>1, <2>2, Fun_IsBij
<1>10. IsFiniteSet(N) /\ Cardinality(N) = IF n < 1 THEN 0 ELSE n
  <2>1. IsFiniteSet(1..n) /\ Cardinality(1..n) = IF n < 1 THEN 0 ELSE n
    BY <1>8, NumbersUpTo
  <2> QED
    BY <1>8, <1>9, <2>1, FS_Bijection DEF ExistsBijection
<1>11. \A p \in N : \E k \in 1..n : p = [id |-> m + k, dimension |-> d + k]
  OBVIOUS
<1>12. ASSUME NEW p \in N
       PROVE  /\ p \in Partition /\ p.id > m /\ p.dimension > d
              /\ \A q \in N : p.id = q.id \/ p.dimension = q.dimension => p = q
  <2>1. PICK k \in 1..n : p = [id |-> m + k, dimension |-> d + k]
    BY <1>11
  <2>2. ASSUME NEW q \in N, p.id = q.id \/ p.dimension = q.dimension PROVE p = q
    <3>1. PICK l \in 1..n : q = [id |-> m + l, dimension |-> d + l]
      BY <1>11
    <3> QED
      BY <1>4, <1>5, <1>8, <2>1, <2>2, <3>1
  <2> QED
    BY <1>4, <1>5, <1>8, <2>1, <2>2 DEF Partition
<1>13. \A p \in S \cup Deeps : p.id \in Nat /\ p.id <= m
  BY <1>2, <1>4 DEF Ids
<1>14. Fits(b, D)
  <2>1. D \in SUBSET Partition
    BY <1>1, <1>6, <1>7, <1>12
  <2>2. IsFiniteSet(D)
    <3> HIDE DEF L, N, D
    <3> QED
      BY <1>6, <1>7, <1>10, FS_Union
  <2>3. D # {}
    <3>1. Cardinality(L) # 0
      <4>1. Cardinality(S) # 0
        BY <1>1, FS_EmptySet
      <4> QED
        BY <1>7, <4>1
    <3> QED
      BY <1>6, <3>1, FS_EmptySet
  <2>4. ASSUME NEW p \in D, NEW q \in D, p.id = q.id \/ p.dimension = q.dimension
        PROVE  p = q
    <3>1. CASE p \in L /\ q \in L
      BY <1>7, <2>4, <3>1 DEF Fits
    <3>2. CASE p \in N /\ q \in N
      BY <1>12, <2>4, <3>2
    <3>3. CASE p \in N /\ q \in L
      BY <1>4, <1>5, <1>7, <1>12, <1>13, <2>1, <2>4, <3>3 DEF Partition
    <3>4. CASE p \in L /\ q \in N
      BY <1>4, <1>5, <1>7, <1>12, <1>13, <2>1, <2>4, <3>4 DEF Partition
    <3> QED
      BY <1>6, <3>1, <3>2, <3>3, <3>4
  <2>5. Ids(D) \cap (OtherIds \cup Ids(Deeps)) = {}
    <3>1. ASSUME NEW p \in N PROVE p.id \notin OtherIds /\ p.id \notin Ids(Deeps)
      <4>1. p.id \in Nat /\ p.id > m
        BY <1>12 DEF Partition
      <4>2. \A i \in OtherIds \cup Ids(Deeps) : i \in Nat /\ m >= i
        BY <1>2, <1>4 DEF Ids
      <4> QED
        BY <1>4, <4>1, <4>2
    <3>2. ASSUME NEW p \in L PROVE p.id \notin OtherIds /\ p.id \notin Ids(Deeps)
      BY <1>7 DEF Fits, Ids
    <3> QED
      BY <1>6, <3>1, <3>2 DEF Ids
  <2> QED
    BY <2>1, <2>2, <2>3, <2>4, <2>5 DEF Fits
<1>15. Cardinality(D) = count
  <2>1. L \cap N = {}
    <3>1. ASSUME NEW p \in L, p \in N PROVE FALSE
      BY <1>4, <1>7, <1>12, <1>13, <3>1
    <3> QED
      BY <3>1
  <2>2. Cardinality(L \cap N) = 0
    BY <2>1, FS_EmptySet
  <2>3. Cardinality(D) = Cardinality(L) + Cardinality(N) - Cardinality(L \cap N)
    BY <1>6, <1>7, <1>10, FS_Union
  <2> QED
    BY <1>7, <1>8, <1>10, <2>2, <2>3
<1>16. count <= Cardinality(S) => D = L
  <2>1. count <= Cardinality(S) => 1..n = {}
    BY <1>8
  <2> QED
    BY <1>6, <2>1
<1> QED
  BY <1>6, <1>7, <1>14, <1>15, <1>16

-----------------------------------------------------------------------------
(* The invariants. *)

\* What each admin's command may hold.
Patches ==
  [map : Maps, partitions : {None} \cup SUBSET Partition, replicas : {None} \cup Nat,
   setPartitions : {None} \cup SUBSET Nat, edit : {None} \cup Edits]
Jobs ==
  {Idle}
    \cup [step : {"patch"}, patch : Patches, ids : {None} \cup SUBSET Nat,
          current : BOOLEAN]
    \cup [step : Files, ids : SUBSET Nat]
Sends(admin) == job[admin].step = "patch"

TypeInv ==
  /\ bg.partitions \in [Maps -> SUBSET Partition] /\ bg.ordered \in [Maps -> BOOLEAN]
  /\ bg.replicas \in {None} \cup Nat /\ bg.setPartitions \in {None} \cup SUBSET Nat
  /\ bg.podSpecs \in [Maps -> {None} \cup Seq(PodSpec)]
  /\ pvp \in [Files -> SUBSET Nat] /\ job \in [Admins -> Jobs]
  /\ commands \in 0..MaxCommands /\ managed \in BOOLEAN /\ raced \in BOOLEAN

\* The one instance that a command leaves of DeepDesert_1: every command about
\* it leaves the same.
Deep == Lowest(deployed.partitions[DeepDesert], 1)

\* A list under way fits the map it is for; only a count changes the list, and
\* only that of Survival_1 the server group.
Listed(patch) ==
  /\ patch.partitions # None =>
       IF patch.map = Survival THEN Fits(bg, patch.partitions) ELSE patch.partitions = Deep
  /\ patch.map = DeepDesert \/ patch.edit # None =>
       patch.replicas = None /\ patch.setPartitions = None
  /\ patch.edit # None => patch.partitions = None

\* Lists that were read beside a larger DeepDesert_1 still fit a smaller one, so
\* every list under way fits what it will find.
ListsInv ==
  /\ deployed \in Resources
  /\ bg.partitions[DeepDesert] \in {deployed.partitions[DeepDesert], Deep}
  /\ Fits(bg, bg.partitions[Survival])
  /\ \A admin \in Admins : Sends(admin) => Listed(job[admin].patch)

\* PvP is enabled, and about to be enabled, on the one that is left.
PvpInv ==
  /\ \A file \in Files : pvp[file] \subseteq Ids(Deep)
  /\ \A admin \in Admins : job[admin].step # "idle" =>
       job[admin].ids \in {None} \cup SUBSET Ids(Deep)

\* What some command would compute now.
Computed(patch) ==
  \/ \E count \in 1..MaxCount : patch = InstancesPatch(bg, Survival, count)
  \/ patch = InstancesPatch(bg, DeepDesert, 1)
  \/ \E map \in Maps, id \in Nat, name \in {None} \cup Names :
       patch = NamePatch(bg, map, id, name)

\* A patch that is current is what its command would compute now.
CurrentInv ==
  \A admin \in Admins : Sends(admin) =>
    /\ ~EmptyPatch(job[admin].patch)
    /\ job[admin].current => Computed(job[admin].patch)

\* A change of the list with the whole of what the server group has to become.
Whole(patch) ==
  patch.map = Survival /\ patch.edit = None =>
    /\ patch.partitions # None
    /\ patch.replicas = Cardinality(patch.partitions)
    /\ patch.setPartitions = Ids(patch.partitions)

\* Where the server group followed the list at first, every change is whole.
SetsInv ==
  /\ Matches(deployed) =>
       Matches(bg) /\ \A admin \in Admins : Sends(admin) => Whole(job[admin].patch)
  /\ managed /\ ~raced => Matches(bg)

InstancesInv == TypeInv /\ ListsInv /\ PvpInv /\ CurrentInv /\ SetsInv

-----------------------------------------------------------------------------
(* The first position that fits. *)

LEMMA LeastIn ==
  ASSUME NEW S \in SUBSET Nat, S # {}
  PROVE  Min(S) \in S /\ \A y \in S : Min(S) <= y
<1>1. PICK x \in S : \A y \in S : ~ (<<y, x>> \in OpToRel(<, Nat))
  BY NatLessThanWellFounded, WFMin
<1>2. \A y \in S : x <= y
  <2>1. ASSUME NEW y \in S, y < x PROVE FALSE
    BY <1>1, <2>1 DEF OpToRel
  <2> QED
    BY <2>1
<1> QED
  BY <1>2 DEF Min

LEMMA SpecFound ==
  ASSUME ConstantsFit, NEW specs \in Seq(PodSpec), NEW id
  PROVE  \/ /\ SpecAt(specs, id) = 0
            /\ \A j \in 1..Len(specs) : specs[j].index # id
         \/ /\ SpecAt(specs, id) \in 1..Len(specs)
            /\ specs[SpecAt(specs, id)].index = id
            /\ \A j \in 1..Len(specs) : specs[j].index = id => SpecAt(specs, id) <= j
<1> DEFINE I == {j \in 1..Len(specs) : specs[j].index = id}
<1>1. specs # None
  BY DEF ConstantsFit, NoneApart
<1>2. SpecAt(specs, id) = IF I # {} THEN Min(I) ELSE 0
  BY <1>1 DEF SpecAt, SelectInSeq
<1>3. I \in SUBSET Nat
  OBVIOUS
<1>4. CASE I # {}
  <2>1. Min(I) \in I /\ \A y \in I : Min(I) <= y
    BY <1>3, <1>4, LeastIn
  <2> QED
    BY <1>2, <1>4, <2>1
<1>5. CASE I = {}
  BY <1>2, <1>5
<1> QED
  BY <1>4, <1>5

LEMMA NameFound ==
  ASSUME ConstantsFit, NEW arguments \in Seq(Names \cup Arguments)
  PROVE  \/ /\ NameAt(arguments) = 0
            /\ \A j \in 1..Len(arguments) : arguments[j] \notin Names
         \/ /\ NameAt(arguments) \in 1..Len(arguments)
            /\ arguments[NameAt(arguments)] \in Names
<1> DEFINE I == {j \in 1..Len(arguments) : arguments[j] \in Names}
<1>1. arguments # None
  BY DEF ConstantsFit, NoneApart
<1>2. NameAt(arguments) = IF I # {} THEN Min(I) ELSE 0
  BY <1>1 DEF NameAt, SelectInSeq
<1>3. I \in SUBSET Nat
  OBVIOUS
<1>4. CASE I # {}
  <2>1. Min(I) \in I
    BY <1>3, <1>4, LeastIn
  <2> QED
    BY <1>2, <1>4, <2>1
<1>5. CASE I = {}
  BY <1>2, <1>5
<1> QED
  BY <1>4, <1>5

LEMMA ArgumentsFound ==
  ASSUME ConstantsFit, NEW specs \in {None} \cup Seq(PodSpec), NEW id
  PROVE  /\ SpecAt(specs, id) \in Nat
         /\ specs = None => SpecAt(specs, id) = 0
         /\ SpecAt(specs, id) = 0 => ArgumentsOf(specs, id) = None
         /\ ArgumentsOf(specs, id) \in {None} \cup Seq(Names \cup Arguments)
         /\ NameAt(ArgumentsOf(specs, id)) \in Nat
         /\ ArgumentsOf(specs, id) = None => NameAt(ArgumentsOf(specs, id)) = 0
         /\ NameShown(specs, id) \in {None} \cup Names
         /\ NameShown(specs, id) # None <=> NameAt(ArgumentsOf(specs, id)) # 0
<1>1. specs = None => SpecAt(specs, id) = 0
  BY DEF SpecAt
<1>2. SpecAt(specs, id) \in Nat
        /\ (SpecAt(specs, id) # 0 => SpecAt(specs, id) \in 1..Len(specs))
  BY <1>1, SpecFound
<1>3. ArgumentsOf(specs, id) \in {None} \cup Seq(Names \cup Arguments)
  <2>1. CASE SpecAt(specs, id) = 0
    BY <2>1 DEF ArgumentsOf
  <2>2. CASE SpecAt(specs, id) # 0
    <3>1. specs[SpecAt(specs, id)] \in PodSpec
      BY <1>1, <1>2, <2>2, ElementOfSeq
    <3> QED
      BY <2>2, <3>1 DEF ArgumentsOf, PodSpec
  <2> QED
    BY <2>1, <2>2
<1>4. ArgumentsOf(specs, id) = None => NameAt(ArgumentsOf(specs, id)) = 0
  BY DEF NameAt
<1>5. /\ NameAt(ArgumentsOf(specs, id)) \in Nat
      /\ NameAt(ArgumentsOf(specs, id)) # 0 =>
           ArgumentsOf(specs, id)[NameAt(ArgumentsOf(specs, id))] \in Names
  BY <1>3, <1>4, NameFound
<1>6. None \notin Names
  BY DEF ConstantsFit, Deployable
<1> QED
  BY <1>1, <1>2, <1>3, <1>4, <1>5, <1>6 DEF NameShown, ArgumentsOf

LEMMA NameEditTyped ==
  ASSUME ConstantsFit, NEW specs \in {None} \cup Seq(PodSpec), NEW id \in Nat,
         NEW name \in {None} \cup Names
  PROVE  NameEdit(specs, id, name) \in {None} \cup Edits
<1> DEFINE arguments == ArgumentsOf(specs, id)
<1>1. /\ SpecAt(specs, id) \in Nat
      /\ SpecAt(specs, id) = 0 => arguments = None
      /\ NameAt(arguments) \in Nat
      /\ arguments = None => NameAt(arguments) = 0
      /\ NameShown(specs, id) # None <=> NameAt(arguments) # 0
      /\ specs = None => SpecAt(specs, id) = 0
  BY ArgumentsFound
<1> HIDE DEF arguments
<1>2. ASSUME name # NameShown(specs, id) PROVE NameEdit(specs, id, name) \in Edits
  <2>1. NameAt(arguments) = 0 => name \in Names
    BY <1>1, <1>2
  <2> QED
    BY <1>1, <1>2, <2>1 DEF NameEdit, Edits, arguments
<1>3. name = NameShown(specs, id) => NameEdit(specs, id, name) = None
  BY DEF NameEdit
<1> QED
  BY <1>2, <1>3

-----------------------------------------------------------------------------
(* What an operation makes of the pod specs. *)

LEMMA Removed ==
  ASSUME NEW S, NEW s \in Seq(S), NEW k \in 1..Len(s)
  PROVE  /\ RemoveAt(s, k) \in Seq(S) /\ Len(RemoveAt(s, k)) = Len(s) - 1
         /\ \A j \in 1..(Len(s) - 1) : RemoveAt(s, k)[j] = IF j < k THEN s[j] ELSE s[j + 1]
<1> DEFINE before == SubSeq(s, 1, k - 1)
           after == SubSeq(s, k + 1, Len(s))
<1>1. Len(s) \in Nat
  BY LenProperties
<1>2. /\ before \in Seq(S) /\ Len(before) = k - 1
      /\ \A j \in 1..(k - 1) : before[j] = s[j]
  <2>1. /\ SubSeq(s, 1, k - 1) \in Seq(S)
        /\ Len(SubSeq(s, 1, k - 1)) = IF 1 <= k - 1 THEN k - 1 - 1 + 1 ELSE 0
        /\ \A j \in 1..(k - 1 - 1 + 1) : SubSeq(s, 1, k - 1)[j] = s[1 + j - 1]
    BY <1>1, ElementOfSeq, SubSeqProperties
  <2> QED
    BY <1>1, <2>1
<1>3. /\ after \in Seq(S) /\ Len(after) = Len(s) - k
      /\ \A j \in 1..(Len(s) - k) : after[j] = s[k + j]
  <2>1. /\ SubSeq(s, k + 1, Len(s)) \in Seq(S)
        /\ Len(SubSeq(s, k + 1, Len(s))) =
             IF k + 1 <= Len(s) THEN Len(s) - (k + 1) + 1 ELSE 0
        /\ \A j \in 1..(Len(s) - (k + 1) + 1) :
             SubSeq(s, k + 1, Len(s))[j] = s[(k + 1) + j - 1]
    BY <1>1, ElementOfSeq, SubSeqProperties
  <2> QED
    BY <1>1, <2>1
<1> HIDE DEF before, after
<1>4. /\ before \o after \in Seq(S) /\ Len(before \o after) = Len(before) + Len(after)
      /\ \A j \in 1..(Len(before) + Len(after)) :
           (before \o after)[j] =
             IF j <= Len(before) THEN before[j] ELSE after[j - Len(before)]
  BY <1>2, <1>3, ConcatProperties
<1>5. RemoveAt(s, k) = before \o after
  BY DEF RemoveAt, before, after
<1>6. ASSUME NEW j \in 1..(Len(s) - 1)
      PROVE  RemoveAt(s, k)[j] = IF j < k THEN s[j] ELSE s[j + 1]
  <2>1. j \in 1..(Len(before) + Len(after))
    BY <1>1, <1>2, <1>3
  <2>2. CASE j < k
    BY <1>1, <1>2, <1>4, <1>5, <2>1, <2>2
  <2>3. CASE ~(j < k)
    <3>1. j - (k - 1) \in 1..(Len(s) - k)
      BY <1>1, <2>3
    <3>2. after[j - (k - 1)] = s[k + (j - (k - 1))]
      BY <1>3, <3>1
    <3>3. k + (j - (k - 1)) = j + 1
      OBVIOUS
    <3> QED
      BY <1>1, <1>2, <1>4, <1>5, <2>1, <2>3, <3>2, <3>3
  <2> QED
    BY <2>2, <2>3
<1>7. RemoveAt(s, k) \in Seq(S) /\ Len(RemoveAt(s, k)) = Len(s) - 1
  <2>1. Len(before) + Len(after) = Len(s) - 1
    BY <1>1, <1>2, <1>3
  <2> QED
    BY <1>4, <1>5, <2>1, Zenon
<1> QED
  BY <1>6, <1>7, Zenon

NewArguments(arguments, edit) ==
  CASE edit.op = "add_arguments" -> <<edit.name>>
    [] edit.op = "add_argument" -> Append(arguments, edit.name)
    [] edit.op = "remove_argument" -> RemoveAt(arguments, edit.argument)
    [] edit.op = "replace_argument" -> [arguments EXCEPT ![edit.argument] = edit.name]

Adds(edit) == edit.op \in {"add_podSpecs", "add_podSpec"}

\* An operation that is accepted adds a pod spec or rewrites the arguments of
\* one, and leaves a list of pod specs.
LEMMA Edited ==
  ASSUME ConstantsFit, NEW b, NEW patch \in Patches, patch.edit # None,
         b.podSpecs[patch.map] \in {None} \cup Seq(PodSpec), Accepts(b, patch)
  PROVE  LET specs == b.podSpecs[patch.map]
             edit == patch.edit
             new == EditedSpecs(specs, edit)
             i == edit.spec
             fresh == [index |-> edit.id, arguments |-> <<edit.name>>]
         IN /\ edit \in Edits /\ new \in Seq(PodSpec)
            /\ edit.op = "add_podSpecs" => new = <<fresh>>
            /\ edit.op = "add_podSpec" => specs \in Seq(PodSpec) /\ new = Append(specs, fresh)
            /\ Adds(edit) => fresh \in PodSpec
            /\ ~Adds(edit) =>
                 /\ specs \in Seq(PodSpec) /\ i \in 1..Len(specs) /\ Len(new) = Len(specs)
                 /\ \A j \in 1..Len(specs) : j # i => new[j] = specs[j]
                 /\ new[i].index = specs[i].index
                 /\ new[i].arguments = NewArguments(specs[i].arguments, edit)
<1> DEFINE specs == b.podSpecs[patch.map]
           edit == patch.edit
           i == edit.spec
           k == edit.argument
           fresh == [index |-> edit.id, arguments |-> <<edit.name>>]
           A == Names \cup Arguments
           args == specs[i].arguments
           new == EditedSpecs(specs, edit)
           put == [specs[i] EXCEPT !.arguments = NewArguments(args, edit)]
<1>1. edit \in Edits
  BY DEF Patches
<1>2. /\ edit.op # "add_podSpecs" => specs # None
      /\ edit.op \notin {"add_podSpecs", "add_podSpec"} => i \in DOMAIN specs
      /\ edit.op \in {"add_argument", "remove_argument", "replace_argument"} => args # None
      /\ edit.op \in {"remove_argument", "replace_argument"} => k \in DOMAIN args
  BY DEF Accepts
<1>3. Adds(edit) => edit.id \in Nat /\ edit.name \in Names /\ fresh \in PodSpec
  <2>1. Adds(edit) => edit.id \in Nat /\ edit.name \in Names
    BY <1>1 DEF Edits, Adds
  <2>2. edit.name \in Names => <<edit.name>> \in Seq(A)
    OBVIOUS
  <2> QED
    BY <2>1, <2>2 DEF PodSpec
<1>4. CASE edit.op = "add_podSpecs"
  <2>1. new = <<fresh>>
    BY <1>4 DEF EditedSpecs
  <2>2. new \in Seq(PodSpec)
    BY <1>3, <1>4, <2>1 DEF Adds
  <2> QED
    BY <1>1, <1>3, <1>4, <2>1, <2>2 DEF Adds
<1>5. CASE edit.op = "add_podSpec"
  <2>1. new = Append(specs, fresh) /\ specs \in Seq(PodSpec)
    BY <1>2, <1>5 DEF EditedSpecs
  <2>2. new \in Seq(PodSpec)
    <3> HIDE DEF fresh, new, specs
    <3> QED
      BY <1>3, <1>5, <2>1 DEF Adds
  <2> QED
    BY <1>1, <1>3, <1>5, <2>1, <2>2 DEF Adds
<1>6. CASE ~Adds(edit)
  <2>1. /\ specs \in Seq(PodSpec) /\ DOMAIN specs = 1..Len(specs)
        /\ i \in 1..Len(specs) /\ specs[i] \in PodSpec
    <3>1. specs \in Seq(PodSpec) /\ i \in DOMAIN specs
      BY <1>2, <1>6 DEF Adds
    <3> QED
      BY <3>1, LenProperties, ElementOfSeq
  <2>2. args \in {None} \cup Seq(A)
    BY <2>1 DEF PodSpec
  <2>3. NewArguments(args, edit) \in Seq(A)
    <3>1. CASE edit.op = "add_arguments"
      <4>1. edit.name \in A
        BY <1>1, <3>1 DEF Edits
      <4> QED
        BY <3>1, <4>1 DEF NewArguments
    <3>2. CASE edit.op = "add_argument"
      <4>1. edit.name \in A /\ args \in Seq(A)
        BY <1>1, <1>2, <2>2, <3>2 DEF Edits
      <4>2. Append(args, edit.name) \in Seq(A)
        <5> HIDE DEF args, edit, A
        <5> QED
          BY <4>1
      <4> QED
        BY <3>2, <4>2 DEF NewArguments
    <3>3. CASE edit.op = "remove_argument"
      <4>1. args \in Seq(A) /\ k \in 1..Len(args)
        BY <1>2, <2>2, <3>3, LenProperties
      <4>2. RemoveAt(args, k) \in Seq(A)
        BY <4>1, Removed
      <4> QED
        BY <3>3, <4>2 DEF NewArguments
    <3>4. CASE edit.op = "replace_argument"
      <4>1. args \in Seq(A) /\ k \in 1..Len(args)
        BY <1>2, <2>2, <3>4, LenProperties
      <4>2. edit.name \in A
        BY <1>1, <3>4 DEF Edits
      <4>3. [args EXCEPT ![k] = edit.name] \in Seq(A)
        BY <4>1, <4>2, ExceptSeq
      <4> QED
        BY <3>4, <4>3 DEF NewArguments
    <3> QED
      BY <1>1, <1>6, <3>1, <3>2, <3>3, <3>4 DEF Adds, Edits
  <2>4. put \in PodSpec /\ put.index = specs[i].index /\ put.arguments = NewArguments(args, edit)
    <3> HIDE DEF specs, edit, args
    <3> QED
      BY <2>1, <2>3 DEF PodSpec, args
  <2>5. new = [specs EXCEPT ![i] = put]
    <3> HIDE DEF specs
    <3>1. CASE edit.op = "add_arguments"
      BY <3>1 DEF EditedSpecs, NewArguments
    <3>2. CASE edit.op = "add_argument"
      BY <3>2 DEF EditedSpecs, NewArguments
    <3>3. CASE edit.op = "remove_argument"
      BY <3>3 DEF EditedSpecs, NewArguments
    <3>4. CASE edit.op = "replace_argument"
      BY <3>4 DEF EditedSpecs, NewArguments
    <3> QED
      BY <1>1, <1>6, <3>1, <3>2, <3>3, <3>4 DEF Adds, Edits
  <2>6. /\ new \in Seq(PodSpec) /\ Len(new) = Len(specs)
        /\ \A j \in 1..Len(specs) : new[j] = IF j = i THEN put ELSE specs[j]
    <3> HIDE DEF specs, put, new, i
    <3> QED
      BY <2>1, <2>4, <2>5, ExceptSeq
  <2> QED
    BY <1>1, <1>6, <2>1, <2>4, <2>6 DEF Adds
<1> QED
  BY <1>1, <1>4, <1>5, <1>6 DEF Adds

-----------------------------------------------------------------------------
(* What the commands compute. *)

LEMMA DeepFits ==
  ASSUME ConstantsFit, deployed \in Resources
  PROVE  LET first == deployed.partitions[DeepDesert]
         IN /\ first \in SUBSET Partition /\ IsFiniteSet(first)
            /\ Deep \in SUBSET first /\ IsFiniteSet(Deep) /\ Cardinality(Deep) = 1
            /\ Cardinality(first) \in Nat /\ Cardinality(first) >= 1
            /\ Lowest(Deep, 1) = Deep
            /\ \A p, q \in first : p.id = q.id => p = q
            /\ Ids(first) \cap OtherIds = {}
            /\ Fits(deployed, deployed.partitions[Survival])
<1> DEFINE first == deployed.partitions[DeepDesert]
           others == deployed.partitions[Survival]
<1>1. /\ deployed.partitions \in [Maps -> SUBSET Partition]
      /\ \A map \in Maps : IsFiniteSet(deployed.partitions[map])
      /\ Distinct(deployed)
  BY DEF ConstantsFit, Deployable
<1>2. AllPartitions(deployed) = others \cup first
  BY MapsDiffer DEF AllPartitions
<1>3. first \in SUBSET Partition /\ IsFiniteSet(first) /\ first # {}
  BY <1>1, MapsDiffer DEF Distinct
<1>4. \A p, q \in first : p.id = q.id => p = q
  BY <1>1, <1>2 DEF Distinct
<1>5. Ids(first) \cap OtherIds = {}
  BY <1>1, <1>2 DEF Distinct, Ids
<1>6. Cardinality(first) \in Nat /\ Cardinality(first) # 0
  BY <1>3, FS_EmptySet, FS_CardinalityType
<1>7. Deep \in SUBSET first /\ IsFiniteSet(Deep) /\ Cardinality(Deep) = 1
  BY <1>3, <1>6, LowestIn DEF Deep
<1>8. Lowest(Deep, 1) = Deep
  <2>1. Deep \in SUBSET Partition
    BY <1>3, <1>7
  <2> QED
    BY <1>7, <2>1, LowestIn
<1>9. Fits(deployed, others)
  <2>1. others \in SUBSET Partition /\ IsFiniteSet(others) /\ others # {}
    BY <1>1, MapsDiffer DEF Distinct
  <2>2. \A p, q \in others : p.id = q.id \/ p.dimension = q.dimension => p = q
    BY <1>1, <1>2 DEF Distinct
  <2>3. Ids(others) \cap (OtherIds \cup Ids(first)) = {}
    BY <1>1, <1>2 DEF Distinct, Ids
  <2> QED
    BY <2>1, <2>2, <2>3 DEF Fits
<1> QED
  BY <1>3, <1>4, <1>5, <1>6, <1>7, <1>8, <1>9

\* A smaller DeepDesert_1 takes nothing from a list that fits.
LEMMA FitsSmaller ==
  ASSUME NEW b, NEW c, NEW S, Fits(b, S),
         c.partitions[DeepDesert] \subseteq b.partitions[DeepDesert]
  PROVE  Fits(c, S)
BY DEF Fits, Ids

LEMMA DesiredDeep ==
  ASSUME ConstantsFit, ListsInv
  PROVE  Desired(bg, DeepDesert, 1) = Deep
<1> DEFINE S == bg.partitions[DeepDesert]
           n == 1 - Cardinality(S)
<1>1. S \in {deployed.partitions[DeepDesert], Deep} /\ deployed \in Resources
  BY DEF ListsInv
<1>2. Cardinality(S) \in Nat /\ Cardinality(S) >= 1 /\ Lowest(S, 1) = Deep
  BY <1>1, DeepFits DEF Deep
<1>3. 1..n = {}
  BY <1>2
<1> HIDE DEF n
<1>4. Desired(bg, DeepDesert, 1) =
        Lowest(S, 1) \cup
          {[id |-> NextFreeId(bg, k), dimension |-> NextDimension(bg, DeepDesert, k)] :
             k \in 1..n}
  BY DEF Desired, n
<1> QED
  BY <1>2, <1>3, <1>4

\* What a count of Survival_1 sends: a list that fits, and of the server group
\* what does not follow that list yet.
LEMMA SurvivalPatch ==
  ASSUME ConstantsFit, TypeInv, ListsInv, NEW count \in 1..MaxCount
  PROVE  LET patch == InstancesPatch(bg, Survival, count)
             D == Desired(bg, Survival, count)
             S == bg.partitions[Survival]
         IN /\ patch \in Patches /\ patch.map = Survival /\ patch.edit = None
            /\ patch.partitions \in {None, D} /\ Fits(bg, D)
            /\ patch.partitions = None <=> (D = S /\ bg.ordered[Survival])
            /\ patch.replicas \in {None, count} /\ patch.setPartitions \in {None, Ids(D)}
            /\ patch.replicas = None <=> bg.replicas = count
            /\ patch.setPartitions = None <=> bg.setPartitions = Ids(D)
            /\ Cardinality(D) = count
            /\ count <= Cardinality(S) => D = Lowest(S, count)
            /\ count >= Cardinality(S) => S \subseteq D
<1> DEFINE patch == InstancesPatch(bg, Survival, count)
           D == Desired(bg, Survival, count)
           S == bg.partitions[Survival]
<1>1. count \in Nat \ {0}
  BY DEF ConstantsFit, Deployable
<1>2. bg.partitions[DeepDesert] \in SUBSET Partition /\ IsFiniteSet(bg.partitions[DeepDesert])
  BY DeepFits, FS_Subset DEF ListsInv
<1>3. Fits(bg, S)
  BY DEF ListsInv
<1>4. /\ Fits(bg, D) /\ Cardinality(D) = count
      /\ count <= Cardinality(S) => D = Lowest(S, count)
      /\ count >= Cardinality(S) => S \subseteq D
  BY <1>1, <1>2, <1>3, DesiredFits
<1>5. D \in SUBSET Partition /\ Ids(D) \in SUBSET Nat
  BY <1>4, IdsFinite DEF Fits
<1>6. None \notin Nat /\ None # D /\ None # Ids(D)
  BY <1>5 DEF ConstantsFit, Deployable, NoneApart
<1> HIDE DEF D
<1>7. patch =
        [map |-> Survival,
         partitions |-> IF D = S /\ bg.ordered[Survival] THEN None ELSE D,
         replicas |-> IF bg.replicas = count THEN None ELSE count,
         setPartitions |-> IF bg.setPartitions = Ids(D) THEN None ELSE Ids(D),
         edit |-> None]
  BY DEF InstancesPatch, D
<1>8. patch \in Patches
  BY <1>1, <1>5, <1>7, MapsDiffer DEF Patches
<1> HIDE DEF patch
<1> QED
  BY <1>1, <1>4, <1>6, <1>7, <1>8 DEF patch, D

LEMMA DeepPatch ==
  ASSUME ConstantsFit, ListsInv
  PROVE  LET patch == InstancesPatch(bg, DeepDesert, 1)
         IN /\ patch \in Patches /\ patch.map = DeepDesert /\ patch.edit = None
            /\ patch.partitions \in {None, Deep}
            /\ patch.replicas = None /\ patch.setPartitions = None
<1>1. Desired(bg, DeepDesert, 1) = Deep
  BY DesiredDeep
<1>2. InstancesPatch(bg, DeepDesert, 1) =
        [map |-> DeepDesert,
         partitions |-> IF Deep = bg.partitions[DeepDesert] /\ bg.ordered[DeepDesert]
                        THEN None ELSE Deep,
         replicas |-> None, setPartitions |-> None, edit |-> None]
  BY <1>1, MapsDiffer DEF InstancesPatch
<1>3. Deep \in SUBSET Partition
  BY DeepFits DEF ListsInv
<1> QED
  BY <1>2, <1>3, MapsDiffer DEF Patches

LEMMA NamePatchTyped ==
  ASSUME ConstantsFit, TypeInv, NEW map \in Maps, NEW id \in Nat,
         NEW name \in {None} \cup Names
  PROVE  LET patch == NamePatch(bg, map, id, name)
         IN /\ patch \in Patches /\ patch.map = map
            /\ patch.edit = NameEdit(bg.podSpecs[map], id, name)
            /\ patch.partitions = None /\ patch.replicas = None
            /\ patch.setPartitions = None
<1>1. NameEdit(bg.podSpecs[map], id, name) \in {None} \cup Edits
  BY NameEditTyped DEF TypeInv
<1> QED
  BY <1>1 DEF NamePatch, Patches

-----------------------------------------------------------------------------
(* Every action preserves the invariant. *)

LEMMA InvInitially ==
  ASSUME ConstantsFit, Init
  PROVE  InstancesInv
<1>1. bg \in Resources /\ deployed = bg /\ job = [admin \in Admins |-> Idle]
  BY DEF Init
<1>2. \A admin \in Admins : job[admin].step = "idle"
  BY <1>1 DEF Idle
<1>3. TypeInv
  <2>1. /\ bg.partitions \in [Maps -> SUBSET Partition] /\ bg.ordered \in [Maps -> BOOLEAN]
        /\ bg.replicas \in {None} \cup Nat /\ bg.setPartitions \in {None} \cup SUBSET Nat
        /\ bg.podSpecs \in [Maps -> {None} \cup Seq(PodSpec)]
    BY <1>1 DEF ConstantsFit, Deployable
  <2>2. job \in [Admins -> Jobs] /\ pvp \in [Files -> SUBSET Nat]
    BY <1>1 DEF Init, Jobs
  <2>3. commands \in 0..MaxCommands
    BY DEF Init, ConstantsFit, Deployable
  <2> QED
    BY <2>1, <2>2, <2>3 DEF Init, TypeInv
<1>4. ListsInv
  BY <1>1, <1>2, DeepFits DEF ListsInv, Sends
<1>5. PvpInv
  BY <1>2 DEF Init, PvpInv
<1>6. CurrentInv
  BY <1>2 DEF CurrentInv, Sends
<1>7. SetsInv
  BY <1>1, <1>2 DEF SetsInv, Sends, Init
<1> QED
  BY <1>3, <1>4, <1>5, <1>6, <1>7 DEF InstancesInv

LEMMA IdsOfDeep ==
  ASSUME ConstantsFit, ListsInv
  PROVE  Ids(Deep) \in SUBSET Nat
<1>1. Deep \in SUBSET Partition
  BY DeepFits DEF ListsInv
<1> QED
  BY <1>1 DEF Ids, Partition

LEMMA AfterPatchTyped ==
  ASSUME ConstantsFit, ListsInv, NEW ids \in {None} \cup SUBSET Ids(Deep)
  PROVE  /\ AfterPatch(ids) \in Jobs /\ AfterPatch(ids).step \in {"idle", "UserGame.ini"}
         /\ AfterPatch(ids).step # "idle" => AfterPatch(ids).ids \in SUBSET Ids(Deep)
<1>1. Ids(Deep) \in SUBSET Nat
  BY IdsOfDeep
<1>2. CASE ids = None
  BY <1>2 DEF AfterPatch, Jobs, Idle
<1>3. CASE ids # None
  BY <1>1, <1>3 DEF AfterPatch, Jobs, Files
<1> QED
  BY <1>2, <1>3

\* A command that reads the BattleGroup: what it sends is typed, fits, is
\* current, and is whole where that matters.
LEMMA ReadKeeps ==
  ASSUME ConstantsFit, InstancesInv, NEW admin \in Admins, NEW patch \in Patches,
         NEW ids \in {None} \cup SUBSET Ids(Deep), Read(admin, patch, ids),
         UNCHANGED <<bg, pvp, deployed, asked, raced>>,
         Listed(patch), Computed(patch),
         Matches(deployed) /\ ~EmptyPatch(patch) => Whole(patch),
         managed' \in BOOLEAN, managed' => managed \/ Matches(bg)
  PROVE  InstancesInv'
<1> DEFINE sent == [step |-> "patch", patch |-> patch, ids |-> ids, current |-> TRUE]
<1>1. /\ job' = [job EXCEPT ![admin] = IF EmptyPatch(patch) THEN AfterPatch(ids) ELSE sent]
      /\ commands' = commands + 1 /\ commands < MaxCommands
      /\ bg' = bg /\ pvp' = pvp /\ deployed' = deployed /\ raced' = raced /\ Deep' = Deep
  BY DEF Read, Deep
<1>2. TypeInv /\ ListsInv /\ PvpInv /\ CurrentInv /\ SetsInv
  BY DEF InstancesInv
<1>3. Ids(Deep) \in SUBSET Nat
  BY <1>2, IdsOfDeep
<1>4. sent \in Jobs
  BY <1>3 DEF Jobs
<1>5. /\ job' \in [Admins -> Jobs]
      /\ \A a \in Admins : a # admin => job'[a] = job[a]
      /\ job'[admin] = IF EmptyPatch(patch) THEN AfterPatch(ids) ELSE sent
  BY <1>1, <1>2, <1>4, AfterPatchTyped DEF TypeInv
<1>6. TypeInv'
  BY <1>1, <1>2, <1>5 DEF TypeInv, ConstantsFit, Deployable
<1>7. ASSUME NEW a \in Admins, Sends(a)'
      PROVE  /\ a # admin => Sends(a) /\ job'[a] = job[a]
             /\ a = admin => ~EmptyPatch(patch) /\ job'[a].patch = patch /\ job'[a].current
  BY <1>2, <1>5, <1>7, AfterPatchTyped DEF Sends
<1>8. ListsInv'
  <2>1. ASSUME NEW a \in Admins, Sends(a)' PROVE Listed(job[a].patch)'
    <3>1. Listed(job'[a].patch)
      BY <1>2, <1>7, <2>1 DEF ListsInv
    <3> QED
      BY <1>1, <3>1 DEF Listed
  <2> QED
    BY <1>1, <1>2, <2>1 DEF ListsInv
<1>9. PvpInv'
  <2>1. ASSUME NEW a \in Admins, job'[a].step # "idle"
        PROVE  job'[a].ids \in {None} \cup SUBSET Ids(Deep)
    BY <1>2, <1>5, <2>1, AfterPatchTyped DEF PvpInv
  <2> QED
    BY <1>1, <1>2, <2>1 DEF PvpInv
<1>10. CurrentInv'
  <2>1. ASSUME NEW a \in Admins, Sends(a)'
        PROVE  ~EmptyPatch(job'[a].patch) /\ (job'[a].current => Computed(job'[a].patch))
    BY <1>2, <1>7, <2>1 DEF CurrentInv
  <2>2. \A p : Computed(p) => Computed(p)'
    BY <1>1 DEF Computed
  <2> QED
    BY <2>1, <1>1 DEF CurrentInv, Computed, EmptyPatch
<1>11. SetsInv'
  <2>1. ASSUME Matches(deployed), NEW a \in Admins, Sends(a)' PROVE Whole(job'[a].patch)
    BY <1>2, <1>7, <2>1 DEF SetsInv
  <2> QED
    BY <1>1, <1>2, <2>1 DEF SetsInv, Whole
<1> QED
  BY <1>6, <1>8, <1>9, <1>10, <1>11 DEF InstancesInv

LEMMA SetInstancesKeeps ==
  ASSUME ConstantsFit, InstancesInv, NEW admin \in Admins, SetInstances(admin)
  PROVE  InstancesInv'
<1> PICK map \in Maps, count \in 1..MaxCount, pvpCount \in {None} \cup 0..MaxCount :
      LET patch == InstancesPatch(bg, map, count)
      IN /\ Valid(map, count, pvpCount)
         /\ Read(admin, patch, DeepDesertPvpIds(Desired(bg, map, count), pvpCount))
         /\ managed' = (managed \/ (map = Survival /\ EmptyPatch(patch)))
         /\ UNCHANGED <<bg, pvp, deployed, asked, raced>>
  BY DEF SetInstances
<1> DEFINE patch == InstancesPatch(bg, map, count)
           ids == DeepDesertPvpIds(Desired(bg, map, count), pvpCount)
<1>1. TypeInv /\ ListsInv /\ SetsInv /\ managed \in BOOLEAN
  BY DEF InstancesInv, TypeInv
<1>2. CASE map = Survival
  <2> DEFINE D == Desired(bg, Survival, count)
             S == bg.partitions[Survival]
  <2>1. pvpCount = None /\ ids = None
    BY <1>2, MapsDiffer DEF Valid, DeepDesertPvpIds
  <2>2. /\ patch \in Patches /\ patch.map = Survival /\ patch.edit = None
        /\ patch.partitions \in {None, D} /\ Fits(bg, D)
        /\ patch.partitions = None <=> (D = S /\ bg.ordered[Survival])
        /\ patch.replicas \in {None, count} /\ patch.setPartitions \in {None, Ids(D)}
        /\ patch.replicas = None <=> bg.replicas = count
        /\ patch.setPartitions = None <=> bg.setPartitions = Ids(D)
        /\ Cardinality(D) = count
        /\ count <= Cardinality(S) => D = Lowest(S, count)
        /\ count >= Cardinality(S) => S \subseteq D
    BY <1>1, <1>2, SurvivalPatch
  <2> HIDE DEF D
  <2>3. Listed(patch)
    BY <2>2, MapsDiffer DEF Listed
  <2>4. Computed(patch)
    BY <1>2 DEF Computed
  <2>5. EmptyPatch(patch) => Matches(bg)
    BY <2>2 DEF EmptyPatch, Matches
  <2>6. ASSUME Matches(deployed), ~EmptyPatch(patch) PROVE Whole(patch)
    <3>1. /\ bg.ordered[Survival] /\ bg.replicas = Cardinality(S)
          /\ bg.setPartitions = Ids(S)
      BY <1>1, <2>6 DEF SetsInv, Matches
    <3>2. D # S
      BY <2>2, <2>6, <3>1 DEF EmptyPatch
    <3>3. S \in SUBSET Partition /\ IsFiniteSet(S) /\ Cardinality(S) \in Nat
      BY <1>1, FS_CardinalityType DEF ListsInv, Fits
    <3>4. count # Cardinality(S)
      <4>1. ASSUME count = Cardinality(S) PROVE D = S
        <5>1. count \in Nat /\ count >= Cardinality(S) /\ count <= Cardinality(S)
          BY <3>3, <4>1
        <5> QED
          BY <2>2, <3>3, <5>1, LowestIn
      <4> QED
        BY <3>2, <4>1
    <3>5. Ids(D) # Ids(S)
      <4>1. Cardinality(D) # Cardinality(S)
        BY <2>2, <3>4
      <4>2. Fits(bg, D) /\ Fits(bg, S)
        BY <1>1, <2>2 DEF ListsInv
      <4>3. Cardinality(Ids(D)) = Cardinality(D) /\ Cardinality(Ids(S)) = Cardinality(S)
        BY <4>2, IdsCounted
      <4> QED
        BY <4>1, <4>3
    <3> QED
      BY <2>2, <3>1, <3>2, <3>4, <3>5 DEF Whole
  <2> HIDE DEF patch, ids
  <2> QED
    BY <1>1, <1>2, <2>1, <2>2, <2>3, <2>4, <2>5, <2>6, ReadKeeps DEF patch, ids
<1>3. CASE map = DeepDesert
  <2>1. count = 1
    BY <1>3 DEF Valid
  <2>2. /\ patch \in Patches /\ patch.map = DeepDesert /\ patch.edit = None
        /\ patch.partitions \in {None, Deep}
        /\ patch.replicas = None /\ patch.setPartitions = None
    BY <1>1, <1>3, <2>1, DeepPatch
  <2>3. ids \in {None} \cup SUBSET Ids(Deep)
    <3>1. ids = IF pvpCount = None THEN None ELSE Ids(Highest(Deep, pvpCount))
      BY <1>1, <1>3, <2>1, DesiredDeep DEF DeepDesertPvpIds
    <3>2. Ids(Highest(Deep, pvpCount)) \subseteq Ids(Deep)
      BY DEF Highest, Ids
    <3> QED
      BY <3>1, <3>2
  <2>4. Listed(patch)
    BY <2>2, MapsDiffer DEF Listed
  <2>5. Computed(patch)
    BY <1>3, <2>1 DEF Computed
  <2>6. Whole(patch)
    BY <2>2, MapsDiffer DEF Whole
  <2>7. managed' = managed
    BY <1>1, <1>3, MapsDiffer
  <2> HIDE DEF patch, ids
  <2> QED
    BY <1>1, <2>2, <2>3, <2>4, <2>5, <2>6, <2>7, ReadKeeps DEF patch, ids
<1> QED
  BY <1>2, <1>3, MapsDiffer

LEMMA SetDisplayNameKeeps ==
  ASSUME ConstantsFit, InstancesInv, NEW admin \in Admins, SetDisplayName(admin)
  PROVE  InstancesInv'
<1> PICK map \in Maps, name \in Names \cup {None} :
      \E p \in bg.partitions[map] :
        /\ Read(admin, NamePatch(bg, map, p.id, name), None)
        /\ UNCHANGED <<bg, pvp, history>>
  BY DEF SetDisplayName
<1> PICK p \in bg.partitions[map] :
      /\ Read(admin, NamePatch(bg, map, p.id, name), None)
      /\ UNCHANGED <<bg, pvp, history>>
  OBVIOUS
<1> DEFINE patch == NamePatch(bg, map, p.id, name)
<1>1. TypeInv /\ managed \in BOOLEAN /\ p \in Partition
  BY DEF InstancesInv, TypeInv
<1>2. p.id \in Nat
  BY <1>1 DEF Partition
<1>3. /\ patch \in Patches /\ patch.map = map
      /\ patch.edit = NameEdit(bg.podSpecs[map], p.id, name)
      /\ patch.partitions = None /\ patch.replicas = None /\ patch.setPartitions = None
  BY <1>1, <1>2, NamePatchTyped
<1>4. Computed(patch)
  BY <1>2 DEF Computed
<1> HIDE DEF patch
<1>5. Listed(patch)
  BY <1>3 DEF Listed
<1>6. ~EmptyPatch(patch) => Whole(patch)
  BY <1>3 DEF EmptyPatch, Whole
<1>7. Read(admin, patch, None) /\ UNCHANGED <<bg, pvp, deployed, asked, raced, managed>>
  BY DEF patch, history
<1> QED
  BY <1>1, <1>3, <1>4, <1>5, <1>6, <1>7, ReadKeeps

\* The resource, part by part, once a patch is applied.
LEMMA PatchedParts ==
  ASSUME ConstantsFit, TypeInv, NEW patch \in Patches, Accepts(bg, patch)
  PROVE  LET c == Patched(bg, patch)
         IN /\ c.partitions \in [Maps -> SUBSET Partition] /\ c.ordered \in [Maps -> BOOLEAN]
            /\ \A map \in Maps :
                 /\ c.partitions[map] = IF map = patch.map /\ patch.partitions # None
                                        THEN patch.partitions ELSE bg.partitions[map]
                 /\ c.ordered[map] =
                    (bg.ordered[map] \/ (map = patch.map /\ patch.partitions # None))
                 /\ c.podSpecs[map] = IF map = patch.map /\ patch.edit # None
                                      THEN EditedSpecs(bg.podSpecs[map], patch.edit)
                                      ELSE bg.podSpecs[map]
            /\ c.replicas = IF patch.replicas = None THEN bg.replicas ELSE patch.replicas
            /\ c.setPartitions = IF patch.setPartitions = None THEN bg.setPartitions
                                 ELSE patch.setPartitions
            /\ c.replicas \in {None} \cup Nat /\ c.setPartitions \in {None} \cup SUBSET Nat
            /\ c.podSpecs \in [Maps -> {None} \cup Seq(PodSpec)]
<1> DEFINE c == Patched(bg, patch)
           target == patch.map
           specs == IF patch.edit = None THEN bg.podSpecs[target]
                    ELSE EditedSpecs(bg.podSpecs[target], patch.edit)
<1>1. /\ c.partitions = [bg.partitions EXCEPT ![target] =
                           IF patch.partitions = None THEN @ ELSE patch.partitions]
      /\ c.ordered = [bg.ordered EXCEPT ![target] = @ \/ patch.partitions # None]
      /\ c.replicas = IF patch.replicas = None THEN bg.replicas ELSE patch.replicas
      /\ c.setPartitions = IF patch.setPartitions = None THEN bg.setPartitions
                           ELSE patch.setPartitions
      /\ c.podSpecs = [bg.podSpecs EXCEPT ![target] = specs]
  BY DEF Patched
<1>2. target \in Maps /\ patch.partitions \in {None} \cup SUBSET Partition
  BY DEF Patches
<1>3. specs \in {None} \cup Seq(PodSpec)
  BY <1>2, Edited DEF TypeInv
<1> HIDE DEF c, specs
<1>4. /\ c.partitions \in [Maps -> SUBSET Partition]
      /\ \A map \in Maps :
           c.partitions[map] = IF map = target /\ patch.partitions # None
                               THEN patch.partitions ELSE bg.partitions[map]
  BY <1>1, <1>2 DEF TypeInv
<1>5. /\ c.ordered \in [Maps -> BOOLEAN]
      /\ \A map \in Maps :
           c.ordered[map] = (bg.ordered[map] \/ (map = target /\ patch.partitions # None))
  <2>1. bg.ordered \in [Maps -> BOOLEAN]
    BY DEF TypeInv
  <2>2. (bg.ordered[target] \/ patch.partitions # None) \in BOOLEAN
    OBVIOUS
  <2> QED
    BY <1>1, <1>2, <2>1, <2>2
<1>6. /\ c.podSpecs \in [Maps -> {None} \cup Seq(PodSpec)]
      /\ \A map \in Maps : c.podSpecs[map] = IF map = target THEN specs ELSE bg.podSpecs[map]
  BY <1>1, <1>2, <1>3 DEF TypeInv
<1>7. \A map \in Maps :
        c.podSpecs[map] = IF map = target /\ patch.edit # None
                          THEN EditedSpecs(bg.podSpecs[map], patch.edit) ELSE bg.podSpecs[map]
  BY <1>6 DEF specs
<1>8. c.replicas \in {None} \cup Nat
  BY <1>1 DEF TypeInv, Patches
<1>9. c.setPartitions \in {None} \cup SUBSET Nat
  BY <1>1 DEF TypeInv, Patches
<1> QED
  BY <1>1, <1>4, <1>5, <1>6, <1>7, <1>8, <1>9 DEF c

\* A command about the count of Survival_1 that meets no race leaves a server
\* group that follows the list.
LEMMA CountRepairs ==
  ASSUME ConstantsFit, TypeInv, ListsInv, NEW count \in 1..MaxCount,
         NEW patch, patch = InstancesPatch(bg, Survival, count), Accepts(bg, patch)
  PROVE  Matches(Patched(bg, patch))
<1> DEFINE D == Desired(bg, Survival, count)
           c == Patched(bg, patch)
<1>1. /\ patch \in Patches /\ patch.map = Survival
      /\ patch.partitions \in {None, D} /\ Fits(bg, D)
      /\ patch.partitions = None <=> (D = bg.partitions[Survival] /\ bg.ordered[Survival])
      /\ patch.replicas \in {None, count} /\ patch.setPartitions \in {None, Ids(D)}
      /\ patch.replicas = None <=> bg.replicas = count
      /\ patch.setPartitions = None <=> bg.setPartitions = Ids(D)
      /\ Cardinality(D) = count
  BY SurvivalPatch
<1> HIDE DEF D
<1>2. /\ c.partitions[Survival] = IF patch.partitions # None THEN patch.partitions
                                  ELSE bg.partitions[Survival]
      /\ c.ordered[Survival] = (bg.ordered[Survival] \/ patch.partitions # None)
      /\ c.replicas = IF patch.replicas = None THEN bg.replicas ELSE patch.replicas
      /\ c.setPartitions = IF patch.setPartitions = None THEN bg.setPartitions
                           ELSE patch.setPartitions
  BY <1>1, PatchedParts, MapsDiffer
<1> HIDE DEF c
<1>3. c.partitions[Survival] = D /\ c.replicas = count /\ c.setPartitions = Ids(D)
  BY <1>1, <1>2
<1>4. c.ordered[Survival]
  BY <1>1, <1>2
<1> QED
  BY <1>1, <1>3, <1>4 DEF Matches, c

LEMMA PatchKeeps ==
  ASSUME ConstantsFit, InstancesInv, NEW admin \in Admins, Patch(admin)
  PROVE  InstancesInv'
<1> DEFINE patch == job[admin].patch
<1>1. /\ Sends(admin) /\ Accepts(bg, patch) /\ bg' = Patched(bg, patch)
      /\ managed' = (managed \/ (patch.map = Survival /\ patch.edit = None))
      /\ raced' = (raced \/ ~job[admin].current)
      /\ pvp' = pvp /\ commands' = commands /\ deployed' = deployed
  BY DEF Patch, Sends
<1>2. PICK next \in {AfterPatch(job[admin].ids), Idle} :
        job' = [a \in Admins |->
                  CASE a = admin -> next
                    [] a # admin /\ job[a].step = "patch" ->
                         [job[a] EXCEPT !.current = @ /\ bg' = bg]
                    [] OTHER -> job[a]]
  BY DEF Patch
<1>3. TypeInv /\ ListsInv /\ PvpInv /\ CurrentInv /\ SetsInv
  BY DEF InstancesInv
<1>4. /\ job \in [Admins -> Jobs] /\ patch \in Patches
      /\ job[admin].ids \in {None} \cup SUBSET Ids(Deep)
      /\ job[admin].current \in BOOLEAN /\ managed \in BOOLEAN /\ raced \in BOOLEAN
  <2>1. job \in [Admins -> Jobs] /\ job[admin] \in Jobs
    BY <1>3 DEF TypeInv
  <2>2. job[admin] \in [step : {"patch"}, patch : Patches, ids : {None} \cup SUBSET Nat,
                        current : BOOLEAN]
    BY <1>1, <2>1 DEF Jobs, Sends, Idle, Files
  <2> QED
    BY <1>1, <1>3, <2>1, <2>2 DEF PvpInv, Sends, TypeInv
<1> HIDE DEF patch
<1>5. /\ next \in Jobs /\ next.step \in {"idle", "UserGame.ini"}
      /\ next.step # "idle" => next.ids \in SUBSET Ids(Deep)
  <2>1. Idle \in Jobs /\ Idle.step = "idle"
    BY DEF Jobs, Idle
  <2> QED
    BY <1>2, <1>3, <1>4, <2>1, AfterPatchTyped
<1>6. ASSUME NEW a \in Admins, a # admin
      PROVE  /\ job'[a] \in Jobs /\ job'[a].step = job[a].step
             /\ job[a].step # "idle" => job'[a].ids = job[a].ids
             /\ Sends(a) => /\ job'[a].patch = job[a].patch
                            /\ job'[a].current => job[a].current /\ bg' = bg
  <2>1. job[a] \in Jobs
    BY <1>4
  <2>2. CASE job[a].step = "patch"
    <3>1. job'[a] = [job[a] EXCEPT !.current = @ /\ bg' = bg]
      BY <1>2, <1>6, <2>2
    <3>2. job[a] \in [step : {"patch"}, patch : Patches, ids : {None} \cup SUBSET Nat,
                      current : BOOLEAN]
      BY <2>1, <2>2 DEF Jobs, Idle, Files
    <3>3. (job[a].current /\ bg' = bg) \in BOOLEAN
      BY <3>2
    <3> QED
      BY <2>2, <3>1, <3>2, <3>3 DEF Jobs
  <2>3. CASE job[a].step # "patch"
    <3>1. job'[a] = job[a]
      BY <1>2, <1>6, <2>3
    <3> QED
      BY <2>1, <2>3, <3>1 DEF Sends
  <2> QED
    BY <2>2, <2>3
<1>7. job'[admin] = next
  BY <1>2
<1>8. job' \in [Admins -> Jobs]
  <2>1. DOMAIN job' = Admins /\ job' = [a \in Admins |-> job'[a]]
    BY <1>2
  <2>2. \A a \in Admins : job'[a] \in Jobs
    BY <1>5, <1>6, <1>7
  <2> QED
    BY <2>1, <2>2
<1>9. ASSUME NEW a \in Admins, Sends(a)'
      PROVE  /\ a # admin /\ Sends(a) /\ job'[a].patch = job[a].patch
             /\ job'[a].current => job[a].current /\ bg' = bg
  BY <1>5, <1>6, <1>7, <1>9 DEF Sends
<1>10. /\ bg'.partitions \in [Maps -> SUBSET Partition] /\ bg'.ordered \in [Maps -> BOOLEAN]
       /\ \A map \in Maps :
            /\ bg'.partitions[map] = IF map = patch.map /\ patch.partitions # None
                                     THEN patch.partitions ELSE bg.partitions[map]
            /\ bg'.ordered[map] =
                    (bg.ordered[map] \/ (map = patch.map /\ patch.partitions # None))
       /\ bg'.replicas = IF patch.replicas = None THEN bg.replicas ELSE patch.replicas
       /\ bg'.setPartitions = IF patch.setPartitions = None THEN bg.setPartitions
                              ELSE patch.setPartitions
       /\ bg'.replicas \in {None} \cup Nat /\ bg'.setPartitions \in {None} \cup SUBSET Nat
       /\ bg'.podSpecs \in [Maps -> {None} \cup Seq(PodSpec)]
  BY <1>1, <1>3, <1>4, PatchedParts
<1>11. TypeInv'
  BY <1>1, <1>3, <1>4, <1>8, <1>10 DEF TypeInv
<1>12. /\ Listed(patch) /\ ~EmptyPatch(patch) /\ patch.map \in Maps
       /\ job[admin].current => Computed(patch)
  BY <1>1, <1>3, <1>4 DEF ListsInv, CurrentInv, Patches, patch
<1>13. Deep' = Deep
  BY <1>1 DEF Deep
<1>14. ListsInv'
  <2>1. /\ bg'.partitions[DeepDesert] \in {deployed.partitions[DeepDesert], Deep}
        /\ bg'.partitions[DeepDesert] \subseteq bg.partitions[DeepDesert]
    <3>1. /\ bg.partitions[DeepDesert] \in {deployed.partitions[DeepDesert], Deep}
          /\ Deep \subseteq bg.partitions[DeepDesert]
      BY <1>3, DeepFits DEF ListsInv
    <3>2. bg'.partitions[DeepDesert] \in {bg.partitions[DeepDesert], Deep}
      BY <1>10, <1>12, MapsDiffer DEF Listed
    <3> QED
      BY <3>1, <3>2
  <2>2. \A S : Fits(bg, S) => Fits(bg', S)
    BY <2>1, FitsSmaller
  <2>3. Fits(bg, bg'.partitions[Survival])
    BY <1>3, <1>10, <1>12, MapsDiffer DEF Listed, ListsInv
  <2>4. ASSUME NEW a \in Admins, Sends(a)' PROVE Listed(job[a].patch)'
    <3>1. Listed(job[a].patch)
      BY <1>3, <1>9, <2>4 DEF ListsInv
    <3>2. job'[a].patch = job[a].patch
      BY <1>9, <2>4
    <3> QED
      BY <1>13, <2>2, <3>1, <3>2 DEF Listed
  <2> QED
    BY <1>1, <1>3, <1>13, <2>1, <2>2, <2>3, <2>4 DEF ListsInv
<1>15. PvpInv'
  <2>1. ASSUME NEW a \in Admins, job'[a].step # "idle"
        PROVE  job'[a].ids \in {None} \cup SUBSET Ids(Deep)
    BY <1>3, <1>5, <1>6, <1>7, <2>1 DEF PvpInv
  <2> QED
    BY <1>1, <1>3, <1>13, <2>1 DEF PvpInv
<1>16. CurrentInv'
  <2>1. ASSUME NEW a \in Admins, Sends(a)'
        PROVE  (~EmptyPatch(job[a].patch) /\ (job[a].current => Computed(job[a].patch)))'
    <3>1. ~EmptyPatch(job[a].patch) /\ (job[a].current => Computed(job[a].patch))
      BY <1>3, <1>9, <2>1 DEF CurrentInv
    <3>2. job'[a].patch = job[a].patch /\ (job'[a].current => job[a].current /\ bg' = bg)
      BY <1>9, <2>1
    <3> QED
      BY <3>1, <3>2 DEF Computed, EmptyPatch
  <2> QED
    BY <2>1 DEF CurrentInv
<1>17. SetsInv'
  <2>1. ASSUME Matches(bg), ~(patch.map = Survival /\ patch.edit = None)
     PROVE Matches(bg')
    <3>1. patch.replicas = None /\ patch.setPartitions = None
      BY <1>12, <2>1, MapsDiffer DEF Listed
    <3>2. patch.map # Survival \/ patch.partitions = None
      BY <1>12, <2>1 DEF Listed
    <3>3. Survival \in Maps
      BY MapsDiffer
    <3>4. /\ bg'.partitions[Survival] = bg.partitions[Survival]
          /\ bg.ordered[Survival] => bg'.ordered[Survival]
          /\ bg'.replicas = bg.replicas /\ bg'.setPartitions = bg.setPartitions
      BY <1>10, <3>1, <3>2, <3>3
    <3> QED
      BY <2>1, <3>4 DEF Matches
  <2>2. ASSUME Matches(deployed) PROVE Matches(bg')
    <3>1. Matches(bg) /\ Whole(patch)
      BY <1>1, <1>3, <2>2 DEF SetsInv, patch
    <3>2. CASE patch.map = Survival /\ patch.edit = None
      <4>1. /\ patch.partitions # None /\ patch.partitions \in SUBSET Partition
            /\ patch.replicas = Cardinality(patch.partitions)
            /\ patch.setPartitions = Ids(patch.partitions)
        BY <1>4, <3>1, <3>2 DEF Whole, Patches
      <4>2. patch.replicas # None /\ patch.setPartitions # None
        <5>1. IsFiniteSet(patch.partitions)
          BY <1>12, <3>2, <4>1 DEF Listed, Fits
        <5>2. patch.replicas \in Nat /\ patch.setPartitions \in SUBSET Nat
          BY <4>1, <5>1, IdsFinite, FS_CardinalityType
        <5> QED
          BY <5>2 DEF ConstantsFit, Deployable, NoneApart
      <4>3. Survival \in Maps
        BY MapsDiffer
      <4>4. /\ bg'.partitions[Survival] = patch.partitions /\ bg'.ordered[Survival]
            /\ bg'.replicas = patch.replicas /\ bg'.setPartitions = patch.setPartitions
        BY <1>10, <3>2, <4>1, <4>2, <4>3
      <4> QED
        BY <4>1, <4>4 DEF Matches
    <3>3. CASE ~(patch.map = Survival /\ patch.edit = None)
      BY <2>1, <3>1, <3>3
    <3> QED
      BY <3>2, <3>3
  <2>3. ASSUME managed', ~raced' PROVE Matches(bg')
    <3>1. ~raced /\ Computed(patch)
      BY <1>1, <1>12, <2>3
    <3>2. CASE patch.map = Survival /\ patch.edit = None
      <4>1. CASE \E count \in 1..MaxCount : patch = InstancesPatch(bg, Survival, count)
        BY <1>1, <1>3, <4>1, CountRepairs
      <4>2. patch # InstancesPatch(bg, DeepDesert, 1)
        BY <1>3, <3>2, DeepPatch, MapsDiffer
      <4>3. ASSUME NEW map \in Maps, NEW id \in Nat, NEW name \in {None} \cup Names,
                   patch = NamePatch(bg, map, id, name)
            PROVE  FALSE
        BY <1>3, <1>12, <3>2, <4>3, NamePatchTyped DEF EmptyPatch
      <4> QED
        BY <3>1, <4>1, <4>2, <4>3 DEF Computed
    <3>3. CASE ~(patch.map = Survival /\ patch.edit = None)
      BY <1>1, <1>3, <2>1, <2>3, <3>1, <3>3 DEF SetsInv
    <3> QED
      BY <3>2, <3>3
  <2>4. ASSUME Matches(deployed), NEW a \in Admins, Sends(a)' PROVE Whole(job'[a].patch)
    BY <1>3, <1>9, <2>4 DEF SetsInv
  <2> QED
    BY <1>1, <2>2, <2>3, <2>4 DEF SetsInv, Whole
<1> QED
  BY <1>11, <1>14, <1>15, <1>16, <1>17 DEF InstancesInv

LEMMA IniKeeps ==
  ASSUME ConstantsFit, InstancesInv, NEW admin \in Admins,
         PatchFails(admin) \/ WriteIni(admin) \/ WriteIniFails(admin)
  PROVE  InstancesInv'
<1> DEFINE on == [job[admin] EXCEPT !.step = "Game.ini"]
<1>1. TypeInv /\ ListsInv /\ PvpInv /\ CurrentInv /\ SetsInv
  BY DEF InstancesInv
<1>2. /\ bg' = bg /\ commands' = commands /\ deployed' = deployed /\ managed' = managed
      /\ raced' = raced /\ Deep' = Deep
  BY DEF PatchFails, WriteIni, WriteIniFails, history, Deep
<1>3. job \in [Admins -> Jobs] /\ job[admin] \in Jobs /\ pvp \in [Files -> SUBSET Nat]
  BY <1>1 DEF TypeInv
<1>4. Idle \in Jobs /\ Idle.step = "idle"
  BY DEF Jobs, Idle
<1>5. ASSUME WriteIni(admin)
      PROVE  /\ job[admin].step \in Files /\ job[admin].ids \in SUBSET Nat
             /\ job[admin].ids \in SUBSET Ids(Deep)
             /\ on \in Jobs /\ on.step = "Game.ini" /\ on.ids = job[admin].ids
  <2>1. job[admin].step \in Files
    BY <1>5 DEF WriteIni
  <2>2. job[admin] \in [step : Files, ids : SUBSET Nat]
    BY <1>3, <2>1 DEF Jobs, Idle, Files
  <2>3. job[admin].ids # None
    BY <2>2 DEF ConstantsFit, NoneApart
  <2>4. job[admin].ids \in SUBSET Ids(Deep)
    BY <1>1, <2>1, <2>3 DEF PvpInv, Files
  <2>5. on \in [step : Files,
     ids : SUBSET Nat] /\ on.step = "Game.ini" /\ on.ids = job[admin].ids
    BY <2>2 DEF Files
  <2> QED
    BY <2>1, <2>2, <2>4, <2>5 DEF Jobs
<1> HIDE DEF on
<1>6. PICK next \in Jobs :
        /\ job' = [job EXCEPT ![admin] = next] /\ next.step \in {"idle", "Game.ini"}
        /\ next.step = "Game.ini" => next.ids \in SUBSET Ids(Deep)
  <2>1. CASE PatchFails(admin) \/ WriteIniFails(admin)
    <3>1. job' = [job EXCEPT ![admin] = Idle]
      BY <2>1 DEF PatchFails, WriteIniFails
    <3> QED
      BY <1>4, <3>1
  <2>2. CASE WriteIni(admin)
    <3>1. job' = [job EXCEPT ![admin] = IF job[admin].step = "UserGame.ini" THEN on ELSE Idle]
      BY <1>3, <2>2 DEF WriteIni, on
    <3> QED
      BY <1>4, <1>5, <2>2, <3>1
  <2> QED
    BY <2>1, <2>2
<1>7. pvp' \in [Files -> SUBSET Nat] /\ \A file \in Files : pvp'[file] \subseteq Ids(Deep)
  <2>1. CASE PatchFails(admin) \/ WriteIniFails(admin)
    BY <1>1, <1>3, <2>1 DEF PatchFails, WriteIniFails, PvpInv
  <2>2. CASE WriteIni(admin)
    BY <1>1, <1>3, <1>5, <2>2 DEF WriteIni, PvpInv
  <2> QED
    BY <2>1, <2>2
<1>8. /\ job' \in [Admins -> Jobs] /\ job'[admin] = next
      /\ \A a \in Admins : a # admin => job'[a] = job[a]
  BY <1>3, <1>6
<1>9. TypeInv'
  BY <1>1, <1>2, <1>7, <1>8 DEF TypeInv
<1>10. ASSUME NEW a \in Admins, Sends(a)' PROVE Sends(a) /\ job'[a] = job[a]
  BY <1>6, <1>8, <1>10 DEF Sends
<1>11. ListsInv'
  BY <1>1, <1>2, <1>10 DEF ListsInv, Listed
<1>12. PvpInv'
  <2>1. ASSUME NEW a \in Admins, job'[a].step # "idle"
        PROVE  job'[a].ids \in {None} \cup SUBSET Ids(Deep)
    BY <1>1, <1>6, <1>8, <2>1 DEF PvpInv
  <2> QED
    BY <1>2, <1>7, <2>1 DEF PvpInv
<1>13. CurrentInv'
  BY <1>1, <1>2, <1>10 DEF CurrentInv, Computed, EmptyPatch
<1>14. SetsInv'
  BY <1>1, <1>2, <1>10 DEF SetsInv, Whole
<1> QED
  BY <1>9, <1>11, <1>12, <1>13, <1>14 DEF InstancesInv

LEMMA InvKept ==
  ASSUME ConstantsFit, InstancesInv, [Next]_vars
  PROVE  InstancesInv'
<1>1. CASE Next
  BY <1>1, SetInstancesKeeps, SetDisplayNameKeeps, PatchKeeps, IniKeeps DEF Next
<1>2. CASE UNCHANGED vars
  BY <1>2 DEF vars, history, InstancesInv, TypeInv, ListsInv, Listed, PvpInv,
     CurrentInv,
     Computed, EmptyPatch, SetsInv, Whole, Sends, Deep, Matches
<1> QED
  BY <1>1, <1>2

-----------------------------------------------------------------------------
(* The theorems. *)

\* What the types say, where the PvP ids come from, which lists and patches are
\* under way, and when the server group follows them holds in every state of
\* `bg instances set` and `bg display-name`, run side by side.
THEOREM Invariance == ASSUME ConstantsFit PROVE Spec => []InstancesInv
<1>1. Init => InstancesInv
  BY InvInitially
<1>2. InstancesInv /\ [Next]_vars => InstancesInv'
  BY InvKept
<1> QED
  BY <1>1, <1>2, PTL DEF Spec

\* The resource stays one that the cluster can hold, whatever the patches find.
THEOREM TypeCorrect == ASSUME ConstantsFit PROVE Spec => []TypeOK
<1>1. InstancesInv => TypeOK
  <2> SUFFICES ASSUME InstancesInv PROVE TypeOK
    OBVIOUS
  <2>1. TypeInv
    BY DEF InstancesInv
  <2>2. \A admin \in Admins : job[admin] \in Jobs
    BY <2>1 DEF TypeInv
  <2>3. \A admin \in Admins : job[admin].step \in Step
    BY <2>2 DEF Jobs, Step, Idle
  <2>4. DOMAIN job = Admins
    BY <2>1 DEF TypeInv
  <2> QED
    BY <2>1, <2>3, <2>4 DEF TypeInv, TypeOK
<1> QED
  BY <1>1, Invariance, PTL

LEMMA PartitionsStayDistinct ==
  ASSUME ConstantsFit, InstancesInv
  PROVE  PartitionsDistinct
<1> DEFINE S == bg.partitions[Survival]
           T == bg.partitions[DeepDesert]
           first == deployed.partitions[DeepDesert]
<1>1. ListsInv
  BY DEF InstancesInv
<1>2. T \subseteq first /\ T # {} /\ deployed \in Resources
  <2>1. T \in {first, Deep} /\ deployed \in Resources
    BY <1>1 DEF ListsInv
  <2>2. Deep # {} /\ Deep \subseteq first
    BY <2>1, DeepFits, FS_EmptySet
  <2> QED
    BY <2>1, <2>2
<1>3. Fits(bg, S)
  BY <1>1 DEF ListsInv
<1>4. \A p, q \in T : p.id = q.id => p = q
  BY <1>2, DeepFits
<1>5. Ids(T) \cap OtherIds = {}
  BY <1>2, DeepFits DEF Ids
<1>6. AllPartitions(bg) = S \cup T
  BY MapsDiffer DEF AllPartitions
<1>7. \A p \in S, q \in T : p.id # q.id
  BY <1>3 DEF Fits, Ids
<1>8. \A p, q \in AllPartitions(bg) : p.id = q.id => p = q
  BY <1>3, <1>4, <1>6, <1>7 DEF Fits
<1>9. S \cap T = {}
  BY <1>7
<1>10. Ids(AllPartitions(bg)) \cap OtherIds = {}
  BY <1>3, <1>5, <1>6 DEF Fits, Ids
<1>11. \A p, q \in S : p.dimension = q.dimension => p = q
  BY <1>3 DEF Fits
<1>12. \A map \in Maps : bg.partitions[map] # {}
  BY <1>2, <1>3, MapsDiffer DEF Fits
<1> QED
  BY <1>8, <1>9, <1>10, <1>11, <1>12 DEF PartitionsDistinct, Distinct

LEMMA PvpStaysInDeepDesert ==
  ASSUME ConstantsFit, InstancesInv
  PROVE  PvpOnlyInDeepDesert
<1>1. ListsInv /\ PvpInv
  BY DEF InstancesInv
<1>2. Deep \subseteq bg.partitions[DeepDesert]
  BY <1>1, DeepFits DEF ListsInv
<1> QED
  BY <1>1, <1>2 DEF PvpInv, PvpOnlyInDeepDesert, Ids

\* The partitions of a map before and after a step.
Kept(old, new) ==
  /\ old \subseteq new \/ new \subseteq old
  /\ \A p \in old \ new, q \in new : Before(q, p)

LEMMA LowestKept ==
  ASSUME NEW S \in SUBSET Partition, IsFiniteSet(S), NEW n \in Nat
  PROVE  Kept(S, Lowest(S, n))
<1>1. Lowest(S, n) \subseteq S /\ Lowest(S, n) = {p \in S : Place(S, p) < n}
  BY LowestIn
<1>2. ASSUME NEW p \in S \ Lowest(S, n), NEW q \in Lowest(S, n) PROVE Before(q, p)
  <2>1. p \in S /\ q \in S /\ ~(Place(S, p) < n) /\ Place(S, q) < n
    BY <1>1
  <2>2. Cardinality(S) \in Nat
    BY FS_CardinalityType
  <2>3. Place(S, p) \in Nat /\ Place(S, q) \in Nat
    BY <2>1, <2>2, PlaceInList
  <2>4. Place(S, q) < Place(S, p)
    BY <2>1, <2>3
  <2> QED
    BY <2>1, <2>4, PlacesOrdered
<1> QED
  BY <1>1, <1>2 DEF Kept

LEMMA SurvivorsKept ==
  ASSUME ConstantsFit, InstancesInv, [Next]_vars, ~raced', NEW map \in Maps
  PROVE  Kept(bg.partitions[map], bg'.partitions[map])
<1>1. CASE bg' = bg
  BY <1>1 DEF Kept
<1>2. CASE bg' # bg
  <2>1. PICK admin \in Admins : Patch(admin)
    BY <1>2 DEF Next, SetInstances, SetDisplayName, PatchFails, WriteIni, WriteIniFails,
       vars
  <2> DEFINE patch == job[admin].patch
  <2>2. TypeInv /\ ListsInv /\ CurrentInv
    BY DEF InstancesInv
  <2>3. Sends(admin) /\ job[admin].current /\ Accepts(bg, patch) /\ bg' = Patched(bg, patch)
    BY <2>1 DEF Patch, Sends
  <2>4. Computed(patch)
    BY <2>2, <2>3 DEF CurrentInv
  <2> HIDE DEF patch
  <2>5. /\ bg.partitions[Survival] \in SUBSET Partition
        /\ IsFiniteSet(bg.partitions[Survival])
    BY <2>2 DEF ListsInv, Fits
  <2>6. ASSUME NEW count \in 1..MaxCount, patch = InstancesPatch(bg, Survival, count)
        PROVE  Kept(bg.partitions[map], bg'.partitions[map])
    <3> DEFINE D == Desired(bg, Survival, count)
               S == bg.partitions[Survival]
    <3>1. /\ patch \in Patches /\ patch.map = Survival /\ patch.partitions \in {None, D}
          /\ count <= Cardinality(S) => D = Lowest(S, count)
          /\ count >= Cardinality(S) => S \subseteq D
      BY <2>2, <2>6, SurvivalPatch
    <3>2. bg'.partitions[map] \in {bg.partitions[map],
       IF map = Survival THEN D ELSE bg.partitions[map]}
      BY <2>2, <2>3, <3>1, PatchedParts
    <3>3. count \in Nat /\ Cardinality(S) \in Nat
      BY <2>5, FS_CardinalityType DEF ConstantsFit, Deployable
    <3>4. Kept(S, D)
      <4>1. CASE count <= Cardinality(S)
        BY <2>5, <3>1, <3>3, <4>1, LowestKept
      <4>2. CASE count >= Cardinality(S)
        BY <3>1, <4>2 DEF Kept
      <4> QED
        BY <3>3, <4>1, <4>2
    <3>5. Kept(bg.partitions[map], bg.partitions[map])
      BY DEF Kept
    <3> QED
      BY <3>2, <3>4, <3>5
  <2>7. ASSUME patch = InstancesPatch(bg, DeepDesert, 1)
        PROVE  Kept(bg.partitions[map], bg'.partitions[map])
    <3> DEFINE T == bg.partitions[DeepDesert]
    <3>1. patch \in Patches /\ patch.map = DeepDesert /\ patch.partitions \in {None, Deep}
      BY <2>2, <2>7, DeepPatch
    <3>2. bg'.partitions[map] \in {bg.partitions[map],
       IF map = DeepDesert THEN Deep ELSE bg.partitions[map]}
      BY <2>2, <2>3, <3>1, PatchedParts
    <3>3. T \in SUBSET Partition /\ IsFiniteSet(T) /\ Lowest(T, 1) = Deep
      BY <2>2, DeepFits DEF ListsInv, Deep
    <3>4. Kept(T, Deep)
      BY <3>3, LowestKept
    <3>5. Kept(bg.partitions[map], bg.partitions[map])
      BY DEF Kept
    <3> QED
      BY <3>2, <3>4, <3>5
  <2>8. ASSUME NEW m \in Maps, NEW id \in Nat, NEW name \in {None} \cup Names,
               patch = NamePatch(bg, m, id, name)
        PROVE  Kept(bg.partitions[map], bg'.partitions[map])
    <3>1. patch \in Patches /\ patch.partitions = None
      BY <2>2, <2>8, NamePatchTyped
    <3>2. bg'.partitions[map] = bg.partitions[map]
      BY <2>2, <2>3, <3>1, PatchedParts
    <3> QED
      BY <3>2 DEF Kept
  <2> QED
    BY <2>4, <2>6, <2>7, <2>8 DEF Computed
<1> QED
  BY <1>1, <1>2

\* For any number of admins, commands, races, lost replies and half-written
\* files, and any BattleGroup: no two partitions get the same id and no map
\* loses its last one, the server group follows the list, PvP is enabled on the Deep
\* Desert alone, and a change of the count that met no race keeps the ids of the
\* partitions that stay.
THEOREM InstancesAlwaysSound == ASSUME ConstantsFit PROVE Spec => InstancesSound
<1>1. InstancesInv => PartitionsDistinct /\ SetsMatch /\ PvpOnlyInDeepDesert
  BY PartitionsStayDistinct, PvpStaysInDeepDesert DEF InstancesInv, SetsInv, SetsMatch
<1>2. InstancesInv /\ [Next]_vars =>
        [~raced' => \A map \in Maps :
           LET old == bg.partitions[map]
               new == bg'.partitions[map]
           IN /\ old \subseteq new \/ new \subseteq old
              /\ \A p \in old \ new, q \in new : Before(q, p)]_vars
  BY SurvivorsKept DEF Kept
<1> QED
  BY <1>1, <1>2, Invariance, PTL DEF Spec, InstancesSound, SurvivorsKeepIds

-----------------------------------------------------------------------------
(* Display names. *)

ArgumentLists == Seq(Names \cup Arguments)

\* Among the arguments is at most one override, and the one that is shown.
OneName(arguments) ==
  \A j, k \in {j \in DOMAIN arguments : arguments[j] \in Names} : j = k
NameOf(arguments) ==
  IF NameAt(arguments) = 0 THEN None ELSE arguments[NameAt(arguments)]

LEMMA NameIs ==
  ASSUME ConstantsFit, NEW arguments \in ArgumentLists, OneName(arguments)
  PROVE  /\ \A j \in DOMAIN arguments : arguments[j] \in Names => NameOf(arguments) = arguments[j]
         /\ (\A j \in DOMAIN arguments : arguments[j] \notin Names) => NameOf(arguments) = None
<1>1. DOMAIN arguments = 1..Len(arguments) /\ Len(arguments) \in Nat
  BY LenProperties DEF ArgumentLists
<1>2. \/ /\ NameAt(arguments) = 0
         /\ \A j \in 1..Len(arguments) : arguments[j] \notin Names
      \/ /\ NameAt(arguments) \in 1..Len(arguments)
         /\ arguments[NameAt(arguments)] \in Names
  BY NameFound DEF ArgumentLists
<1>3. ASSUME NEW j \in DOMAIN arguments, arguments[j] \in Names
   PROVE NameOf(arguments) = arguments[j]
  <2>1. NameAt(arguments) \in 1..Len(arguments) /\ arguments[NameAt(arguments)] \in Names
    BY <1>1, <1>2, <1>3
  <2>2. NameAt(arguments) = j
    BY <1>1, <1>3, <2>1 DEF OneName
  <2> QED
    BY <1>1, <1>3, <2>1, <2>2 DEF NameOf
<1>4. ASSUME \A j \in DOMAIN arguments : arguments[j] \notin Names
   PROVE NameOf(arguments) = None
  BY <1>1, <1>2, <1>4 DEF NameOf
<1> QED
  BY <1>3, <1>4

\* An operation on the arguments that it was computed from leaves one override,
\* the name asked for, and the other arguments as they were.
LEMMA Renamed ==
  ASSUME ConstantsFit, NEW args \in {None} \cup ArgumentLists,
     args # None => OneName(args),
         NEW edit \in Edits, ~Adds(edit),
         edit.op = "add_arguments" => args = None,
         edit.op # "add_arguments" => args # None,
         edit.op = "add_argument" => NameAt(args) = 0,
         edit.op \in {"remove_argument", "replace_argument"} =>
           edit.argument = NameAt(args) /\ NameAt(args) # 0
  PROVE  LET new == NewArguments(args, edit)
         IN /\ new \in ArgumentLists /\ OneName(new) /\ NameOf(new) = edit.name
            /\ SameOthers(args, new)
<1> DEFINE new == NewArguments(args, edit)
           Others(arguments) ==
             IF arguments = None THEN {} ELSE {j \in DOMAIN arguments : arguments[j] \notin Names}
           A == Names \cup Arguments
           n == Len(args)
           k == edit.argument
<1>1. None \notin ArgumentLists
  BY DEF ConstantsFit, NoneApart, ArgumentLists
<1>2. SUFFICES
        /\ new \in ArgumentLists /\ OneName(new)
        /\ \/ \E j \in DOMAIN new : new[j] \in Names /\ new[j] = edit.name
           \/ (\A j \in DOMAIN new : new[j] \notin Names) /\ edit.name = None
        /\ \E f \in Bijection(Others(args), Others(new)) :
             \A j, l \in Others(args) : new[f[j]] = args[j] /\ (j < l => f[j] < f[l])
  <2>1. NameOf(new) = edit.name
    <3> HIDE DEF new
    <3> QED
      BY <1>2, NameIs
  <2>2. SameOthers(args, new)
    <3> HIDE DEF new
    <3> QED
      BY <1>2 DEF SameOthers
  <2> QED
    BY <1>2, <2>1, <2>2
<1>3. ASSUME edit.op # "remove_argument", new \in ArgumentLists,
             Others(new) = Others(args), \A j \in Others(args) : new[j] = args[j]
      PROVE  \E f \in Bijection(Others(args), Others(new)) :
               \A j, l \in Others(args) : new[f[j]] = args[j] /\ (j < l => f[j] < f[l])
  <2> DEFINE O == Others(args)
             f == [j \in O |-> j]
  <2>1. f \in Bijection(O, O)
    <3>1. f \in [O -> O] /\ (\A a, b \in O : f[a] = f[b] => a = b)
            /\ (\A a \in O : \E b \in O : f[b] = a)
      OBVIOUS
    <3> QED
      BY <3>1, Fun_IsBij
  <2>2. \A j, l \in O : new[f[j]] = args[j] /\ (j < l => f[j] < f[l])
    BY <1>3
  <2> HIDE DEF new, f
  <2> QED
    BY <1>3, <2>1, <2>2
<1>4. CASE edit.op = "add_arguments"
  <2>1. args = None /\ new = <<edit.name>> /\ edit.name \in Names
    BY <1>4 DEF NewArguments, Edits
  <2>2. new \in ArgumentLists /\ DOMAIN new = {1} /\ new[1] = edit.name
    BY <2>1 DEF ArgumentLists
  <2> HIDE DEF new
  <2>3. Others(new) = {} /\ Others(args) = {}
    BY <1>1, <2>1, <2>2
  <2>4. \E f \in Bijection(Others(args), Others(new)) :
          \A j, l \in Others(args) : new[f[j]] = args[j] /\ (j < l => f[j] < f[l])
    BY <1>3, <1>4, <2>2, <2>3 DEF new
  <2> QED
    BY <2>1, <2>2, <2>4 DEF OneName
<1>5. CASE edit.op # "add_arguments"
  <2>1. /\ args \in Seq(A) /\ args \in ArgumentLists /\ DOMAIN args = 1..n /\ n \in Nat
        /\ OneName(args)
    BY <1>5, LenProperties DEF ArgumentLists
  <2>2. /\ NameAt(args) = 0 => \A j \in 1..n : args[j] \notin Names
        /\ NameAt(args) # 0 => NameAt(args) \in 1..n /\ args[NameAt(args)] \in Names
    BY <2>1, NameFound
  <2>3. Others(args) = {j \in 1..n : args[j] \notin Names}
    BY <1>1, <2>1
  <2>4. CASE edit.op = "add_argument"
    <3>1. new = Append(args, edit.name) /\ edit.name \in A /\ edit.name \in Names
      BY <2>4 DEF NewArguments, Edits
    <3>2. /\ new \in Seq(A) /\ Len(new) = n + 1 /\ new[n + 1] = edit.name
          /\ \A j \in 1..n : new[j] = args[j]
      <4> HIDE DEF new, A
      <4> QED
        BY <2>1, <3>1
    <3>3. new \in ArgumentLists /\ DOMAIN new = 1..(n + 1)
      BY <3>2, LenProperties DEF ArgumentLists
    <3> HIDE DEF new
    <3>4. {j \in DOMAIN new : new[j] \in Names} = {n + 1}
      BY <2>1, <2>2, <2>4, <3>1, <3>2, <3>3
    <3>5. Others(new) = Others(args)
      <4>1. Others(new) = {j \in 1..(n + 1) : new[j] \notin Names}
        BY <1>1, <3>3
      <4>2. \A j \in 1..(n + 1) : j \in 1..n \/ j = n + 1
        BY <2>1
      <4>3. 1..n \subseteq 1..(n + 1)
        BY <2>1
      <4> HIDE DEF n
      <4> QED
        BY <2>3, <3>1, <3>2, <4>1, <4>2, <4>3
    <3>6. \E f \in Bijection(Others(args), Others(new)) :
            \A j, l \in Others(args) : new[f[j]] = args[j] /\ (j < l => f[j] < f[l])
      BY <1>3, <2>3, <2>4, <3>2, <3>3, <3>5 DEF new
    <3>7. n + 1 \in DOMAIN new
      BY <2>1, <3>3
    <3> QED
      BY <3>1, <3>2, <3>3, <3>4, <3>6, <3>7 DEF OneName
  <2>5. CASE edit.op = "replace_argument"
    <3>1. new = [args EXCEPT ![k] = edit.name] /\ edit.name \in A /\ edit.name \in Names
      BY <2>5 DEF NewArguments, Edits
    <3>2. k \in 1..n /\ args[k] \in Names
      BY <2>2, <2>5
    <3>3. /\ new \in Seq(A) /\ Len(new) = n /\ new[k] = edit.name
          /\ \A j \in 1..n : j # k => new[j] = args[j]
      <4> HIDE DEF new, A, k
      <4> QED
        BY <2>1, <3>1, <3>2, ExceptSeq
    <3>4. new \in ArgumentLists /\ DOMAIN new = 1..n
      BY <3>3, LenProperties DEF ArgumentLists
    <3> HIDE DEF new, k
    <3>5. {j \in DOMAIN new : new[j] \in Names} = {k}
      BY <2>1, <3>1, <3>2, <3>3, <3>4 DEF OneName
    <3>6. Others(new) = Others(args)
      BY <1>1, <2>1, <2>3, <3>1, <3>2, <3>3, <3>4, <3>5
    <3>7. \E f \in Bijection(Others(args), Others(new)) :
            \A j, l \in Others(args) : new[f[j]] = args[j] /\ (j < l => f[j] < f[l])
      BY <1>3, <2>3, <2>5, <3>2, <3>3, <3>4, <3>6 DEF new
    <3> QED
      BY <3>1, <3>2, <3>3, <3>4, <3>5, <3>7 DEF OneName
  <2>6. CASE edit.op = "remove_argument"
    <3>1. new = RemoveAt(args, k) /\ edit.name = None
      BY <2>6 DEF NewArguments, Edits
    <3>2. k \in 1..n /\ args[k] \in Names
      BY <2>2, <2>6
    <3>3. /\ new \in Seq(A) /\ Len(new) = n - 1
          /\ \A j \in 1..(n - 1) : new[j] = IF j < k THEN args[j] ELSE args[j + 1]
      <4> HIDE DEF new, A, k
      <4> QED
        BY <2>1, <3>1, <3>2, Removed
    <3>4. new \in ArgumentLists /\ DOMAIN new = 1..(n - 1)
      BY <3>3, LenProperties DEF ArgumentLists
    <3> HIDE DEF new, k
    <3>5. \A j \in 1..n : args[j] \in Names <=> j = k
      BY <2>1, <3>2 DEF OneName
    <3>6. \A j \in 1..(n - 1) : new[j] \notin Names
      BY <2>1, <3>2, <3>3, <3>5
    <3>7. Others(new) = 1..(n - 1) /\ Others(args) = (1..n) \ {k}
      BY <1>1, <2>3, <3>4, <3>5, <3>6
    <3> DEFINE O == Others(args)
               f == [j \in O |-> IF j < k THEN j ELSE j - 1]
    <3>8. f \in Bijection(O, Others(new))
      <4>1. f \in [O -> 1..(n - 1)]
        BY <2>1, <3>2, <3>7
      <4>2. \A a, b \in O : f[a] = f[b] => a = b
        BY <2>1, <3>2, <3>7
      <4>3. ASSUME NEW i \in 1..(n - 1) PROVE \E j \in O : f[j] = i
        <5>1. CASE i < k
          <6>1. i \in O /\ f[i] = i
            BY <2>1, <3>2, <3>7, <5>1
          <6> QED
            BY <6>1
        <5>2. CASE ~(i < k)
          <6>1. i + 1 \in O /\ ~(i + 1 < k) /\ f[i + 1] = i
            BY <2>1, <3>2, <3>7, <5>2
          <6> QED
            BY <6>1
        <5> QED
          BY <5>1, <5>2
      <4> HIDE DEF f
      <4> QED
        BY <3>7, <4>1, <4>2, <4>3, Fun_IsBij
    <3>9. ASSUME NEW j \in O, NEW l \in O
          PROVE  new[f[j]] = args[j] /\ (j < l => f[j] < f[l])
      BY <2>1, <3>2, <3>3, <3>7
    <3> HIDE DEF f
    <3> QED
      BY <3>1, <3>4, <3>6, <3>8, <3>9 DEF OneName
  <2> QED
    BY <1>5, <2>4, <2>5, <2>6 DEF Edits, Adds
<1> QED
  BY <1>4, <1>5

LEMMA SpecIs ==
  ASSUME ConstantsFit, NEW specs \in Seq(PodSpec), NEW id, NEW i \in 1..Len(specs),
         specs[i].index = id, \A j \in 1..Len(specs) : specs[j].index = id => i <= j
  PROVE  SpecAt(specs, id) = i
<1>1. Len(specs) \in Nat
  BY LenProperties
<1> QED
  BY <1>1, SpecFound

LEMMA NoSpec ==
  ASSUME ConstantsFit, NEW specs \in Seq(PodSpec), NEW id,
         \A j \in 1..Len(specs) : specs[j].index # id
  PROVE  SpecAt(specs, id) = 0
BY SpecFound

\* What is shown is the override among the arguments that are found.
LEMMA Shows ==
  ASSUME NEW specs, NEW id
  PROVE  NameShown(specs, id) = NameOf(ArgumentsOf(specs, id))
BY DEF NameShown, NameOf

\* What a command about a name asks for, by what it found.
LEMMA AskedEdit ==
  ASSUME ConstantsFit, NEW specs \in {None} \cup Seq(PodSpec), NEW id \in Nat,
         NEW name \in {None} \cup Names, NEW edit, edit = NameEdit(specs, id, name),
         edit # None
  PROVE  LET args == ArgumentsOf(specs, id)
         IN /\ edit \in Edits /\ edit.id = id /\ edit.name = name
            /\ edit.spec = SpecAt(specs, id) /\ edit.argument = NameAt(args)
            /\ edit.op = "add_podSpecs" => specs = None
            /\ edit.op = "add_podSpec" => specs # None /\ SpecAt(specs, id) = 0
            /\ ~Adds(edit) => specs # None /\ SpecAt(specs, id) # 0
            /\ edit.op = "add_arguments" => args = None
            /\ ~Adds(edit) /\ edit.op # "add_arguments" => args # None
            /\ edit.op = "add_argument" => NameAt(args) = 0
            /\ edit.op \in {"remove_argument", "replace_argument"} => NameAt(args) # 0
<1> DEFINE args == ArgumentsOf(specs, id)
           s == SpecAt(specs, id)
           k == NameAt(args)
<1>1. edit \in Edits
  BY NameEditTyped
<1>2. /\ s \in Nat /\ k \in Nat /\ (specs = None => s = 0) /\ (s = 0 => args = None)
      /\ args = None => k = 0
  BY ArgumentsFound
<1>3. edit =
        [op |-> CASE specs = None -> "add_podSpecs"
                  [] specs # None /\ s = 0 -> "add_podSpec"
                  [] s > 0 /\ args = None -> "add_arguments"
                  [] args # None /\ k = 0 -> "add_argument"
                  [] k > 0 /\ name = None -> "remove_argument"
                  [] k > 0 /\ name # None -> "replace_argument",
         spec |-> s, argument |-> k, id |-> id, name |-> name]
  BY DEF NameEdit
<1> HIDE DEF args, s, k
<1>4. /\ specs = None => edit.op = "add_podSpecs"
      /\ specs # None /\ s = 0 => edit.op = "add_podSpec"
      /\ s # 0 /\ args = None => edit.op = "add_arguments"
      /\ args # None /\ k = 0 => edit.op = "add_argument"
      /\ k # 0 => edit.op \in {"remove_argument", "replace_argument"}
  BY <1>2, <1>3
<1>5. edit.id = id /\ edit.name = name /\ edit.spec = s /\ edit.argument = k
  BY <1>3
<1> QED
  BY <1>1, <1>2, <1>4, <1>5 DEF args, s, k, Adds

\* The pod specs of a map before and after a step.
OneChanged(old, new) ==
  /\ \A i \in DOMAIN old :
       /\ i \in DOMAIN new /\ new[i].index = old[i].index
       /\ SameOthers(old[i].arguments, new[i].arguments)
  /\ \A i, j \in DOMAIN old : new[i] # old[i] /\ new[j] # old[j] => i = j

LEMMA NothingChanged ==
  ASSUME NEW args
  PROVE  SameOthers(args, args)
<1> DEFINE O == IF args = None THEN {} ELSE {j \in DOMAIN args : args[j] \notin Names}
           f == [j \in O |-> j]
<1>1. f \in [O -> O] /\ (\A a, b \in O : f[a] = f[b] => a = b)
        /\ (\A a \in O : \E b \in O : f[b] = a)
  OBVIOUS
<1>2. f \in Bijection(O, O)
  BY <1>1, Fun_IsBij
<1>3. \A j, k \in O : args[f[j]] = args[j] /\ (j < k => f[j] < f[k])
  OBVIOUS
<1> HIDE DEF f
<1> QED
  BY <1>2, <1>3 DEF SameOthers

\* A pod spec that is put last is found for its id alone.
LEMMA FoundLast ==
  ASSUME ConstantsFit, NEW specs \in Seq(PodSpec), NEW fresh \in PodSpec, NEW new,
         new \in Seq(PodSpec), Len(new) = Len(specs) + 1, new[Len(specs) + 1] = fresh,
         \A j \in 1..Len(specs) : new[j] = specs[j],
         SpecAt(specs, fresh.index) = 0, NEW id
  PROVE  ArgumentsOf(new, id) =
           IF id = fresh.index THEN fresh.arguments ELSE ArgumentsOf(specs, id)
<1> DEFINE n == Len(specs)
<1>1. /\ new \in Seq(PodSpec) /\ Len(new) = n + 1 /\ new[n + 1] = fresh /\ n \in Nat
      /\ \A j \in 1..n : new[j] = specs[j]
  BY LenProperties
<1>2. \A j \in 1..(n + 1) : j \in 1..n \/ j = n + 1
  BY <1>1
<1>3. \A j \in 1..n : j \in 1..(n + 1)
  BY <1>1
<1>4. CASE id = fresh.index
  <2>1. \A j \in 1..n : specs[j].index # id
    BY <1>4, SpecFound
  <2>2. \A j \in 1..Len(new) : new[j].index = id => n + 1 <= j
    BY <1>1, <1>2, <2>1
  <2>3. n + 1 \in 1..Len(new) /\ new[n + 1].index = id
    BY <1>1, <1>4
  <2>4. SpecAt(new, id) = n + 1
    <3> HIDE DEF n
    <3> QED
      BY <1>1, <2>2, <2>3, SpecIs
  <2> QED
    BY <1>1, <1>4, <2>4 DEF ArgumentsOf
<1>5. CASE id # fresh.index
  <2> DEFINE i == SpecAt(specs, id)
  <2>1. CASE i = 0
    <3>1. \A j \in 1..n : specs[j].index # id
      BY <2>1, SpecFound
    <3>2. \A j \in 1..Len(new) : new[j].index # id
      BY <1>1, <1>2, <1>5, <3>1
    <3>3. SpecAt(new, id) = 0
      BY <1>1, <3>2, NoSpec
    <3> QED
      BY <1>5, <2>1, <3>3 DEF ArgumentsOf
  <2>2. CASE i # 0
    <3>1. /\ i \in 1..n /\ specs[i].index = id
          /\ \A j \in 1..n : specs[j].index = id => i <= j
      BY <2>2, SpecFound
    <3>2. \A j \in 1..Len(new) : new[j].index = id => i <= j
      BY <1>1, <1>2, <1>5, <3>1
    <3>3. i \in 1..Len(new) /\ new[i].index = id
      BY <1>1, <1>3, <3>1
    <3>4. SpecAt(new, id) = i
      <4> HIDE DEF i
      <4> QED
        BY <1>1, <3>2, <3>3, SpecIs
    <3> QED
      BY <1>1, <1>5, <2>2, <3>1, <3>4 DEF ArgumentsOf
  <2> QED
    BY <2>1, <2>2
<1> QED
  BY <1>4, <1>5

\* Positions are found by the indexes alone.
LEMMA FoundSame ==
  ASSUME ConstantsFit, NEW specs \in Seq(PodSpec), NEW new \in Seq(PodSpec),
         Len(new) = Len(specs), \A j \in 1..Len(specs) : new[j].index = specs[j].index,
         NEW id
  PROVE  SpecAt(new, id) = SpecAt(specs, id)
<1>1. CASE SpecAt(specs, id) = 0
  BY <1>1, SpecFound, NoSpec
<1>2. CASE SpecAt(specs, id) # 0
  <2> DEFINE i == SpecAt(specs, id)
  <2>1. /\ i \in 1..Len(specs) /\ specs[i].index = id
        /\ \A j \in 1..Len(specs) : specs[j].index = id => i <= j
    BY <1>2, SpecFound
  <2>2. /\ i \in 1..Len(new) /\ new[i].index = id
        /\ \A j \in 1..Len(new) : new[j].index = id => i <= j
    BY <2>1
  <2> HIDE DEF i
  <2>3. SpecAt(new, id) = i
    BY <2>2, SpecIs
  <2> QED
    BY <2>3 DEF i
<1> QED
  BY <1>1, <1>2

\* The same, of a list and an edit that go by names of their own.
LEMMA EditedOf ==
  ASSUME ConstantsFit, NEW b, NEW patch \in Patches, NEW specs, NEW edit, NEW id,
     NEW name,
         NEW i, specs = b.podSpecs[patch.map], edit = patch.edit, edit # None,
         id = edit.id, name = edit.name, i = edit.spec,
         specs \in {None} \cup Seq(PodSpec), Accepts(b, patch)
  PROVE  LET new == EditedSpecs(specs, edit)
             fresh == [index |-> id, arguments |-> <<name>>]
         IN /\ new \in Seq(PodSpec)
            /\ edit.op = "add_podSpecs" => new = <<fresh>>
            /\ edit.op = "add_podSpec" => specs \in Seq(PodSpec) /\ new = Append(specs, fresh)
            /\ Adds(edit) => fresh \in PodSpec
            /\ ~Adds(edit) =>
                 /\ specs \in Seq(PodSpec) /\ i \in 1..Len(specs) /\ Len(new) = Len(specs)
                 /\ \A j \in 1..Len(specs) : j # i => new[j] = specs[j]
                 /\ new[i].index = specs[i].index
                 /\ new[i].arguments = NewArguments(specs[i].arguments, edit)
<1>1. LET specs_1 == b.podSpecs[patch.map]
          edit_1 == patch.edit
          new == EditedSpecs(specs_1, edit_1)
          j_1 == edit_1.spec
          fresh == [index |-> edit_1.id, arguments |-> <<edit_1.name>>]
      IN /\ edit_1 \in Edits /\ new \in Seq(PodSpec)
         /\ edit_1.op = "add_podSpecs" => new = <<fresh>>
         /\ edit_1.op = "add_podSpec" => specs_1 \in Seq(PodSpec) /\ new = Append(specs_1, fresh)
         /\ Adds(edit_1) => fresh \in PodSpec
         /\ ~Adds(edit_1) =>
              /\ specs_1 \in Seq(PodSpec) /\ j_1 \in 1..Len(specs_1) /\ Len(new) = Len(specs_1)
              /\ \A j \in 1..Len(specs_1) : j # j_1 => new[j] = specs_1[j]
              /\ new[j_1].index = specs_1[j_1].index
              /\ new[j_1].arguments = NewArguments(specs_1[j_1].arguments, edit_1)
  <2>1. patch.edit # None /\ b.podSpecs[patch.map] \in {None} \cup Seq(PodSpec)
    OBVIOUS
  <2> QED
    BY <2>1, Edited, Zenon
<1> QED
  BY <1>1

\* A command about a name that meets no race shows that name for its id, and
\* changes neither what other ids show nor the other arguments.
LEMMA NameLands ==
  ASSUME ConstantsFit, NEW b, NEW map \in Maps, NEW id \in Nat,
         NEW name \in {None} \cup Names,
         NEW patch \in Patches, patch = NamePatch(b, map, id, name), patch.edit # None,
         b.podSpecs[map] \in {None} \cup Seq(PodSpec),
         b.podSpecs[map] # None => OneOverride(b.podSpecs[map]), Accepts(b, patch)
  PROVE  LET specs == b.podSpecs[map]
             new == EditedSpecs(specs, patch.edit)
         IN /\ new \in Seq(PodSpec) /\ OneOverride(new)
            /\ \A j \in Nat : NameShown(new, j) = IF j = id THEN name ELSE NameShown(specs, j)
            /\ specs # None => OneChanged(specs, new)
<1> DEFINE specs == b.podSpecs[map]
           edit == patch.edit
           new == EditedSpecs(specs, edit)
           args == ArgumentsOf(specs, id)
           i == SpecAt(specs, id)
           fresh == [index |-> id, arguments |-> <<name>>]
<1>1. patch.map = map /\ edit = NameEdit(specs, id, name)
  BY DEF NamePatch
<1>2. /\ edit \in Edits /\ edit.id = id /\ edit.name = name
      /\ edit.spec = i /\ edit.argument = NameAt(args)
      /\ edit.op = "add_podSpecs" => specs = None
      /\ edit.op = "add_podSpec" => specs # None /\ i = 0
      /\ ~Adds(edit) => specs # None /\ i # 0
      /\ edit.op = "add_arguments" => args = None
      /\ ~Adds(edit) /\ edit.op # "add_arguments" => args # None
      /\ edit.op = "add_argument" => NameAt(args) = 0
      /\ edit.op \in {"remove_argument", "replace_argument"} => NameAt(args) # 0
  <2>1. specs \in {None} \cup Seq(PodSpec) /\ edit # None
    OBVIOUS
  <2> HIDE DEF specs, edit
  <2> QED
    BY <1>1, <2>1, AskedEdit
<1>3. /\ new \in Seq(PodSpec)
      /\ edit.op = "add_podSpecs" => new = <<fresh>>
      /\ edit.op = "add_podSpec" => specs \in Seq(PodSpec) /\ new = Append(specs, fresh)
      /\ Adds(edit) => fresh \in PodSpec
      /\ ~Adds(edit) =>
           /\ specs \in Seq(PodSpec) /\ i \in 1..Len(specs) /\ Len(new) = Len(specs)
           /\ \A j \in 1..Len(specs) : j # i => new[j] = specs[j]
           /\ new[i].index = specs[i].index
           /\ new[i].arguments = NewArguments(specs[i].arguments, edit)
  <2>1. edit.id = id /\ edit.name = name /\ edit.spec = i
    BY <1>2
  <2>2. specs = b.podSpecs[patch.map] /\ specs \in {None} \cup Seq(PodSpec) /\ edit # None
    BY <1>1
  <2> HIDE DEF specs, edit, i
  <2>3. edit = patch.edit
    BY DEF edit
  <2> QED
    BY <2>1, <2>2, <2>3, EditedOf DEF new, fresh
<1> HIDE DEF new, edit, specs
<1>4. None \notin Seq(PodSpec)
  BY DEF ConstantsFit, NoneApart
<1>5. ASSUME name \in Names PROVE OneName(<<name>>) /\ NameOf(<<name>>) = name
  <2>1. <<name>> \in ArgumentLists /\ DOMAIN <<name>> = {1} /\ <<name>>[1] = name
    BY <1>5 DEF ArgumentLists
  <2>2. OneName(<<name>>)
    BY <2>1 DEF OneName
  <2> QED
    BY <1>5, <2>1, <2>2, NameIs
<1>6. Adds(edit) => name \in Names
  BY <1>2 DEF Adds, Edits
<1>7. CASE edit.op = "add_podSpecs"
  <2>1. specs = None /\ new = <<fresh>> /\ fresh \in PodSpec /\ name \in Names
    BY <1>2, <1>3, <1>6, <1>7 DEF Adds
  <2>2. Len(new) = 1 /\ DOMAIN new = {1} /\ new[1] = fresh
    BY <2>1
  <2>3. OneOverride(new)
    BY <1>5, <2>1, <2>2 DEF OneOverride, OneName
  <2>4. ASSUME NEW j \in Nat PROVE NameShown(new,
     j) = IF j = id THEN name ELSE NameShown(specs, j)
    <3>1. CASE j = id
      <4>1. 1 \in 1..Len(new) /\ new[1].index = j /\ \A l \in 1..Len(new) : 1 <= l
        BY <2>2, <3>1
      <4>2. SpecAt(new, j) = 1
        BY <1>3, <4>1, SpecIs
      <4>3. ArgumentsOf(new, j) = <<name>>
        BY <2>2, <4>2 DEF ArgumentsOf
      <4> QED
        BY <1>5, <2>1, <3>1, <4>3, Shows
    <3>2. CASE j # id
      <4>1. \A l \in 1..Len(new) : new[l].index # j
        BY <2>2, <3>2
      <4>2. SpecAt(new, j) = 0
        BY <1>3, <4>1, NoSpec
      <4>3. SpecAt(specs, j) = 0
        BY <2>1 DEF SpecAt
      <4>4. ArgumentsOf(new, j) = ArgumentsOf(specs, j)
        BY <4>2, <4>3 DEF ArgumentsOf
      <4> QED
        BY <3>2, <4>4, Shows
    <3> QED
      BY <3>1, <3>2
  <2> QED
    BY <1>3, <2>1, <2>3, <2>4 DEF new, edit, specs
<1>8. CASE edit.op = "add_podSpec"
  <2> DEFINE n == Len(specs)
  <2>1. /\ specs # None /\ specs \in Seq(PodSpec) /\ i = 0 /\ new = Append(specs, fresh)
        /\ fresh \in PodSpec /\ name \in Names
    BY <1>2, <1>3, <1>6, <1>8 DEF Adds
  <2>2. fresh.index = id /\ fresh.arguments = <<name>>
    OBVIOUS
  <2> HIDE DEF fresh
  <2>3. /\ n \in Nat /\ DOMAIN specs = 1..n /\ DOMAIN new = 1..(n + 1) /\ new[n + 1] = fresh
        /\ \A j \in 1..n : new[j] = specs[j]
    BY <2>1, LenProperties
  <2>4. \A j \in 1..(n + 1) : j \in 1..n \/ j = n + 1
    BY <2>3
  <2>5. OneOverride(new)
    <3>1. OneOverride(specs)
      BY <2>1 DEF specs
    <3> QED
      BY <1>5, <2>1, <2>2, <2>3, <2>4, <3>1 DEF OneOverride, OneName
  <2>8. Len(new) = Len(specs) + 1
    BY <2>1
  <2>6. ASSUME NEW j \in Nat PROVE NameShown(new,
     j) = IF j = id THEN name ELSE NameShown(specs, j)
    <3>1. ArgumentsOf(new, j) = IF j = id THEN <<name>> ELSE ArgumentsOf(specs, j)
      <4>1. SpecAt(specs, fresh.index) = 0
        BY <2>1, <2>2
      <4>2. new \in Seq(PodSpec)
        BY <1>3
      <4>3. ArgumentsOf(new, j) =
              IF j = fresh.index THEN fresh.arguments ELSE ArgumentsOf(specs, j)
        <5>1. /\ new[Len(specs) + 1] = fresh /\ \A l \in 1..Len(specs) : new[l] = specs[l]
              /\ specs \in Seq(PodSpec) /\ fresh \in PodSpec
          BY <2>1, <2>3
        <5> HIDE DEF i, n, args
        <5> QED
          BY <2>8, <4>1, <4>2, <5>1, FoundLast
      <4> QED
        BY <2>2, <4>3
    <3> QED
      BY <1>5, <2>1, <3>1, Shows
  <2>7. OneChanged(specs, new)
    <3>1. \A j \in DOMAIN specs : j \in DOMAIN new /\ new[j] = specs[j]
      BY <2>3
    <3> QED
      BY <3>1, NothingChanged DEF OneChanged
  <2> QED
    BY <1>3, <2>5, <2>6, <2>7 DEF new, edit, specs
<1>9. CASE ~Adds(edit)
  <2> DEFINE n == Len(specs)
             old == specs[i].arguments
  <2>1. /\ specs \in Seq(PodSpec) /\ specs # None /\ i \in 1..n /\ Len(new) = n
        /\ \A j \in 1..n : j # i => new[j] = specs[j]
        /\ new[i].index = specs[i].index /\ new[i].arguments = NewArguments(old, edit)
    BY <1>2, <1>3, <1>9
  <2>2. n \in Nat /\ DOMAIN specs = 1..n /\ DOMAIN new = 1..n
    BY <1>3, <2>1, LenProperties
  <2>3. specs[i].index = id /\ \A j \in 1..n : specs[j].index = id => i <= j
    BY <1>2, <1>9, <2>1, SpecFound
  <2>4. args = old
    BY <1>2, <1>9 DEF ArgumentsOf
  <2>5. old \in {None} \cup ArgumentLists
    <3>1. specs[i] \in PodSpec
      <4> HIDE DEF i
      <4> QED
        BY <2>1, ElementOfSeq
    <3> QED
      BY <3>1 DEF PodSpec, ArgumentLists
  <2>6. OneOverride(specs)
    BY <2>1 DEF specs
  <2>7. old # None => OneName(old)
    BY <2>1, <2>2, <2>6 DEF OneOverride, OneName
  <2>8. /\ NewArguments(old, edit) \in ArgumentLists /\ OneName(NewArguments(old, edit))
        /\ NameOf(NewArguments(old, edit)) = name /\ SameOthers(old, NewArguments(old, edit))
    <3> HIDE DEF old
    <3> QED
      BY <1>2, <1>9, <2>4, <2>5, <2>7, Renamed
  <2> HIDE DEF old
  <2>9. OneOverride(new)
    <3>1. ASSUME NEW j \in DOMAIN new, new[j].arguments # None
       PROVE OneName(new[j].arguments)
      <4>1. CASE j = i
        BY <2>1, <2>8, <4>1
      <4>2. CASE j # i
        BY <2>1, <2>2, <2>6, <3>1, <4>2 DEF OneOverride, OneName
      <4> QED
        BY <4>1, <4>2
    <3> QED
      BY <3>1 DEF OneOverride, OneName
  <2>10. \A j \in 1..n : new[j].index = specs[j].index
    BY <2>1
  <2>11. ASSUME NEW j \in Nat PROVE NameShown(new,
     j) = IF j = id THEN name ELSE NameShown(specs, j)
    <3>1. SpecAt(new, j) = SpecAt(specs, j)
      BY <1>3, <2>1, <2>10, FoundSame
    <3>2. CASE j = id
      <4>1. ArgumentsOf(new, j) = NewArguments(old, edit)
        BY <1>2, <1>9, <2>1, <3>1, <3>2 DEF ArgumentsOf
      <4> QED
        BY <2>8, <3>2, <4>1, Shows
    <3>3. CASE j # id
      <4>1. SpecAt(specs, j) # 0 => SpecAt(specs, j) \in 1..n /\ SpecAt(specs, j) # i
        BY <2>1, <2>3, <3>3, SpecFound
      <4>2. ArgumentsOf(new, j) = ArgumentsOf(specs, j)
        BY <2>1, <3>1, <4>1 DEF ArgumentsOf
      <4> QED
        BY <3>3, <4>2, Shows
    <3> QED
      BY <3>2, <3>3
  <2>12. OneChanged(specs, new)
    <3>1. ASSUME NEW j \in 1..n
          PROVE  /\ j \in DOMAIN new /\ new[j].index = specs[j].index
                 /\ SameOthers(specs[j].arguments, new[j].arguments)
      <4>1. CASE j = i
        BY <2>1, <2>2, <2>8, <2>10, <4>1 DEF old
      <4>2. CASE j # i
        BY <2>1, <2>2, <2>10, <4>2, NothingChanged
      <4> QED
        BY <4>1, <4>2
    <3> QED
      BY <2>1, <2>2, <3>1 DEF OneChanged
  <2> QED
    BY <1>3, <2>9, <2>11, <2>12 DEF new, edit, specs
<1> QED
  BY <1>7, <1>8, <1>9 DEF Adds

\* The names shown, of every id there could be.
Shown(b) ==
  {o \in [map : Maps, id : Nat, name : Names] : NameShown(b.podSpecs[o.map],
     o.id) = o.name}

LEMMA ShownTyped ==
  ASSUME ConstantsFit, NEW specs \in {None} \cup Seq(PodSpec), NEW id
  PROVE  /\ NameShown(specs, id) \in {None} \cup Names
         /\ NameShown(specs, id) # None =>
              specs # None /\ \E i \in DOMAIN specs : specs[i].index = id
<1> DEFINE args == ArgumentsOf(specs, id)
           k == NameAt(args)
           i == SpecAt(specs, id)
<1>1. args \in {None} \cup Seq(Names \cup Arguments) /\ (args = None => k = 0)
  BY ArgumentsFound
<1>2. k = 0 \/ (args # None /\ args[k] \in Names)
  <2> HIDE DEF args
  <2> QED
    BY <1>1, NameFound
<1>3. i = 0 => args = None
  BY DEF ArgumentsOf
<1>4. i # 0 => specs # None /\ i \in DOMAIN specs /\ specs[i].index = id
  <2> SUFFICES ASSUME i # 0
     PROVE specs # None /\ i \in DOMAIN specs /\ specs[i].index = id
    OBVIOUS
  <2>1. specs \in Seq(PodSpec) /\ specs # None
    BY ArgumentsFound DEF ConstantsFit, NoneApart
  <2>2. i \in 1..Len(specs) /\ specs[i].index = id
    BY <2>1, SpecFound
  <2> QED
    BY <2>1, <2>2, LenProperties
<1>5. NameShown(specs, id) = IF k = 0 THEN None ELSE args[k]
  BY DEF NameShown
<1> HIDE DEF args, k, i
<1> QED
  BY <1>1, <1>2, <1>3, <1>4, <1>5

LEMMA OverridesShown ==
  ASSUME ConstantsFit, NEW b, b.podSpecs \in [Maps -> {None} \cup Seq(PodSpec)]
  PROVE  {o \in Overrides(b) : o.name # None} = Shown(b)
<1> DEFINE Indexes == UNION {{b.podSpecs[m][i].index : i \in DOMAIN b.podSpecs[m]} :
                               m \in {m \in Maps : b.podSpecs[m] # None}}
<1>1. \A m \in Maps : b.podSpecs[m] \in {None} \cup Seq(PodSpec)
  OBVIOUS
<1>2. Overrides(b) = {[map |-> m, id |-> id, name |-> NameShown(b.podSpecs[m], id)] :
                        m \in Maps, id \in Indexes}
  BY DEF Overrides
<1>3. Indexes \in SUBSET Nat
  <2>1. ASSUME NEW m \in Maps, b.podSpecs[m] # None, NEW i \in DOMAIN b.podSpecs[m]
        PROVE  b.podSpecs[m][i].index \in Nat
    <3> DEFINE specs == b.podSpecs[m]
    <3>1. specs \in Seq(PodSpec) /\ i \in DOMAIN specs
      BY <1>1, <2>1
    <3> HIDE DEF specs
    <3>2. specs[i] \in PodSpec
      BY <3>1, LenProperties, ElementOfSeq
    <3> QED
      BY <3>2 DEF specs, PodSpec
  <2> QED
    BY <2>1
<1> HIDE DEF Indexes
<1>4. ASSUME NEW o \in Overrides(b), o.name # None PROVE o \in Shown(b)
  <2>1. PICK m \in Maps, id \in Indexes :
          o = [map |-> m, id |-> id, name |-> NameShown(b.podSpecs[m], id)]
    BY <1>2
  <2>2. NameShown(b.podSpecs[m], id) \in Names
    BY <1>1, <1>4, <2>1, ShownTyped
  <2> QED
    BY <1>3, <2>1, <2>2 DEF Shown
<1>5. ASSUME NEW o \in Shown(b) PROVE o \in Overrides(b) /\ o.name # None
  <2>1. /\ o.map \in Maps /\ o.id \in Nat /\ o.name \in Names
        /\ NameShown(b.podSpecs[o.map], o.id) = o.name
        /\ o = [map |-> o.map, id |-> o.id, name |-> o.name]
    BY DEF Shown
  <2>2. o.name # None
    BY <2>1 DEF ConstantsFit, Deployable
  <2>3. /\ b.podSpecs[o.map] # None
        /\ \E i \in DOMAIN b.podSpecs[o.map] : b.podSpecs[o.map][i].index = o.id
    BY <1>1, <2>1, <2>2, ShownTyped
  <2>4. o.id \in Indexes
    BY <2>1, <2>3 DEF Indexes
  <2> QED
    BY <1>2, <2>1, <2>2, <2>4
<1> QED
  BY <1>4, <1>5

\* Until a race, what is shown is what was asked, and every list of arguments
\* has one override at most.
NamesInv ==
  ~raced => /\ asked = Shown(bg)
            /\ \A map \in Maps : bg.podSpecs[map] # None => OneOverride(bg.podSpecs[map])

\* The pod specs and the names asked for, after a patch that met no race.
LEMMA PatchNames ==
  ASSUME ConstantsFit, InstancesInv, NamesInv, NEW admin \in Admins, Patch(admin),
     ~raced'
  PROVE  NamesInv' /\ \A map \in Maps : bg.podSpecs[map] # None =>
                        OneChanged(bg.podSpecs[map], bg'.podSpecs[map])
<1> DEFINE patch == job[admin].patch
           edit == patch.edit
<1>1. /\ Sends(admin) /\ job[admin].current /\ Accepts(bg, patch)
      /\ bg' = Patched(bg, patch) /\ ~raced
      /\ asked' = {o \in asked : edit = None \/ o.map # patch.map \/ o.id # edit.id} \cup
           (IF edit = None \/ edit.name = None THEN {}
            ELSE {[map |-> patch.map, id |-> edit.id, name |-> edit.name]})
  BY DEF Patch, Sends
<1>2. TypeInv /\ ListsInv /\ CurrentInv
  BY DEF InstancesInv
<1>3. Computed(patch) /\ ~EmptyPatch(patch)
  BY <1>1, <1>2 DEF CurrentInv
<1> HIDE DEF patch
<1>4. /\ asked = Shown(bg)
      /\ \A map \in Maps : bg.podSpecs[map] # None => OneOverride(bg.podSpecs[map])
  BY <1>1 DEF NamesInv
<1>5. \A map \in Maps : bg.podSpecs[map] \in {None} \cup Seq(PodSpec)
  BY <1>2 DEF TypeInv
<1>6. ASSUME patch \in Patches, patch.edit = None
      PROVE  NamesInv' /\ \A map \in Maps : bg.podSpecs[map] # None =>
                            OneChanged(bg.podSpecs[map], bg'.podSpecs[map])
  <2>1. \A map \in Maps : bg'.podSpecs[map] = bg.podSpecs[map]
    BY <1>1, <1>2, <1>6, PatchedParts
  <2>2. Shown(bg') = Shown(bg)
    BY <2>1 DEF Shown
  <2>3. asked' = asked
    BY <1>1, <1>6
  <2>4. \A map \in Maps : OneChanged(bg.podSpecs[map], bg'.podSpecs[map])
    BY <2>1, NothingChanged DEF OneChanged
  <2> QED
    BY <1>4, <2>1, <2>2, <2>3, <2>4 DEF NamesInv
<1>7. ASSUME NEW count \in 1..MaxCount, patch = InstancesPatch(bg, Survival, count)
      PROVE  patch \in Patches /\ patch.edit = None
  BY <1>2, <1>7, SurvivalPatch DEF InstancesPatch
<1>8. ASSUME patch = InstancesPatch(bg, DeepDesert, 1)
      PROVE  patch \in Patches /\ patch.edit = None
  BY <1>2, <1>8, DeepPatch DEF InstancesPatch
<1>9. ASSUME NEW map \in Maps, NEW id \in Nat, NEW name \in {None} \cup Names,
             patch = NamePatch(bg, map, id, name)
      PROVE  NamesInv' /\ \A m \in Maps : bg.podSpecs[m] # None =>
                            OneChanged(bg.podSpecs[m], bg'.podSpecs[m])
  <2> DEFINE specs == bg.podSpecs[map]
             new == EditedSpecs(specs, edit)
  <2>1. /\ patch \in Patches /\ patch.map = map /\ edit = NameEdit(specs, id, name)
        /\ patch.partitions = None /\ patch.replicas = None /\ patch.setPartitions = None
    BY <1>2, <1>9, NamePatchTyped
  <2>2. edit # None
    BY <1>3, <2>1 DEF EmptyPatch
  <2>3. edit.id = id /\ edit.name = name
    BY <2>1, <2>2 DEF NameEdit
  <2>4. /\ new \in Seq(PodSpec) /\ OneOverride(new)
        /\ \A j \in Nat : NameShown(new, j) = IF j = id THEN name ELSE NameShown(specs, j)
        /\ specs # None => OneChanged(specs, new)
    BY <1>1, <1>4, <1>5, <1>9, <2>1, <2>2, NameLands
  <2>5. \A m \in Maps : bg'.podSpecs[m] = IF m = map THEN new ELSE bg.podSpecs[m]
    BY <1>1, <1>2, <2>1, <2>2, PatchedParts
  <2> HIDE DEF new, edit
  <2>6. \A m \in Maps : bg.podSpecs[m] # None => OneChanged(bg.podSpecs[m], bg'.podSpecs[m])
    <3>1. \A m \in Maps : m # map => OneChanged(bg.podSpecs[m], bg'.podSpecs[m])
      BY <2>5, NothingChanged DEF OneChanged
    <3> QED
      BY <2>4, <2>5, <3>1
  <2>7. \A m \in Maps : bg'.podSpecs[m] # None => OneOverride(bg'.podSpecs[m])
    BY <1>4, <2>4, <2>5
  <2>8. ASSUME NEW m \in Maps, NEW j \in Nat
        PROVE  NameShown(bg'.podSpecs[m], j) =
                 IF m = map /\ j = id THEN name ELSE NameShown(bg.podSpecs[m], j)
    BY <2>4, <2>5
  <2>9. asked' = Shown(bg')
    <3> DEFINE put == [map |-> map, id |-> id, name |-> name]
    <3>1. asked' = {o \in asked : o.map # map \/ o.id # id}
                     \cup (IF name = None THEN {} ELSE {put})
      BY <1>1, <2>1, <2>2, <2>3
    <3>2. name # None => put \in [map : Maps, id : Nat, name : Names]
      OBVIOUS
    <3>3. None \notin Names
      BY DEF ConstantsFit, Deployable
    <3>4. ASSUME NEW o \in [map : Maps, id : Nat, name : Names]
          PROVE  o \in asked' <=> o \in Shown(bg')
      <4>1. CASE o.map = map /\ o.id = id
        <5>1. o \in Shown(bg') <=> o.name = name
          BY <2>8, <4>1 DEF Shown
        <5>2. o = [map |-> o.map, id |-> o.id, name |-> o.name]
          OBVIOUS
        <5>3. o \in asked' <=> name # None /\ o = put
          BY <3>1, <4>1
        <5> QED
          BY <3>3, <4>1, <5>1, <5>2, <5>3
      <4>2. CASE ~(o.map = map /\ o.id = id)
        <5>1. o \in Shown(bg') <=> o \in Shown(bg)
          BY <2>8, <4>2 DEF Shown
        <5>2. o # put
          BY <4>2
        <5> HIDE DEF put
        <5> QED
          BY <1>4, <3>1, <4>2, <5>1, <5>2
      <4> QED
        BY <4>1, <4>2
    <3>5. /\ asked' \subseteq [map : Maps, id : Nat, name : Names]
          /\ Shown(bg') \subseteq [map : Maps, id : Nat, name : Names]
      <4> HIDE DEF put
      <4> QED
        BY <1>4, <3>1, <3>2 DEF Shown
    <3> QED
      BY <3>4, <3>5
  <2> QED
    BY <2>6, <2>7, <2>9 DEF NamesInv, Shown
<1> QED
  BY <1>3, <1>6, <1>7, <1>8, <1>9 DEF Computed

LEMMA NamesKept ==
  ASSUME ConstantsFit, InstancesInv, NamesInv, [Next]_vars
  PROVE  /\ NamesInv'
         /\ ~raced' => \A map \in Maps : bg.podSpecs[map] # None =>
                         OneChanged(bg.podSpecs[map], bg'.podSpecs[map])
<1>1. CASE bg' = bg /\ asked' = asked /\ raced' = raced
  BY <1>1, NothingChanged DEF NamesInv, Shown, OneChanged
<1>2. CASE ~(bg' = bg /\ asked' = asked /\ raced' = raced)
  <2>1. PICK admin \in Admins : Patch(admin)
    BY <1>2 DEF Next, SetInstances, SetDisplayName, PatchFails, WriteIni, WriteIniFails,
       vars, history
  <2> QED
    BY <2>1, PatchNames DEF NamesInv
<1> QED
  BY <1>1, <1>2

\* For any number of admins and commands and any BattleGroup: as long as no
\* patch met a race, every partition shows the name last asked for its id and
\* none shows another, and a display-name command touches the override of one
\* partition alone.
THEOREM NamesAlwaysSound == ASSUME ConstantsFit PROVE Spec => NamesSound
<1>1. Init => NamesInv
  <2> SUFFICES ASSUME Init PROVE NamesInv
    OBVIOUS
  <2>1. /\ bg \in Resources /\ asked = {o \in Overrides(bg) : o.name # None}
    BY DEF Init
  <2>2. /\ bg.podSpecs \in [Maps -> {None} \cup Seq(PodSpec)]
        /\ \A map \in Maps : bg.podSpecs[map] # None => OneOverride(bg.podSpecs[map])
    BY <2>1 DEF ConstantsFit, Deployable
  <2> QED
    BY <2>1, <2>2, OverridesShown DEF NamesInv
<1>2. InstancesInv /\ NamesInv /\ [Next]_vars => NamesInv'
  BY NamesKept
<1>3. InstancesInv /\ NamesInv => NamesAsAsked
  BY OverridesShown DEF InstancesInv, TypeInv, NamesInv, NamesAsAsked
<1>4. InstancesInv /\ NamesInv /\ [Next]_vars =>
        [~raced' => \A map \in Maps : bg.podSpecs[map] # None =>
           LET old == bg.podSpecs[map]
               new == bg'.podSpecs[map]
           IN /\ \A i \in DOMAIN old :
                   /\ i \in DOMAIN new /\ new[i].index = old[i].index
                   /\ SameOthers(old[i].arguments, new[i].arguments)
              /\ \A i, j \in DOMAIN old : new[i] # old[i] /\ new[j] # old[j] => i = j]_vars
  BY NamesKept DEF OneChanged
<1> QED
  BY <1>1, <1>2, <1>3, <1>4, Invariance, PTL DEF Spec, NamesSound, OnlyOverrideChanges

=============================================================================
