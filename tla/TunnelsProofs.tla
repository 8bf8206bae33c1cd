---------------------------- MODULE TunnelsProofs ----------------------------
(***************************************************************************)
(* Theorems of Tunnels, for any number of forwarders, connections, outages,*)
(* commands under way and things the user does:                            *)
(*   - type correctness;                                                   *)
(*   - no forwarder and no session is left that nobody can stop;           *)
(*   - what the hooks show is what runs, and a removed server has no       *)
(*     tunnel, where commands did not cross.                               *)
(***************************************************************************)
EXTENDS Tunnels, FiniteSetTheorems, SequenceTheorems, TLAPS

-----------------------------------------------------------------------------
(* The invariants. *)

\* A loop runs only while its session is open; a task that reconnects holds the
\* mutex of its forwarder, alone, with no session there; and a task that has yet
\* to get a session from a closed provider is the one that makes it late.
SessionInv ==
  /\ SessionsAccounted
  /\ \A f \in listening : closed[f] = "open"
  /\ \A f \in fetching : session[f] = "none"
  /\ \A c \in Conn :
       /\ conn[c].pc # "free" => conn[c].of \in F
       /\ conn[c].pc = "connecting" => conn[c].of \in fetching
       /\ conn[c].pc \in {"asking", "connecting"} /\ closed[conn[c].of] # "open" =>
            closed[conn[c].of] = "late"
  /\ \A c, d \in Conn :
       conn[c].pc = "connecting" /\ conn[d].pc = "connecting" /\ conn[c].of = conn[d].of => c = d

\* The steps at which a command has a forwarder of its own in hand.
Holds(k) == calls[k].pc \in {"probe", "next_port", "insert", "close"}

\* Every forwarder is in one hand: an entry's or a command's.
Owned ==
  /\ \A i, j \in Ids : registry[i] = registry[j] /\ registry[i] # 0 => i = j
  /\ \A k \in Slots : Holds(k) => calls[k].f \in F /\ \A i \in Ids : registry[i] # calls[k].f
  /\ \A k, l \in Slots : Holds(k) /\ Holds(l) /\ calls[k].f = calls[l].f => k = l

\* What is about to be entered listens; what is being stopped listens no more,
\* and the mutex is held meanwhile; an entry that does not listen is being
\* replaced.
Stopping ==
  /\ \A k \in Slots :
       /\ calls[k].kind = "start" /\ calls[k].pc \in {"probe", "insert", "close"} =>
            calls[k].f \in listening
       /\ calls[k].pc = "next_port" => calls[k].f \notin listening
       /\ calls[k].pc = "close" =>
            /\ lock = k
            /\ IF calls[k].kind = "start"
               THEN registry[calls[k].id] \in F \ listening
               ELSE calls[k].f \notin listening
  /\ \A i \in Ids : registry[i] # 0 /\ registry[i] \notin listening =>
       \E k \in Slots : calls[k].kind = "start" /\ calls[k].id = i /\ calls[k].pc = "close"

\* Which steps which command goes through.
CallFits ==
  \A k \in Slots :
    /\ calls[k].kind = "none" => calls[k].pc = "sent"
    /\ calls[k].pc \in {"connect", "probe", "next_port", "insert"} => calls[k].kind = "start"
    /\ calls[k].pc = "close" => calls[k].kind \in {"start", "stop", "stop_all"}
    /\ calls[k].pc \in {"sent", "connect"} => calls[k].f = 0
    /\ calls[k].kind = "status" => calls[k].id = "svc"
    /\ calls[k].kind = "stop_all" => place = "closing"

Tracked ==
  /\ \A f \in listening :
       \/ \E i \in Ids : registry[i] = f
       \/ \E k \in Slots : calls[k].f = f /\ calls[k].pc \in {"probe", "insert", "close"}

TunnelInv == TypeOK /\ SessionInv /\ Owned /\ Stopping /\ CallFits /\ Tracked

\* What a lone command has made of the entry so far.
Settles(k) ==
  LET entry == registry[calls[k].id]
  IN /\ calls[k].kind = "start" =>
          /\ calls[k].pc # "close"
          /\ calls[k].pc \in {"connect", "probe", "next_port", "insert"} => entry = 0
     /\ calls[k].kind = "stop" /\ calls[k].pc # "sent" => entry = 0
     /\ calls[k].pc = "answered" => calls[k].f = entry

Alone(k, id) == \A l \in UnderWay(id) : l = k

\* The hooks know of the commands they wait for.
Waits ==
  /\ hook.kind = "connecting" <=> hook.call # 0
  /\ hook.call # 0 => calls[hook.call].kind = "start" /\ calls[hook.call].id = "mgmt"
  /\ place = "removed" => hook.kind = "idle"
  /\ busy => \E k \in Slots : calls[k].kind \in {"start", "stop"} /\ calls[k].id = "svc"

ManagementInv ==
  place # "closing" /\ "mgmt" \notin overlap =>
    /\ UnderWay("mgmt") = {} => registry["mgmt"] = IF hook.kind = "ready" THEN hook.f ELSE 0
    /\ \A k \in UnderWay("mgmt") :
         /\ Alone(k, "mgmt") /\ Settles(k)
         /\ calls[k].kind = "start" => hook.call = k
         /\ calls[k].kind = "stop" => hook.kind = "idle"

ButtonInv ==
  place # "closing" /\ "svc" \notin overlap =>
    /\ UnderWay("svc") = {} => registry["svc"] = shown
    /\ \A k \in UnderWay("svc") :
         /\ Alone(k, "svc") /\ Settles(k)
         /\ calls[k].kind = "start" => shown = 0
    /\ place = "removed" /\ ~strayed =>
         /\ UnderWay("svc") = {} => shown = 0
         /\ \A k \in UnderWay("svc") : calls[k].kind = "stop"

IInv == TunnelInv /\ Waits /\ ManagementInv /\ ButtonInv

-----------------------------------------------------------------------------
(* Least numbers, and the slots that commands go to. *)

LEMMA LeastIn ==
  ASSUME NEW S \in SUBSET Nat, S # {}
  PROVE  Least(S) \in S /\ \A y \in S : Least(S) <= y
<1>1. PICK x \in S : \A y \in S : ~ (<<y, x>> \in OpToRel(<, Nat))
  BY NatLessThanWellFounded, WFMin
<1>2. \A y \in S : x <= y
  <2>1. ASSUME NEW y \in S, y < x PROVE FALSE
    BY <1>1, <2>1 DEF OpToRel
  <2> QED
    BY <2>1
<1> QED
  BY <1>2 DEF Least

LEMMA CardinalityTwo ==
  ASSUME NEW x, NEW y, x # y
  PROVE  Cardinality({x, y}) = 2 /\ IsFiniteSet({x, y})
<1>1. IsFiniteSet({x}) /\ Cardinality({x}) = 1
  BY FS_Singleton
<1>2. {x} \cup {y} = {x, y} /\ y \notin {x}
  OBVIOUS
<1> QED
  BY <1>1, <1>2, FS_AddElement

FreeSlots == {k \in Slots : calls[k].kind = "none"}
Rank(k) == Cardinality({j \in 1..k : calls[j].kind = "none"})

LEMMA FreeRank ==
  ASSUME NEW k \in Slots
  PROVE  /\ Rank(k) = Cardinality({j \in FreeSlots : j <= k})
         /\ IsFiniteSet({j \in FreeSlots : j <= k}) /\ Rank(k) \in Nat
<1>1. {j \in 1..k : calls[j].kind = "none"} = {j \in FreeSlots : j <= k}
  BY TunnelsAssumption DEF Slots, FreeSlots
<1>2. IsFiniteSet(1..k)
  BY TunnelsAssumption, FS_Interval DEF Slots
<1>3. {j \in FreeSlots : j <= k} \subseteq 1..k
  BY TunnelsAssumption DEF Slots, FreeSlots
<1>4. IsFiniteSet({j \in FreeSlots : j <= k})
  BY <1>2, <1>3, FS_Subset
<1> QED
  BY <1>1, <1>4, FS_CardinalityType DEF Rank

LEMMA FreeFinite == IsFiniteSet(FreeSlots) /\ FreeSlots \in SUBSET Slots
<1>1. IsFiniteSet(Slots)
  BY TunnelsAssumption, FS_Interval DEF Slots
<1>2. FreeSlots \in SUBSET Slots
  BY DEF FreeSlots
<1> QED
  BY <1>1, <1>2, FS_Subset

LEMMA SlotsAreNumbers == Slots \in SUBSET Nat /\ \A k \in Slots : k \in Nat \ {0}
BY TunnelsAssumption DEF Slots

LEMMA SlotIsFree ==
  ASSUME FreeSlots # {}
  PROVE  /\ Slot \in FreeSlots /\ Rank(Slot) = 1
         /\ \A k \in FreeSlots \ {Slot} : Rank(k) >= 2
<1>1. Slot \in FreeSlots /\ \A k \in FreeSlots : Slot <= k
  <2>1. FreeSlots \in SUBSET Nat
    BY SlotsAreNumbers, FreeFinite
  <2> QED
    BY <2>1, LeastIn DEF Slot, FreeSlots
<1>2. Slot \in Slots
  BY <1>1 DEF FreeSlots
<1>3. {j \in FreeSlots : j <= Slot} = {Slot}
  <2>1. ASSUME NEW j \in FreeSlots, j <= Slot PROVE j = Slot
    <3>1. j \in Nat /\ Slot \in Nat /\ Slot <= j
      BY <1>1, <1>2, SlotsAreNumbers DEF FreeSlots
    <3> QED
      BY <2>1, <3>1
  <2>2. Slot <= Slot
    BY <1>2, SlotsAreNumbers
  <2> QED
    BY <1>1, <2>1, <2>2
<1>4. Rank(Slot) = 1
  BY <1>2, <1>3, FreeRank, FS_Singleton
<1>5. ASSUME NEW k \in FreeSlots \ {Slot} PROVE Rank(k) >= 2
  <2>1. k \in Slots /\ {Slot, k} \subseteq {j \in FreeSlots : j <= k}
    <3>1. k \in Slots /\ Slot <= k /\ k <= k
      BY <1>1, SlotsAreNumbers DEF FreeSlots
    <3> QED
      BY <1>1, <3>1
  <2>2. Cardinality({Slot, k}) = 2
    BY <1>5, CardinalityTwo
  <2>3. 2 <= Rank(k)
    <3> DEFINE upTo == {j \in FreeSlots : j <= k}
    <3>1. Rank(k) = Cardinality(upTo) /\ IsFiniteSet(upTo) /\ {Slot, k} \in SUBSET upTo
      BY <2>1, FreeRank
    <3> HIDE DEF upTo
    <3> QED
      BY <2>2, <3>1, FS_Subset
  <2> QED
    BY <2>1, <2>3, FreeRank
<1> QED
  BY <1>1, <1>4, <1>5

\* One command takes the first free slot.
LEMMA SendOne ==
  ASSUME NEW c, Send(<<c>>), calls \in [Slots -> Call]
  PROVE  /\ Slot \in FreeSlots
         /\ calls' = [calls EXCEPT ![Slot] = c]
         /\ overlap' = {i \in Ids : IF c.id = i \/ c.kind = "stop_all" THEN UnderWay(i) # {}
                                    ELSE i \in overlap}
<1>1. FreeSlots # {}
  <2>1. Cardinality(FreeSlots) >= 1
    BY DEF Send, FreeSlots
  <2> QED
    BY <2>1, FS_EmptySet
<1>2. calls' = [k \in Slots |->
                 IF calls[k].kind = "none" /\ Rank(k) <= 1 THEN <<c>>[Rank(k)] ELSE calls[k]]
  BY DEF Send, Rank
<1>3. ASSUME NEW k \in Slots
      PROVE  calls'[k] = IF k = Slot THEN c ELSE calls[k]
  <2>1. CASE k = Slot
    BY <1>1, <1>2, <2>1, SlotIsFree DEF FreeSlots
  <2>2. CASE k # Slot /\ k \in FreeSlots
    <3>1. ~(Rank(k) <= 1)
      <4>1. Rank(k) >= 2 /\ Rank(k) \in Nat
        BY <1>1, <2>2, SlotIsFree, FreeRank
      <4> QED
        BY <4>1
    <3> QED
      BY <1>2, <2>2, <3>1
  <2>3. CASE k \notin FreeSlots
    BY <1>1, <1>2, <2>3, SlotIsFree DEF FreeSlots
  <2> QED
    BY <2>1, <2>2, <2>3
<1>4. calls' = [calls EXCEPT ![Slot] = c]
  BY <1>2, <1>3
<1>5. ASSUME NEW i \in Ids
      PROVE  i \in overlap' <=> IF c.id = i \/ c.kind = "stop_all" THEN UnderWay(i) # {}
                               ELSE i \in overlap
  <2> DEFINE mine == {n \in DOMAIN <<c>> : <<c>>[n].id = i \/ <<c>>[n].kind = "stop_all"}
  <2>1. i \in overlap' <=> IF mine = {} THEN i \in overlap
                          ELSE Cardinality(mine) > 1 \/ UnderWay(i) # {}
    BY DEF Send
  <2>2. mine = IF c.id = i \/ c.kind = "stop_all" THEN {1} ELSE {}
    <3>1. DOMAIN <<c>> = {1} /\ <<c>>[1] = c
      OBVIOUS
    <3> QED
      BY <3>1
  <2> HIDE DEF mine
  <2>3. mine # {} => Cardinality(mine) = 1
    BY <2>2, FS_Singleton
  <2>4. ~(1 > 1) /\ {1} # {}
    OBVIOUS
  <2> QED
    BY <2>1, <2>2, <2>3, <2>4
<1>6. overlap' \subseteq Ids
  BY DEF Send
<1> QED
  BY <1>1, <1>4, <1>5, <1>6, SlotIsFree

LEMMA SendNone ==
  ASSUME Send(<<>>), calls \in [Slots -> Call], overlap \subseteq Ids
  PROVE  calls' = calls /\ overlap' = overlap
<1>1. calls' = [k \in Slots |->
                 IF calls[k].kind = "none" /\ Rank(k) <= 0 THEN <<>>[Rank(k)] ELSE calls[k]]
  BY DEF Send, Rank
<1>2. ASSUME NEW k \in FreeSlots PROVE ~(Rank(k) <= 0)
  <2>1. k \in Slots
    BY FreeFinite
  <2>2. Rank(k) \in Nat /\ (Rank(k) = 1 \/ Rank(k) >= 2)
    BY <2>1, SlotIsFree, FreeRank
  <2> QED
    BY <2>2
<1>3. calls' = calls
  BY <1>1, <1>2 DEF FreeSlots
<1>4. overlap' = {i \in Ids : i \in overlap}
  <2>1. DOMAIN <<>> = {}
    OBVIOUS
  <2> QED
    BY <2>1 DEF Send
<1> QED
  BY <1>3, <1>4

LEMMA SecondFree ==
  ASSUME Cardinality(FreeSlots) >= 2
  PROVE  \E s \in FreeSlots \ {Slot} :
           Rank(s) = 2 /\ \A k \in FreeSlots \ {Slot, s} : Rank(k) >= 3
<1> DEFINE rest == FreeSlots \ {Slot}
<1>0. FreeSlots # {} /\ rest # {}
  <2>1. FreeSlots # {} /\ Cardinality(FreeSlots) # 1
    BY FreeFinite, FS_EmptySet, FS_CardinalityType
  <2>2. FreeSlots # {Slot}
    BY <2>1, FS_Singleton
  <2> QED
    BY <2>1, <2>2
<1>1. Slot \in FreeSlots /\ \A k \in FreeSlots : Slot <= k
  <2>1. FreeSlots \in SUBSET Nat
    BY SlotsAreNumbers, FreeFinite
  <2> QED
    BY <1>0, <2>1, LeastIn DEF Slot, FreeSlots
<1>2. PICK s \in rest : \A k \in rest : s <= k
  <2>1. rest \in SUBSET Nat
    BY SlotsAreNumbers, FreeFinite
  <2> HIDE DEF rest
  <2> QED
    BY <1>0, <2>1, LeastIn
<1>3. s \in Slots /\ Slot \in Slots /\ s \in Nat /\ Slot \in Nat
  BY <1>1, <1>2, FreeFinite, SlotsAreNumbers
<1>4. Rank(s) = 2
  <2>1. ASSUME NEW j \in FreeSlots PROVE j <= s <=> j \in {Slot, s}
    <3>1. j \in Nat
      BY SlotsAreNumbers, FreeFinite
    <3> QED
      BY <1>1, <1>2, <1>3, <3>1
  <2>2. {j \in FreeSlots : j <= s} = {Slot, s}
    BY <1>1, <1>2, <2>1
  <2> QED
    BY <1>2, <1>3, <2>2, FreeRank, CardinalityTwo
<1>5. ASSUME NEW k \in FreeSlots \ {Slot, s} PROVE Rank(k) >= 3
  <2> DEFINE upTo == {j \in FreeSlots : j <= k}
  <2>1. Rank(k) = Cardinality(upTo) /\ IsFiniteSet(upTo) /\ {Slot, s, k} \in SUBSET upTo
    <3>1. k \in Slots /\ k \in Nat /\ k <= k
      BY FreeFinite, SlotsAreNumbers
    <3> QED
      BY <1>1, <1>2, <3>1, FreeRank
  <2>2. Cardinality({Slot, s, k}) = 3
    <3>1. Cardinality({Slot, s}) = 2 /\ IsFiniteSet({Slot, s})
      BY <1>2, CardinalityTwo
    <3>2. {Slot, s} \cup {k} = {Slot, s, k} /\ k \notin {Slot, s}
      OBVIOUS
    <3> QED
      BY <3>1, <3>2, FS_AddElement
  <2> HIDE DEF upTo
  <2>3. 3 <= Rank(k)
    BY <2>1, <2>2, FS_Subset
  <2> QED
    BY <2>1, <2>3, FS_CardinalityType
<1> QED
  BY <1>2, <1>4, <1>5

LEMMA Pair ==
  ASSUME NEW c, NEW d
  PROVE  Len(<<c, d>>) = 2 /\ DOMAIN <<c, d>> = {1, 2} /\ <<c, d>>[1] = c /\ <<c, d>>[2] = d
<1>1. DOMAIN <<c, d>> = {1, 2}
  OBVIOUS
<1> QED
  BY <1>1

LEMMA ConcatPair == ASSUME NEW S, NEW c \in S, NEW d \in S PROVE <<c>> \o <<d>> = <<c, d>>
<1>1. <<c>> \in Seq(S) /\ <<d>> \in Seq(S) /\ <<c, d>> \in Seq(S)
  OBVIOUS
<1>2. /\ <<c>> \o <<d>> \in Seq(S) /\ Len(<<c>> \o <<d>>) = 2
      /\ (<<c>> \o <<d>>)[1] = c /\ (<<c>> \o <<d>>)[2] = d
  BY <1>1
<1>3. Len(<<c, d>>) = 2 /\ <<c, d>>[1] = c /\ <<c, d>>[2] = d
  BY Pair
<1>4. \A i \in 1..2 : i = 1 \/ i = 2
  OBVIOUS
<1>5. \A i \in 1..2 : (<<c>> \o <<d>>)[i] = <<c, d>>[i]
  BY <1>2, <1>3, <1>4
<1> QED
  BY <1>1, <1>2, <1>3, <1>5, SeqEqual

\* Two commands take two free slots, the first of them the first.
LEMMA SendTwo ==
  ASSUME NEW c, NEW d, Send(<<c, d>>), calls \in [Slots -> Call],
         c.kind # "stop_all", d.kind # "stop_all"
  PROVE  /\ Slot \in FreeSlots
         /\ \E s \in FreeSlots : s # Slot /\ calls' = [calls EXCEPT ![Slot] = c, ![s] = d]
         /\ overlap' = {i \in Ids : IF c.id = i /\ d.id = i THEN TRUE
                                    ELSE IF c.id = i \/ d.id = i THEN UnderWay(i) # {}
                                    ELSE i \in overlap}
<1>0. Len(<<c, d>>) = 2 /\ DOMAIN <<c, d>> = {1, 2} /\ <<c, d>>[1] = c /\ <<c, d>>[2] = d
  BY Pair
<1>1. Cardinality(FreeSlots) >= 2
  BY <1>0 DEF Send, FreeSlots
<1>2. FreeSlots # {}
  <2>1. ~(0 >= 2)
    OBVIOUS
  <2> QED
    BY <1>1, <2>1, FS_EmptySet
<1>3. PICK s \in FreeSlots \ {Slot} :
        Rank(s) = 2 /\ \A k \in FreeSlots \ {Slot, s} : Rank(k) >= 3
  BY <1>1, SecondFree
<1>4. calls' = [k \in Slots |->
                 IF calls[k].kind = "none" /\ Rank(k) <= 2 THEN <<c, d>>[Rank(k)] ELSE calls[k]]
  BY <1>0 DEF Send, Rank
<1>5. ASSUME NEW k \in Slots
      PROVE  calls'[k] = IF k = Slot THEN c ELSE IF k = s THEN d ELSE calls[k]
  <2>1. CASE k = Slot
    BY <1>0, <1>2, <1>4, <2>1, SlotIsFree DEF FreeSlots
  <2>2. CASE k = s
    BY <1>0, <1>3, <1>4, <2>2 DEF FreeSlots
  <2>3. CASE k \in FreeSlots \ {Slot, s}
    <3>1. ~(Rank(k) <= 2)
      <4>1. Rank(k) >= 3 /\ Rank(k) \in Nat
        BY <1>3, <2>3, FreeRank
      <4> QED
        BY <4>1
    <3> QED
      BY <1>4, <2>3, <3>1
  <2>4. CASE k \notin FreeSlots
    BY <1>2, <1>3, <1>4, <2>4, SlotIsFree DEF FreeSlots
  <2> QED
    BY <2>1, <2>2, <2>3, <2>4
<1>6. calls' = [calls EXCEPT ![Slot] = c, ![s] = d]
  <2>1. Slot \in Slots /\ s \in Slots
    BY <1>2, <1>3, SlotIsFree, FreeFinite
  <2> QED
    BY <1>3, <1>4, <1>5, <2>1
<1>7. ASSUME NEW i \in Ids
      PROVE  i \in overlap' <=> IF c.id = i /\ d.id = i THEN TRUE
                               ELSE IF c.id = i \/ d.id = i THEN UnderWay(i) # {}
                               ELSE i \in overlap
  <2> DEFINE mine == {n \in DOMAIN <<c, d>> : <<c, d>>[n].id = i \/ <<c, d>>[n].kind = "stop_all"}
  <2>1. i \in overlap' <=> IF mine = {} THEN i \in overlap
                          ELSE Cardinality(mine) > 1 \/ UnderWay(i) # {}
    BY DEF Send
  <2>2. mine = (IF c.id = i THEN {1} ELSE {}) \cup (IF d.id = i THEN {2} ELSE {})
    BY <1>0
  <2> HIDE DEF mine
  <2>3. CASE c.id = i /\ d.id = i
    <3>1. mine = {1, 2}
      BY <2>2, <2>3
    <3>2. Cardinality({1, 2}) = 2
      <4>1. 1 # 2
        OBVIOUS
      <4> QED
        BY <4>1, CardinalityTwo
    <3> QED
      <4>1. 2 > 1 /\ mine # {}
        BY <3>1
      <4> QED
        BY <2>1, <2>3, <3>1, <3>2, <4>1
  <2>4. CASE c.id = i /\ d.id # i
    <3>1. mine = {1}
      BY <2>2, <2>4
    <3>2. Cardinality(mine) = 1
      BY <3>1, FS_Singleton
    <3> QED
      BY <2>1, <2>4, <3>1, <3>2
  <2>5. CASE c.id # i /\ d.id = i
    <3>1. mine = {2}
      BY <2>2, <2>5
    <3>2. Cardinality(mine) = 1
      BY <3>1, FS_Singleton
    <3> QED
      BY <2>1, <2>5, <3>1, <3>2
  <2>6. CASE c.id # i /\ d.id # i
    BY <2>1, <2>2, <2>6
  <2> QED
    BY <2>3, <2>4, <2>5, <2>6
<1>8. overlap' \subseteq Ids
  BY DEF Send
<1> QED
  BY <1>2, <1>3, <1>6, <1>7, <1>8, SlotIsFree

-----------------------------------------------------------------------------
(* The sessions. *)

LEMMA OpenKeepsSessions ==
  ASSUME ForwarderTypeOK, SessionInv, NEW f \in F, Open(f), f \notin fetching, TasksOf(f) = {}
  PROVE  ForwarderTypeOK' /\ SessionInv'
<1> USE DEF Open, ForwarderTypeOK, SessionInv, SessionsAccounted, TasksOf
<1>1. ForwarderTypeOK'
  OBVIOUS
<1>2. SessionsAccounted'
  OBVIOUS
<1> QED
  BY <1>1, <1>2

LEMMA ShutKeepsSessions ==
  ASSUME ForwarderTypeOK, SessionInv, NEW f, Shut(f)
  PROVE  ForwarderTypeOK' /\ SessionInv'
BY DEF Shut, ForwarderTypeOK, SessionInv, SessionsAccounted, TasksOf

LEMMA CloseKeepsSessions ==
  ASSUME ForwarderTypeOK, SessionInv, NEW f \in F, f \notin listening, Close(f)
  PROVE  ForwarderTypeOK' /\ SessionInv'
<1> USE DEF Close, ForwarderTypeOK, SessionInv, TasksOf
<1>1. ForwarderTypeOK'
  OBVIOUS
<1>2. SessionsAccounted'
  BY DEF SessionsAccounted
<1>3. ASSUME NEW c \in Conn, conn[c].pc \in {"asking", "connecting"}, closed'[conn[c].of] # "open"
      PROVE  closed'[conn[c].of] = "late"
  <2>1. conn[c].of \in F
    BY <1>3
  <2>2. CASE conn[c].of = f
    BY <1>3, <2>2
  <2>3. CASE conn[c].of # f
    BY <1>3, <2>1, <2>3
  <2> QED
    BY <2>2, <2>3
<1> QED
  BY <1>1, <1>2, <1>3

LEMMA TasksKeepSessions ==
  ASSUME ForwarderTypeOK, SessionInv, NEW c \in Conn,
         TaskStep(c) \/ Hangup(c) \/ \E f \in F : Accept(f, c)
  PROVE  ForwarderTypeOK' /\ SessionInv' /\ UNCHANGED listening
<1> USE DEF ForwarderTypeOK, SessionInv, SessionsAccounted, TasksOf, Idle
<1>1. CASE Ask(c)
  <2>1. CASE session[conn[c].of] = "live"
    BY <1>1, <2>1 DEF Ask
  <2>2. CASE session[conn[c].of] # "live"
    <3>1. conn[c].of \in F /\ conn[c].of \notin fetching /\ conn[c].pc = "asking"
      BY <1>1 DEF Ask
    <3>2. ForwarderTypeOK'
      BY <1>1, <2>2, <3>1 DEF Ask
    <3>3. SessionsAccounted'
      BY <1>1, <2>2, <3>1 DEF Ask
    <3>4. /\ \A f \in listening' : closed'[f] = "open"
          /\ \A f \in fetching' : session'[f] = "none"
      BY <1>1, <2>2, <3>1 DEF Ask
    <3>5. \A d \in Conn :
            /\ conn'[d].pc # "free" => conn'[d].of \in F
            /\ conn'[d].pc = "connecting" => conn'[d].of \in fetching'
            /\ conn'[d].pc \in {"asking", "connecting"} /\ closed'[conn'[d].of] # "open" =>
                 closed'[conn'[d].of] = "late"
      BY <1>1, <2>2, <3>1 DEF Ask
    <3>6. \A d, e \in Conn :
            conn'[d].pc = "connecting" /\ conn'[e].pc = "connecting" /\ conn'[d].of = conn'[e].of
              => d = e
      BY <1>1, <2>2, <3>1 DEF Ask
    <3> QED
      BY <1>1, <3>2, <3>3, <3>4, <3>5, <3>6 DEF Ask
  <2> QED
    BY <2>1, <2>2
<1>2. CASE Reconnected(c)
  BY <1>2 DEF Reconnected
<1>3. CASE GivesUp(c)
  BY <1>3 DEF GivesUp
<1>4. CASE Hangup(c)
  <2> DEFINE f == conn[c].of
  <2>1. f \in F /\ conn' = [conn EXCEPT ![c] = Idle] /\ UNCHANGED <<closed, fetching, listening>>
    BY <1>4 DEF Hangup
  <2>2. CASE f \notin listening /\ closed[f] # "open" /\ TasksOf(f) = {c}
    <3>1. session' = [session EXCEPT ![f] = "none"]
      BY <1>4, <2>2 DEF Hangup
    <3>2. ForwarderTypeOK'
      BY <1>4, <2>1, <3>1 DEF Hangup
    <3>3. SessionsAccounted'
      BY <2>1, <2>2, <3>1
    <3> QED
      BY <2>1, <3>1, <3>2, <3>3
  <2>3. CASE ~(f \notin listening /\ closed[f] # "open" /\ TasksOf(f) = {c})
    <3>1. session' = session
      BY <1>4, <2>3 DEF Hangup
    <3>2. ForwarderTypeOK'
      BY <1>4, <2>1, <3>1 DEF Hangup
    <3>3. SessionsAccounted'
      BY <2>1, <2>3, <3>1
    <3> QED
      BY <2>1, <3>1, <3>2, <3>3
  <2> QED
    BY <2>2, <2>3
<1>5. ASSUME NEW f \in F, Accept(f, c)
      PROVE  ForwarderTypeOK' /\ SessionInv' /\ UNCHANGED listening
  <2>1. /\ UNCHANGED <<up, outages, listening, session, closed, fetching>> /\ closed[f] = "open"
        /\ conn' = [conn EXCEPT ![c] = [of |-> f, pc |-> "asking"]] /\ conn[c].pc = "free"
    BY <1>5 DEF Accept
  <2>2. ForwarderTypeOK'
    BY <2>1
  <2>3. SessionsAccounted'
    <3>1. conn[c].of = 0 /\ 0 \notin F
      BY <1>5, ForwarderAssumption DEF Accept, F
    <3>2. \A g \in F : TasksOf(g) \subseteq TasksOf(g)'
      BY <2>1, <3>1
    <3> QED
      BY <2>1, <3>2
  <2> QED
    BY <2>1, <2>2, <2>3
<1> QED
  BY <1>1, <1>2, <1>3, <1>4, <1>5 DEF TaskStep

LEMMA NetworkKeepsSessions ==
  ASSUME ForwarderTypeOK, SessionInv, Network
  PROVE  ForwarderTypeOK' /\ SessionInv' /\ UNCHANGED listening
<1> USE ForwarderAssumption DEF ForwarderTypeOK, SessionInv, SessionsAccounted, TasksOf
<1>1. CASE Outage \/ Return
  <2>1. UNCHANGED <<listening, session, closed, fetching, conn>>
    BY <1>1 DEF Outage, Return
  <2>2. up' \in BOOLEAN
    BY <1>1 DEF Outage, Return
  <2>3. outages' \in 0..MaxOutages
    BY <1>1 DEF Outage, Return
  <2>4. ForwarderTypeOK'
    BY <2>1, <2>2, <2>3
  <2>5. SessionsAccounted'
    BY <2>1
  <2> HIDE DEF ForwarderTypeOK, SessionsAccounted
  <2> QED
    BY <2>1, <2>4, <2>5
<1>2. CASE SessionsDie
  <2>1. /\ UNCHANGED <<up, outages, listening, closed, fetching, conn>>
        /\ session' = [f \in F |-> IF session[f] = "live" THEN "dead" ELSE session[f]]
    BY <1>2 DEF SessionsDie
  <2>2. session' \in [F -> {"none", "live", "dead"}]
    BY <2>1
  <2>3. \A f \in F : session'[f] = "none" <=> session[f] = "none"
    BY <2>1
  <2>4. ForwarderTypeOK'
    BY <2>1, <2>2
  <2>5. SessionsAccounted'
    BY <2>1, <2>3
  <2> QED
    BY <2>1, <2>3, <2>4, <2>5
<1> QED
  BY <1>1, <1>2 DEF Network

-----------------------------------------------------------------------------
(* The commands. *)

\* What a step of command k does to the commands.
Moved(k, pc, f) ==
  /\ calls' \in [Slots -> Call]
  /\ \A j \in Slots \ {k} : calls'[j] = calls[j]
  /\ calls'[k].kind = calls[k].kind /\ calls'[k].id = calls[k].id
  /\ calls'[k].pc = pc /\ calls'[k].f = f

Steps == {"sent", "connect", "probe", "next_port", "insert", "close", "answered"}

LEMMA GoesMoves ==
  ASSUME calls \in [Slots -> Call], NEW k \in Slots, NEW pc \in Steps, Goes(k, pc)
  PROVE  Moved(k, pc, calls[k].f)
BY DEF Goes, Moved, Call, Steps

LEMMA GoesWithMoves ==
  ASSUME calls \in [Slots -> Call], NEW k \in Slots, NEW pc \in Steps, NEW f \in F \cup {0},
         GoesWith(k, pc, f)
  PROVE  Moved(k, pc, f)
BY DEF GoesWith, Moved, Call, Steps

LEMMA FreshForwarder ==
  ASSUME TypeOK, FreeForwarders # {}, NEW f, f = Least(FreeForwarders)
  PROVE  /\ f \in F /\ f # 0 /\ f \notin fetching /\ TasksOf(f) = {} /\ f \notin listening
         /\ \A i \in Ids : registry[i] # f
         /\ \A k \in Slots : calls[k].f # f
<1>1. FreeForwarders \in SUBSET Nat
  BY ForwarderAssumption DEF FreeForwarders, F
<1>2. f \in FreeForwarders
  BY <1>1, LeastIn
<1>3. f \in F /\ f # 0
  BY <1>2, ForwarderAssumption DEF FreeForwarders, F
<1>4. f \notin fetching /\ f \notin listening /\ TasksOf(f) = {}
  BY <1>2 DEF FreeForwarders
<1>5. f \notin {registry[i] : i \in Ids} /\ f \notin {calls[k].f : k \in Slots}
  BY <1>2 DEF FreeForwarders
<1> QED
  BY <1>3, <1>4, <1>5

\* The rest of the state keeps its type when the commands and the entries do.
LEMMA QuietType ==
  ASSUME TypeOK, Quiet, ForwarderTypeOK', calls' \in [Slots -> Call],
         registry' \in [Ids -> F \cup {0}], lock' \in Slots \cup {0}
  PROVE  TypeOK'
BY DEF TypeOK, Quiet

LEMMA LookUpStep ==
  ASSUME TunnelInv, NEW k \in Slots, LookUp(k)
  PROVE  TunnelInv'
<1> USE DEF TunnelInv
<1> DEFINE f == registry[calls[k].id]
<1>1. /\ At(k, {"start", "status"}, "sent") /\ lock = 0
      /\ UNCHANGED <<forwarderVars, registry, lock>> /\ Quiet
  BY DEF LookUp
<1>2. \E pc \in {"answered", "connect"}, g \in F \cup {0} :
        Moved(k, pc, g) /\ (pc = "connect" => calls[k].kind = "start" /\ g = 0)
  <2>1. f \in F \cup {0} /\ calls[k].f = 0
    BY <1>1 DEF TypeOK, Call, At, CallFits
  <2>2. CASE f \in listening \/ calls[k].kind = "status"
    BY <2>1, <2>2, GoesWithMoves DEF LookUp, TypeOK, Steps
  <2>3. CASE ~(f \in listening \/ calls[k].kind = "status")
    BY <1>1, <2>1, <2>3, GoesMoves DEF LookUp, TypeOK, Steps, At
  <2> QED
    BY <2>2, <2>3
<1>3. SessionInv' /\ ForwarderTypeOK'
  BY <1>1 DEF forwarderVars, SessionInv, SessionsAccounted, TasksOf, TypeOK, ForwarderTypeOK
<1>4. TypeOK'
  BY <1>1, <1>2, <1>3, QuietType DEF TypeOK, Moved
<1>5. Owned'
  BY <1>1, <1>2 DEF Owned, Holds, Moved, At
<1>6. Stopping'
  BY <1>1, <1>2 DEF Stopping, Moved, At, forwarderVars
<1>7. CallFits'
  BY <1>1, <1>2 DEF CallFits, Moved, At, Quiet
<1>8. Tracked'
  BY <1>1, <1>2 DEF Tracked, Moved, At, forwarderVars
<1> QED
  BY <1>3, <1>4, <1>5, <1>6, <1>7, <1>8

LEMMA ConnectStep ==
  ASSUME TunnelInv, NEW k \in Slots, Connect(k)
  PROVE  TunnelInv'
<1> USE DEF TunnelInv
<1> DEFINE f == Least(FreeForwarders)
<1>1. /\ At(k, {"start"}, "connect") /\ Open(f) /\ UNCHANGED <<registry, lock>> /\ Quiet
      /\ FreeForwarders # {}
  BY DEF Connect
<1>2. /\ f \in F /\ f # 0 /\ f \notin fetching /\ TasksOf(f) = {} /\ f \notin listening
      /\ \A i \in Ids : registry[i] # f
      /\ \A j \in Slots : calls[j].f # f
  BY <1>1, FreshForwarder
<1> HIDE DEF f
<1>3. \E pc \in {"probe", "insert"} : Moved(k, pc, f)
  BY <1>2, GoesWithMoves DEF Connect, TypeOK, Steps, f
<1>4. SessionInv' /\ ForwarderTypeOK'
  BY <1>1, <1>2, OpenKeepsSessions DEF TypeOK
<1>5. TypeOK'
  BY <1>1, <1>3, <1>4, QuietType DEF TypeOK, Moved
<1>6. listening' = listening \cup {f}
  BY <1>1 DEF Open
<1>7. Owned'
  BY <1>1, <1>2, <1>3 DEF Owned, Holds, Moved
<1>8. Stopping'
  <2>1. \A j \in Slots : calls[j].id \in Ids
    BY DEF TypeOK, Call
  <2> QED
    BY <1>1, <1>2, <1>3, <1>6, <2>1 DEF Stopping, Moved, At
<1>9. CallFits'
  BY <1>1, <1>3 DEF CallFits, Moved, At, Quiet
<1>10. Tracked'
  BY <1>1, <1>3, <1>6 DEF Tracked, Moved, At
<1> QED
  BY <1>4, <1>5, <1>7, <1>8, <1>9, <1>10

LEMMA ConnectFailsStep ==
  ASSUME TunnelInv, NEW k \in Slots, ConnectFails(k)
  PROVE  TunnelInv'
<1> USE DEF TunnelInv
<1>1. /\ At(k, {"start"}, "connect") /\ UNCHANGED <<forwarderVars, registry, lock>> /\ Quiet
  BY DEF ConnectFails
<1>2. Moved(k, "answered", 0)
  BY GoesWithMoves DEF ConnectFails, TypeOK, Steps
<1>3. SessionInv' /\ ForwarderTypeOK'
  BY <1>1 DEF forwarderVars, SessionInv, SessionsAccounted, TasksOf, TypeOK, ForwarderTypeOK
<1>4. TypeOK'
  BY <1>1, <1>2, <1>3, QuietType DEF TypeOK, Moved
<1>5. Owned'
  BY <1>1, <1>2 DEF Owned, Holds, Moved
<1>6. Stopping'
  BY <1>1, <1>2 DEF Stopping, Moved, At, forwarderVars
<1>7. CallFits'
  BY <1>1, <1>2 DEF CallFits, Moved, At, Quiet
<1>8. Tracked'
  BY <1>1, <1>2 DEF Tracked, Moved, At, forwarderVars
<1> QED
  BY <1>3, <1>4, <1>5, <1>6, <1>7, <1>8

LEMMA ProbeStep ==
  ASSUME TunnelInv, NEW k \in Slots, Probe(k)
  PROVE  TunnelInv'
<1> USE DEF TunnelInv
<1> DEFINE f == calls[k].f
<1>1. At(k, {"start"}, "probe") /\ UNCHANGED <<registry, lock>> /\ Quiet
  BY DEF Probe
<1>2. f \in F /\ \A i \in Ids : registry[i] # f
  BY <1>1 DEF Owned, Holds, At
<1>3. CASE Goes(k, "insert") /\ UNCHANGED forwarderVars
  <2>1. Moved(k, "insert", f)
    BY <1>3, GoesMoves DEF TypeOK, Steps
  <2>2. SessionInv' /\ ForwarderTypeOK'
    BY <1>3 DEF forwarderVars, SessionInv, SessionsAccounted, TasksOf, TypeOK, ForwarderTypeOK
  <2>3. TypeOK'
    BY <1>1, <2>1, <2>2, QuietType DEF TypeOK, Moved
  <2>4. Owned'
    BY <1>1, <2>1 DEF Owned, Holds, Moved, At
  <2>5. Stopping'
    BY <1>1, <1>3, <2>1 DEF Stopping, Moved, At, forwarderVars
  <2>6. CallFits'
    BY <1>1, <2>1 DEF CallFits, Moved, At, Quiet
  <2>7. Tracked'
    BY <1>1, <1>3, <2>1 DEF Tracked, Moved, At, forwarderVars
  <2> QED
    BY <2>2, <2>3, <2>4, <2>5, <2>6, <2>7
<1>4. CASE Goes(k, "next_port") /\ Shut(f)
  <2>1. Moved(k, "next_port", f)
    BY <1>4, GoesMoves DEF TypeOK, Steps
  <2>2. SessionInv' /\ ForwarderTypeOK'
    BY <1>4, ShutKeepsSessions DEF TypeOK
  <2>3. TypeOK'
    BY <1>1, <2>1, <2>2, QuietType DEF TypeOK, Moved
  <2>4. Owned'
    BY <1>1, <2>1 DEF Owned, Holds, Moved, At
  <2>5. listening' = listening \ {f}
    BY <1>4 DEF Shut
  <2>6. Stopping'
    <3>1. \A j \in Slots : calls[j].id \in Ids
      BY DEF TypeOK, Call
    <3>2. \A j \in Slots \ {k} : Holds(j) => calls[j].f # f
      BY <1>1 DEF Owned, Holds, At
    <3> QED
      BY <1>1, <1>2, <2>1, <2>5, <3>1, <3>2 DEF Stopping, Moved, At, Holds
  <2>7. CallFits'
    BY <1>1, <2>1 DEF CallFits, Moved, At, Quiet
  <2>8. Tracked'
    BY <1>1, <2>1, <2>5 DEF Tracked, Moved, At
  <2> QED
    BY <2>2, <2>3, <2>4, <2>6, <2>7, <2>8
<1> QED
  BY <1>3, <1>4 DEF Probe

LEMMA NextPortStep ==
  ASSUME TunnelInv, NEW k \in Slots, NextPort(k)
  PROVE  TunnelInv'
<1> USE DEF TunnelInv
<1> DEFINE f == calls[k].f
<1>1. At(k, {"start"}, "next_port") /\ UNCHANGED <<registry, lock>> /\ Quiet /\ Close(f)
  BY DEF NextPort
<1>2. f \in F \ listening /\ \A i \in Ids : registry[i] # f
  BY <1>1 DEF Owned, Holds, At, Stopping
<1>3. \E pc \in {"connect", "answered"} : Moved(k, pc, 0)
  <2>1. PICK pc \in {"connect", "answered"} :
          calls' = [calls EXCEPT ![k].f = 0, ![k].port = 2, ![k].pc = pc]
    BY DEF NextPort
  <2>2. calls \in [Slots -> Call]
    BY DEF TypeOK
  <2>3. [calls[k] EXCEPT !.f = 0, !.port = 2, !.pc = pc] \in Call
    BY <2>2 DEF Call
  <2>4. calls' = [calls EXCEPT ![k] = [calls[k] EXCEPT !.f = 0, !.port = 2, !.pc = pc]]
    BY <2>1, <2>2
  <2>5. Moved(k, pc, 0)
    BY <2>2, <2>3, <2>4 DEF Moved, Call
  <2> QED
    BY <2>5
<1>4. SessionInv' /\ ForwarderTypeOK'
  BY <1>1, <1>2, CloseKeepsSessions DEF TypeOK
<1>5. TypeOK'
  BY <1>1, <1>3, <1>4, QuietType DEF TypeOK, Moved
<1>6. listening' = listening
  BY <1>1 DEF Close
<1>7. Owned'
  BY <1>1, <1>3 DEF Owned, Holds, Moved
<1>8. Stopping'
  BY <1>1, <1>3, <1>6 DEF Stopping, Moved, At
<1>9. CallFits'
  BY <1>1, <1>3 DEF CallFits, Moved, At, Quiet
<1>10. Tracked'
  BY <1>1, <1>3, <1>6 DEF Tracked, Moved, At
<1> QED
  BY <1>4, <1>5, <1>7, <1>8, <1>9, <1>10

LEMMA NobodyCloses ==
  ASSUME TunnelInv, NEW k \in Slots, calls[k].pc # "close", lock \in {0, k}
  PROVE  \A j \in Slots : calls[j].pc # "close"
BY SlotsAreNumbers DEF TunnelInv, Stopping

LEMMA InsertStep ==
  ASSUME TunnelInv, NEW k \in Slots, Insert(k)
  PROVE  TunnelInv'
<1> USE DEF TunnelInv
<1> DEFINE f == calls[k].f
           id == calls[k].id
           old == registry[id]
<1>1. At(k, {"start"}, "insert") /\ lock = 0 /\ Quiet
  BY DEF Insert
<1>2. id \in Ids /\ old \in F \cup {0} /\ 0 \notin F
  BY ForwarderAssumption DEF TypeOK, Call, F
<1>3. f \in F /\ f \in listening /\ \A i \in Ids : registry[i] # f
  BY <1>1 DEF Owned, Holds, At, Stopping
<1>4. \A j \in Slots : calls[j].pc # "close"
  BY <1>1, NobodyCloses DEF At
<1>5. \A j \in Slots : calls[j].id \in Ids
  BY DEF TypeOK, Call
<1>6. CASE old = 0
  <2>1. Moved(k, "answered", f) /\ UNCHANGED <<forwarderVars, lock>>
    BY <1>6, GoesMoves DEF Insert, TypeOK, Steps
  <2>2. registry' = [registry EXCEPT ![id] = f]
    BY <1>6 DEF Insert
  <2>3. SessionInv' /\ ForwarderTypeOK'
    BY <2>1 DEF forwarderVars, SessionInv, SessionsAccounted, TasksOf, TypeOK, ForwarderTypeOK
  <2>4. TypeOK'
    BY <1>1, <1>2, <1>3, <2>1, <2>2, <2>3, QuietType DEF TypeOK, Moved
  <2>5. Owned'
    <3>1. \A i \in Ids : registry'[i] = IF i = id THEN f ELSE registry[i]
      BY <1>2, <2>2 DEF TypeOK
    <3>2. \A j \in Slots \ {k} : Holds(j) => calls[j].f # f
      BY <1>1 DEF Owned, Holds, At
    <3> QED
      BY <1>3, <2>1, <3>1, <3>2 DEF Owned, Holds, Moved
  <2>6. Stopping'
    <3>1. \A i \in Ids : registry'[i] = IF i = id THEN f ELSE registry[i]
      BY <1>2, <2>2 DEF TypeOK
    <3> QED
      BY <1>3, <1>4, <1>5, <2>1, <3>1 DEF Stopping, Moved, forwarderVars
  <2>7. CallFits'
    BY <1>1, <2>1 DEF CallFits, Moved, At, Quiet
  <2>8. Tracked'
    <3>1. \A i \in Ids : registry'[i] = IF i = id THEN f ELSE registry[i]
      BY <1>2, <2>2 DEF TypeOK
    <3>2. \A g \in listening : g # 0
      BY <1>2 DEF TypeOK, ForwarderTypeOK
    <3>3. ASSUME NEW g \in listening
          PROVE  \/ \E i \in Ids : registry'[i] = g
                 \/ \E j \in Slots : calls'[j].f = g /\ calls'[j].pc \in {"probe", "insert", "close"}
      <4>1. CASE g = f
        BY <1>2, <3>1, <4>1
      <4>2. CASE g # f
        <5>1. CASE \E i \in Ids : registry[i] = g
          BY <1>6, <3>1, <3>2, <5>1
        <5>2. CASE \E j \in Slots : calls[j].f = g /\ calls[j].pc \in {"probe", "insert", "close"}
          BY <2>1, <4>2, <5>2 DEF Moved
        <5> QED
          BY <5>1, <5>2 DEF Tracked
      <4> QED
        BY <4>1, <4>2
    <3> QED
      BY <2>1, <3>3 DEF Tracked, forwarderVars
  <2> QED
    BY <2>3, <2>4, <2>5, <2>6, <2>7, <2>8
<1>7. CASE old # 0
  <2>1. Moved(k, "close", f) /\ Shut(old) /\ lock' = k
    BY <1>7, GoesMoves DEF Insert, TypeOK, Steps
  <2>2. registry' = registry
    BY <1>2, <1>7 DEF Insert, TypeOK
  <2>3. SessionInv' /\ ForwarderTypeOK'
    BY <2>1, ShutKeepsSessions DEF TypeOK
  <2>4. TypeOK'
    BY <1>1, <1>2, <2>1, <2>2, <2>3, QuietType DEF TypeOK, Moved
  <2>5. Owned'
    BY <1>1, <2>1, <2>2 DEF Owned, Holds, Moved, At
  <2>6. listening' = listening \ {old}
    BY <2>1 DEF Shut
  <2>7. \A j \in Slots : Holds(j) => calls[j].f # old
    BY <1>2 DEF Owned
  <2>8. \A i \in Ids \ {id} : registry[i] # old
    BY <1>2, <1>7 DEF Owned
  <2>9. Stopping'
    BY <1>1, <1>2, <1>3, <1>4, <1>5, <1>7, <2>1, <2>2, <2>6, <2>7, <2>8
    DEF Stopping, Moved, At, Holds
  <2>10. CallFits'
    BY <1>1, <2>1 DEF CallFits, Moved, At, Quiet
  <2>11. Tracked'
    BY <1>1, <2>1, <2>2, <2>6 DEF Tracked, Moved, At
  <2> QED
    BY <2>3, <2>4, <2>5, <2>9, <2>10, <2>11
<1> QED
  BY <1>6, <1>7

LEMMA StopServerTunnelStep ==
  ASSUME TunnelInv, NEW k \in Slots, StopServerTunnel(k)
  PROVE  TunnelInv'
<1> USE DEF TunnelInv
<1> DEFINE id == calls[k].id
           f == registry[id]
<1>1. At(k, {"stop"}, "sent") /\ lock = 0 /\ Quiet
  BY DEF StopServerTunnel
<1>2. id \in Ids /\ f \in F \cup {0} /\ 0 \notin F /\ calls[k].f = 0
  BY <1>1, ForwarderAssumption DEF TypeOK, Call, F, CallFits, At
<1>3. \A j \in Slots : calls[j].pc # "close"
  BY <1>1, NobodyCloses DEF At
<1>4. \A j \in Slots : calls[j].id \in Ids
  BY DEF TypeOK, Call
<1>5. \A i \in Ids : registry'[i] = IF i = id THEN 0 ELSE registry[i]
  BY <1>2 DEF TypeOK, StopServerTunnel
<1>6. registry' \in [Ids -> F \cup {0}]
  BY <1>2 DEF TypeOK, StopServerTunnel
<1>7. CASE f = 0
  <2>1. Moved(k, "answered", 0) /\ UNCHANGED <<forwarderVars, lock>>
    BY <1>2, <1>7, GoesMoves DEF StopServerTunnel, TypeOK, Steps
  <2>2. registry' = registry
    BY <1>5, <1>6, <1>7 DEF TypeOK
  <2>3. SessionInv' /\ ForwarderTypeOK'
    BY <2>1 DEF forwarderVars, SessionInv, SessionsAccounted, TasksOf, TypeOK, ForwarderTypeOK
  <2>4. TypeOK'
    BY <1>1, <2>1, <2>2, <2>3, QuietType DEF TypeOK, Moved
  <2>5. Owned'
    BY <2>1, <2>2 DEF Owned, Holds, Moved
  <2>6. Stopping'
    BY <1>1, <2>1, <2>2 DEF Stopping, Moved, At, forwarderVars
  <2>7. CallFits'
    BY <1>1, <2>1 DEF CallFits, Moved, At, Quiet
  <2>8. Tracked'
    BY <1>1, <2>1, <2>2 DEF Tracked, Moved, At, forwarderVars
  <2> QED
    BY <2>3, <2>4, <2>5, <2>6, <2>7, <2>8
<1>8. CASE f # 0
  <2>1. Moved(k, "close", f) /\ Shut(f) /\ lock' = k
    BY <1>2, <1>8, GoesWithMoves DEF StopServerTunnel, TypeOK, Steps
  <2>2. SessionInv' /\ ForwarderTypeOK'
    BY <2>1, ShutKeepsSessions DEF TypeOK
  <2>3. TypeOK'
    BY <1>1, <1>6, <2>1, <2>2, QuietType DEF TypeOK, Moved
  <2>4. \A j \in Slots : Holds(j) => calls[j].f # f
    BY <1>2 DEF Owned
  <2>5. \A i \in Ids \ {id} : registry[i] # f
    BY <1>2, <1>8 DEF Owned
  <2>6. Owned'
    BY <1>2, <1>5, <1>8, <2>1, <2>4, <2>5 DEF Owned, Holds, Moved
  <2>7. listening' = listening \ {f}
    BY <2>1 DEF Shut
  <2>8. Stopping'
    BY <1>1, <1>2, <1>3, <1>4, <1>5, <1>8, <2>1, <2>4, <2>5, <2>7
    DEF Stopping, Moved, At, Holds
  <2>9. CallFits'
    BY <1>1, <2>1 DEF CallFits, Moved, At, Quiet
  <2>10. Tracked'
    BY <1>1, <1>5, <2>1, <2>7 DEF Tracked, Moved, At
  <2> QED
    BY <2>2, <2>3, <2>6, <2>8, <2>9, <2>10
<1> QED
  BY <1>7, <1>8

LEMMA StopAllStep ==
  ASSUME TunnelInv, NEW k \in Slots, StopAll(k)
  PROVE  TunnelInv'
<1> USE DEF TunnelInv
<1>1. At(k, {"stop_all"}, "sent") /\ lock \in {0, k} /\ Quiet
  BY DEF StopAll
<1>2. 0 \notin F /\ calls[k].f = 0
  BY <1>1, ForwarderAssumption DEF F, CallFits, At
<1>3. \A j \in Slots : calls[j].pc # "close"
  BY <1>1, NobodyCloses DEF At
<1>4. \A j \in Slots : calls[j].id \in Ids
  BY DEF TypeOK, Call
<1>5. CASE ~(\E i \in Ids : registry[i] # 0)
  <2>1. Moved(k, "answered", 0) /\ UNCHANGED <<forwarderVars, registry>> /\ lock' = 0
    BY <1>2, <1>5, GoesMoves DEF StopAll, TypeOK, Steps
  <2>2. SessionInv' /\ ForwarderTypeOK'
    BY <2>1 DEF forwarderVars, SessionInv, SessionsAccounted, TasksOf, TypeOK, ForwarderTypeOK
  <2>3. TypeOK'
    BY <1>1, <2>1, <2>2, QuietType DEF TypeOK, Moved
  <2>4. Owned'
    BY <2>1 DEF Owned, Holds, Moved
  <2>5. Stopping'
    BY <1>1, <1>3, <2>1 DEF Stopping, Moved, At, forwarderVars
  <2>6. CallFits'
    BY <1>1, <2>1 DEF CallFits, Moved, At, Quiet
  <2>7. Tracked'
    BY <1>1, <2>1 DEF Tracked, Moved, At, forwarderVars
  <2> QED
    BY <2>2, <2>3, <2>4, <2>5, <2>6, <2>7
<1>6. CASE \E i \in Ids : registry[i] # 0
  <2>0. PICK id \in Ids :
          /\ registry[id] # 0 /\ registry' = [registry EXCEPT ![id] = 0]
          /\ GoesWith(k, "close", registry[id]) /\ Shut(registry[id]) /\ lock' = k
    BY <1>6 DEF StopAll
  <2> DEFINE f == registry[id]
  <2>1. Moved(k, "close", f) /\ Shut(f) /\ lock' = k /\ f # 0
    BY <2>0, GoesWithMoves DEF TypeOK, Steps
  <2>a. /\ \A i \in Ids : registry'[i] = IF i = id THEN 0 ELSE registry[i]
        /\ registry' \in [Ids -> F \cup {0}]
    BY <2>0 DEF TypeOK
  <2>2. SessionInv' /\ ForwarderTypeOK'
    BY <2>1, ShutKeepsSessions DEF TypeOK
  <2>3. TypeOK'
    BY <1>1, <2>a, <2>1, <2>2, QuietType DEF TypeOK, Moved
  <2>4. f \in F /\ \A j \in Slots : Holds(j) => calls[j].f # f
    BY <2>1 DEF Owned, TypeOK
  <2>5. \A i \in Ids \ {id} : registry[i] # f
    BY <2>0 DEF Owned
  <2>6. Owned'
    BY <1>2, <2>a, <2>1, <2>4, <2>5 DEF Owned, Holds, Moved
  <2>7. listening' = listening \ {f}
    BY <2>1 DEF Shut
  <2>8. Stopping'
    BY <1>1, <1>2, <1>3, <1>4, <2>a, <2>1, <2>4, <2>5, <2>7
    DEF Stopping, Moved, At, Holds
  <2>9. CallFits'
    BY <1>1, <2>1 DEF CallFits, Moved, At, Quiet
  <2>10. Tracked'
    BY <1>1, <2>a, <2>1, <2>7 DEF Tracked, Moved, At
  <2> QED
    BY <2>2, <2>3, <2>6, <2>8, <2>9, <2>10
<1> QED
  BY <1>5, <1>6

LEMMA CloseStoppedStep ==
  ASSUME TunnelInv, NEW k \in Slots, CloseStopped(k)
  PROVE  TunnelInv'
<1> USE DEF TunnelInv
<1> DEFINE id == calls[k].id
           f == calls[k].f
<1>1. calls[k].pc = "close" /\ lock = k /\ Quiet
  BY DEF CloseStopped, Stopping
<1>2. id \in Ids /\ f \in F /\ 0 \notin F /\ \A i \in Ids : registry[i] # f
  BY <1>1, ForwarderAssumption DEF TypeOK, Call, F, Owned, Holds
<1>3. \A j \in Slots \ {k} : calls[j].pc # "close"
  BY <1>1 DEF Stopping
<1>4. \A j \in Slots : calls[j].id \in Ids
  BY DEF TypeOK, Call
<1>5. CASE calls[k].kind = "start"
  <2> DEFINE old == registry[id]
  <2>1. old \in F \ listening /\ f \in listening
    BY <1>1, <1>5 DEF Stopping
  <2>2. Moved(k, "answered", f) /\ Close(old) /\ lock' = 0
    BY <1>5, GoesMoves DEF CloseStopped, TypeOK, Steps
  <2>3. /\ \A i \in Ids : registry'[i] = IF i = id THEN f ELSE registry[i]
        /\ registry' \in [Ids -> F \cup {0}]
    BY <1>2, <1>5 DEF TypeOK, CloseStopped
  <2>4. SessionInv' /\ ForwarderTypeOK'
    BY <2>1, <2>2, CloseKeepsSessions DEF TypeOK
  <2>5. TypeOK'
    BY <1>1, <2>2, <2>3, <2>4, QuietType DEF TypeOK, Moved
  <2>6. \A j \in Slots \ {k} : Holds(j) => calls[j].f # f
    BY <1>1 DEF Owned, Holds
  <2>7. Owned'
    BY <1>2, <2>2, <2>3, <2>6 DEF Owned, Holds, Moved
  <2>8. listening' = listening
    BY <2>2 DEF Close
  <2>9. Stopping'
    BY <1>1, <1>3, <1>4, <2>1, <2>2, <2>3, <2>8 DEF Stopping, Moved
  <2>10. CallFits'
    BY <1>1, <1>5, <2>2 DEF CallFits, Moved, Quiet
  <2>11. Tracked'
    <3>1. ASSUME NEW g \in listening
          PROVE  \/ \E i \in Ids : registry'[i] = g
                 \/ \E j \in Slots : calls'[j].f = g /\ calls'[j].pc \in {"probe", "insert", "close"}
      <4>1. CASE g = f
        BY <1>2, <2>3, <4>1
      <4>2. CASE g # f
        <5>1. CASE \E i \in Ids : registry[i] = g
          BY <2>1, <2>3, <5>1
        <5>2. CASE \E j \in Slots : calls[j].f = g /\ calls[j].pc \in {"probe", "insert", "close"}
          BY <2>2, <4>2, <5>2 DEF Moved
        <5> QED
          BY <5>1, <5>2 DEF Tracked
      <4> QED
        BY <4>1, <4>2
    <3> QED
      BY <2>8, <3>1 DEF Tracked
  <2> QED
    BY <2>4, <2>5, <2>7, <2>9, <2>10, <2>11
<1>6. CASE calls[k].kind \in {"stop", "stop_all"}
  <2>1. f \notin listening
    BY <1>1, <1>6 DEF Stopping
  <2>2. \E pc \in {"answered", "sent"} :
           Moved(k, pc, 0) /\ (pc = "sent" => calls[k].kind = "stop_all")
    <3>1. CASE calls[k].kind = "stop"
      BY <3>1, GoesWithMoves DEF CloseStopped, TypeOK, Steps
    <3>2. CASE calls[k].kind = "stop_all"
      BY <3>2, GoesWithMoves DEF CloseStopped, TypeOK, Steps
    <3> QED
      BY <1>6, <3>1, <3>2
  <2>3. Close(f) /\ registry' = registry /\ lock' \in {0, lock}
    BY <1>6 DEF CloseStopped
  <2>4. SessionInv' /\ ForwarderTypeOK'
    BY <1>2, <2>1, <2>3, CloseKeepsSessions DEF TypeOK
  <2>5. TypeOK'
    BY <1>1, <2>2, <2>3, <2>4, QuietType DEF TypeOK, Moved
  <2>6. Owned'
    BY <2>2, <2>3 DEF Owned, Holds, Moved
  <2>7. listening' = listening
    BY <2>3 DEF Close
  <2>8. Stopping'
    BY <1>1, <1>3, <1>6, <2>2, <2>3, <2>7 DEF Stopping, Moved
  <2>9. CallFits'
    BY <1>1, <1>6, <2>2 DEF CallFits, Moved, Quiet
  <2>10. Tracked'
    BY <1>1, <2>1, <2>2, <2>3, <2>7 DEF Tracked, Moved
  <2> QED
    BY <2>4, <2>5, <2>6, <2>8, <2>9, <2>10
<1> QED
  BY <1>1, <1>5, <1>6 DEF CallFits

LEMMA WorksKeep ==
  ASSUME TunnelInv, NEW k \in Slots, Works(k)
  PROVE  TunnelInv'
BY LookUpStep, ConnectStep, ConnectFailsStep, ProbeStep, NextPortStep, InsertStep,
   StopServerTunnelStep, StopAllStep, CloseStoppedStep DEF Works

-----------------------------------------------------------------------------
(* The hooks. *)

\* A call that begins, or is gone.
Begins(c) == c \in Call /\ c.pc = "sent" /\ c.f = 0

\* The hooks put calls in place of those that have not begun and of those that
\* are answered.
LEMMA HooksKeep ==
  ASSUME TunnelInv, UNCHANGED <<forwarderVars, registry, lock>>, TypeOK',
         \A k \in Slots :
           \/ calls'[k] = calls[k]
           \/ calls[k].pc \in {"sent", "answered"} /\ Begins(calls'[k]),
         CallFits'
  PROVE  TunnelInv'
<1> USE DEF TunnelInv
<1>1. SessionInv'
  BY DEF forwarderVars, SessionInv, SessionsAccounted, TasksOf
<1>2. listening' = listening
  BY DEF forwarderVars
<1>3. Owned'
  BY DEF Owned, Holds, Begins
<1>4. Stopping'
  BY <1>2 DEF Stopping, Begins
<1>5. Tracked'
  BY <1>2 DEF Tracked, Begins
<1> QED
  BY <1>1, <1>3, <1>4, <1>5

LEMMA CommandFits ==
  ASSUME NEW kind \in {"start", "stop", "status", "stop_all"}, NEW id \in Ids
  PROVE  /\ Begins(Command(kind, id))
         /\ Command(kind, id).kind = kind /\ Command(kind, id).id = id
BY DEF Command, NoCall, Begins, Call, Ids

\* What one command more does to the commands under way.
Sent(s, kind, id) ==
  /\ s \in FreeSlots /\ calls' \in [Slots -> Call]
  /\ Begins(calls'[s]) /\ calls'[s].kind = kind /\ calls'[s].id = id
  /\ \A k \in Slots \ {s} : calls'[k] = calls[k]
  /\ \A i \in Ids : /\ s \notin UnderWay(i)
                   /\ UnderWay(i)' = IF id = i \/ kind = "stop_all" THEN UnderWay(i) \cup {s}
                                     ELSE UnderWay(i)
  /\ overlap' = {i \in Ids : IF id = i \/ kind = "stop_all" THEN UnderWay(i) # {}
                             ELSE i \in overlap}

LEMMA SendSends ==
  ASSUME TypeOK, NEW kind \in {"start", "stop", "status", "stop_all"}, NEW id \in Ids,
         Send(<<Command(kind, id)>>)
  PROVE  Sent(Slot, kind, id)
<1> DEFINE c == Command(kind, id)
<1>1. Begins(c) /\ c.kind = kind /\ c.id = id
  BY CommandFits
<1> HIDE DEF c
<1>2. calls \in [Slots -> Call]
  BY DEF TypeOK
<1>3. /\ Slot \in FreeSlots
      /\ calls' = [calls EXCEPT ![Slot] = c]
      /\ overlap' = {i \in Ids : IF c.id = i \/ c.kind = "stop_all" THEN UnderWay(i) # {}
                                 ELSE i \in overlap}
  BY <1>2, SendOne DEF c
<1>4. Slot \in Slots /\ calls[Slot].kind = "none"
  BY <1>3 DEF FreeSlots
<1>5. calls' \in [Slots -> Call] /\ calls'[Slot] = c /\ \A k \in Slots \ {Slot} : calls'[k] = calls[k]
  BY <1>1, <1>2, <1>3, <1>4 DEF Begins
<1>6. \A i \in Ids : Slot \notin UnderWay(i)
  BY <1>4 DEF UnderWay
<1>7. \A i \in Ids : UnderWay(i)' = IF id = i \/ kind = "stop_all" THEN UnderWay(i) \cup {Slot}
                                     ELSE UnderWay(i)
  BY <1>1, <1>4, <1>5 DEF UnderWay
<1> QED
  BY <1>1, <1>3, <1>4, <1>5, <1>6, <1>7 DEF Sent

\* And two.
SentBoth(s, kind, id, u, other, its) ==
  /\ s \in FreeSlots /\ u \in FreeSlots /\ s # u /\ calls' \in [Slots -> Call]
  /\ Begins(calls'[s]) /\ calls'[s].kind = kind /\ calls'[s].id = id
  /\ Begins(calls'[u]) /\ calls'[u].kind = other /\ calls'[u].id = its
  /\ \A k \in Slots \ {s, u} : calls'[k] = calls[k]
  /\ \A i \in Ids : /\ s \notin UnderWay(i) /\ u \notin UnderWay(i)
                   /\ UnderWay(i)' = UnderWay(i) \cup (IF id = i THEN {s} ELSE {})
                                                 \cup (IF its = i THEN {u} ELSE {})
  /\ overlap' = {i \in Ids : IF id = i /\ its = i THEN TRUE
                             ELSE IF id = i \/ its = i THEN UnderWay(i) # {}
                             ELSE i \in overlap}

LEMMA SendSendsBoth ==
  ASSUME TypeOK, NEW kind \in {"start", "stop"}, NEW id \in Ids,
         NEW other \in {"start", "stop"}, NEW its \in Ids,
         Send(<<Command(kind, id)>> \o <<Command(other, its)>>)
  PROVE  \E u \in FreeSlots : SentBoth(Slot, kind, id, u, other, its)
<1> DEFINE c == Command(kind, id)
           d == Command(other, its)
<1>1. /\ Begins(c) /\ c.kind = kind /\ c.id = id
      /\ Begins(d) /\ d.kind = other /\ d.id = its
  BY CommandFits
<1>2. Send(<<c, d>>)
  BY <1>1, ConcatPair DEF Begins
<1> HIDE DEF c, d
<1>3. calls \in [Slots -> Call]
  BY DEF TypeOK
<1>4. /\ Slot \in FreeSlots
      /\ \E u \in FreeSlots : u # Slot /\ calls' = [calls EXCEPT ![Slot] = c, ![u] = d]
      /\ overlap' = {i \in Ids : IF c.id = i /\ d.id = i THEN TRUE
                                 ELSE IF c.id = i \/ d.id = i THEN UnderWay(i) # {}
                                 ELSE i \in overlap}
  BY <1>1, <1>2, <1>3, SendTwo
<1>5. PICK u \in FreeSlots : u # Slot /\ calls' = [calls EXCEPT ![Slot] = c, ![u] = d]
  BY <1>4
<1>6. /\ Slot \in Slots /\ calls[Slot].kind = "none"
      /\ u \in Slots /\ calls[u].kind = "none"
  BY <1>4, <1>5 DEF FreeSlots
<1>7. /\ calls' \in [Slots -> Call] /\ calls'[Slot] = c /\ calls'[u] = d
      /\ \A k \in Slots \ {Slot, u} : calls'[k] = calls[k]
  BY <1>1, <1>3, <1>5, <1>6 DEF Begins
<1>8. \A i \in Ids : Slot \notin UnderWay(i) /\ u \notin UnderWay(i)
  BY <1>6 DEF UnderWay
<1>9. \A i \in Ids : UnderWay(i)' = UnderWay(i) \cup (IF id = i THEN {Slot} ELSE {})
                                               \cup (IF its = i THEN {u} ELSE {})
  BY <1>1, <1>6, <1>7 DEF UnderWay
<1>10. SentBoth(Slot, kind, id, u, other, its)
  BY <1>1, <1>4, <1>5, <1>7, <1>8, <1>9 DEF SentBoth
<1> QED
  BY <1>10

LEMMA PressType ==
  ASSUME TypeOK, Press, calls' \in [Slots -> Call], overlap' \subseteq Ids,
         hook' \in [kind : {"idle", "connecting", "ready", "error"}, call : Slots \cup {0}, f : F \cup {0}],
         shown' = shown, busy' \in BOOLEAN, strayed' \in BOOLEAN,
         place' \in {"here", "removed", "closing"}
  PROVE  TypeOK'
<1>1. presses' \in 0..MaxPresses
  BY TunnelsAssumption DEF TypeOK, Press
<1> QED
  BY <1>1 DEF TypeOK, ForwarderTypeOK, Press, forwarderVars

\* The user's action adds one command, which fits.
LEMMA PressKeeps ==
  ASSUME TunnelInv, Press, TypeOK', NEW s, NEW kind \in {"start", "stop", "status", "stop_all"},
         NEW id \in Ids, Sent(s, kind, id), kind = "status" => id = "svc",
         kind = "stop_all" => place' = "closing", place = "closing" => place' = "closing"
  PROVE  TunnelInv'
<1>1. \A k \in Slots : calls'[k] = calls[k] \/ (calls[k].pc \in {"sent", "answered"} /\ Begins(calls'[k]))
  BY DEF TunnelInv, CallFits, Sent, FreeSlots
<1>2. CallFits'
  BY DEF TunnelInv, CallFits, Sent, Begins
<1> QED
  BY <1>1, <1>2, HooksKeep DEF Press

LEMMA PressBothKeeps ==
  ASSUME TunnelInv, Press, TypeOK', NEW s, NEW kind \in {"start", "stop"}, NEW id \in Ids,
         NEW u, NEW other \in {"start", "stop"}, NEW its \in Ids,
         SentBoth(s, kind, id, u, other, its), place = "closing" => place' = "closing"
  PROVE  TunnelInv'
<1>1. \A k \in Slots : calls'[k] = calls[k] \/ (calls[k].pc \in {"sent", "answered"} /\ Begins(calls'[k]))
  BY DEF TunnelInv, CallFits, SentBoth, FreeSlots
<1>2. CallFits'
  BY DEF TunnelInv, CallFits, SentBoth, Begins
<1> QED
  BY <1>1, <1>2, HooksKeep DEF Press

LEMMA ShowManagementStep ==
  ASSUME IInv, ShowManagement
  PROVE  IInv'
<1> USE DEF IInv
<1>1. /\ place = "here" /\ Press /\ UNCHANGED <<shown, busy, place, strayed>>
      /\ hook' = [kind |-> "connecting", call |-> Slot, f |-> 0]
      /\ UNCHANGED registry
  BY DEF ShowManagement, Press
<1>2. CASE hook.kind = "idle"
  <2>1. Sent(Slot, "start", "mgmt")
    <3>1. Send(<<Command("start", "mgmt")>>)
      BY <1>2 DEF ShowManagement
    <3> QED
      BY <3>1, SendSends DEF TunnelInv, Ids
  <2>2. TypeOK'
    BY <1>1, <2>1, PressType DEF Sent, TunnelInv, TypeOK, FreeSlots
  <2>3. TunnelInv'
    BY <1>1, <2>1, <2>2, PressKeeps DEF Ids
  <2>4. Waits'
    <3>1. Slot # 0 /\ Slot \in Slots
      BY <2>1, SlotsAreNumbers DEF Sent, FreeSlots
    <3> QED
      BY <1>1, <2>1, <3>1 DEF Waits, Sent, FreeSlots
  <2>5. ManagementInv'
    BY <1>1, <2>1 DEF ManagementInv, Sent, Alone, Settles, Begins, Ids
  <2>6. ButtonInv'
    BY <1>1, <2>1 DEF ButtonInv, Sent, Alone, Settles, UnderWay, Ids, FreeSlots
  <2> QED
    BY <2>3, <2>4, <2>5, <2>6
<1>3. CASE hook.kind # "idle"
  <2>1. PICK u \in FreeSlots : SentBoth(Slot, "start", "mgmt", u, "stop", "mgmt")
    <3>1. Send(<<Command("start", "mgmt")>> \o <<Command("stop", "mgmt")>>)
      BY <1>3 DEF ShowManagement
    <3> QED
      BY <3>1, SendSendsBoth DEF TunnelInv, Ids
  <2>2. TypeOK'
    BY <1>1, <2>1, PressType DEF SentBoth, TunnelInv, TypeOK, FreeSlots
  <2>3. TunnelInv'
    BY <1>1, <2>1, <2>2, PressBothKeeps DEF Ids
  <2>4. Waits'
    <3>1. Slot # 0 /\ Slot \in Slots
      BY <2>1, SlotsAreNumbers DEF SentBoth, FreeSlots
    <3> QED
      BY <1>1, <2>1, <3>1 DEF Waits, SentBoth, FreeSlots
  <2>5. ManagementInv'
    BY <2>1 DEF ManagementInv, SentBoth, Ids
  <2>6. ButtonInv'
    BY <1>1, <2>1 DEF ButtonInv, SentBoth, Alone, Settles, UnderWay, Ids, FreeSlots
  <2> QED
    BY <2>3, <2>4, <2>5, <2>6
<1> QED
  BY <1>2, <1>3

LEMMA LeaveManagementStep ==
  ASSUME IInv, LeaveManagement
  PROVE  IInv'
<1> USE DEF IInv
<1>1. /\ place = "here" /\ Press /\ UNCHANGED <<shown, busy, place, strayed>>
      /\ hook' = [kind |-> "idle", call |-> 0, f |-> 0]
      /\ UNCHANGED registry
  BY DEF LeaveManagement, Press
<1>2. Sent(Slot, "stop", "mgmt")
  BY SendSends DEF LeaveManagement, TunnelInv, Ids
<1>3. TypeOK'
  BY <1>1, <1>2, PressType DEF Sent, TunnelInv, TypeOK, FreeSlots
<1>4. TunnelInv'
  BY <1>1, <1>2, <1>3, PressKeeps DEF Ids
<1>5. Waits'
  BY <1>1, <1>2 DEF Waits, Sent, FreeSlots
<1>6. ManagementInv'
  BY <1>1, <1>2 DEF ManagementInv, Sent, Alone, Settles, Begins, Ids
<1>7. ButtonInv'
  BY <1>1, <1>2 DEF ButtonInv, Sent, Alone, Settles, UnderWay, Ids, FreeSlots
<1> QED
  BY <1>4, <1>5, <1>6, <1>7

LEMMA PressButtonStep ==
  ASSUME IInv, PressButton
  PROVE  IInv'
<1> USE DEF IInv
<1>1. /\ place = "here" /\ Press /\ UNCHANGED <<hook, shown, place, strayed>> /\ busy' = TRUE
      /\ UNCHANGED registry
  BY DEF PressButton, Press
<1>2. \E kind \in {"start", "stop"} :
        Sent(Slot, kind, "svc") /\ (kind = "start" => shown = 0)
  <2>1. CASE shown = 0
    <3>1. Send(<<Command("start", "svc")>>)
      BY <2>1 DEF PressButton
    <3> QED
      BY <2>1, <3>1, SendSends DEF TunnelInv, Ids
  <2>2. CASE shown # 0
    <3>1. Send(<<Command("stop", "svc")>>)
      BY <2>2 DEF PressButton
    <3> QED
      BY <3>1, SendSends DEF TunnelInv, Ids
  <2> QED
    BY <2>1, <2>2
<1>3. TypeOK'
  BY <1>1, <1>2, PressType DEF Sent, TunnelInv, TypeOK
<1>4. TunnelInv'
  BY <1>1, <1>2, <1>3, PressKeeps DEF Ids
<1>5. Waits'
  <2>1. hook.call # 0 => hook.call \in Slots \ {Slot}
    BY <1>2 DEF Waits, Sent, FreeSlots, TunnelInv, TypeOK
  <2> QED
    BY <1>1, <1>2, <2>1 DEF Waits, Sent, FreeSlots
<1>6. ManagementInv'
  BY <1>1, <1>2 DEF ManagementInv, Sent, Alone, Settles, UnderWay, Ids, FreeSlots
<1>7. ButtonInv'
  BY <1>1, <1>2 DEF ButtonInv, Sent, Alone, Settles, Begins, Ids
<1> QED
  BY <1>4, <1>5, <1>6, <1>7

LEMMA OpenTunnelStep ==
  ASSUME IInv, OpenTunnel
  PROVE  IInv'
<1> USE DEF IInv
<1>1. /\ place = "here" /\ Press /\ UNCHANGED <<hook, shown, busy, place, strayed>>
      /\ UNCHANGED registry
  BY DEF OpenTunnel, Press
<1>2. Sent(Slot, "status", "svc")
  BY SendSends DEF OpenTunnel, TunnelInv, Ids
<1>3. TypeOK'
  BY <1>1, <1>2, PressType DEF Sent, TunnelInv, TypeOK
<1>4. TunnelInv'
  BY <1>1, <1>2, <1>3, PressKeeps DEF Ids
<1>5. Waits'
  <2>1. hook.call # 0 => hook.call \in Slots \ {Slot}
    BY <1>2 DEF Waits, Sent, FreeSlots, TunnelInv, TypeOK
  <2> QED
    BY <1>1, <1>2, <2>1 DEF Waits, Sent, FreeSlots
<1>6. ManagementInv'
  BY <1>1, <1>2 DEF ManagementInv, Sent, Alone, Settles, UnderWay, Ids, FreeSlots
<1>7. ButtonInv'
  BY <1>1, <1>2 DEF ButtonInv, Sent, Alone, Settles, Begins, Ids
<1> QED
  BY <1>4, <1>5, <1>6, <1>7

LEMMA CloseWindowStep ==
  ASSUME IInv, CloseWindow
  PROVE  IInv'
<1> USE DEF IInv
<1>1. Press /\ UNCHANGED <<hook, shown, busy, strayed>> /\ place' = "closing"
  BY DEF CloseWindow
<1>2. Sent(Slot, "stop_all", "svc")
  BY SendSends DEF CloseWindow, TunnelInv, Ids
<1>3. TypeOK'
  BY <1>1, <1>2, PressType DEF Sent, TunnelInv, TypeOK
<1>4. TunnelInv'
  BY <1>1, <1>2, <1>3, PressKeeps DEF Ids
<1>5. Waits'
  <2>1. hook.call # 0 => hook.call \in Slots \ {Slot}
    BY <1>2 DEF Waits, Sent, FreeSlots, TunnelInv, TypeOK
  <2> QED
    BY <1>1, <1>2, <2>1 DEF Waits, Sent, FreeSlots
<1>6. ManagementInv' /\ ButtonInv'
  BY <1>1 DEF ManagementInv, ButtonInv
<1> QED
  BY <1>4, <1>5, <1>6

LEMMA RemoveServerStep ==
  ASSUME IInv, RemoveServer
  PROVE  IInv'
<1> USE DEF IInv
<1>1. /\ place = "here" /\ place' = "removed" /\ Press /\ UNCHANGED shown
      /\ hook' = [kind |-> "idle", call |-> 0, f |-> 0]
      /\ strayed' = (UnderWay("svc") # {}) /\ busy' = (busy \/ shown # 0)
      /\ UNCHANGED registry
  BY DEF RemoveServer, Press
<1>2. strayed' \in BOOLEAN /\ busy' \in BOOLEAN
  BY <1>1, Zenon DEF TunnelInv, TypeOK
<1>3. CASE hook.kind = "idle" /\ shown = 0
  <2>1. calls' = calls /\ overlap' = overlap
    <3>1. Send(<<>> \o <<>>)
      BY <1>3 DEF RemoveServer
    <3>2. <<>> \o <<>> = <<>>
      OBVIOUS
    <3> QED
      BY <3>1, <3>2, SendNone DEF TunnelInv, TypeOK
  <2>2. TypeOK'
    BY <1>1, <1>2, <2>1, PressType DEF TunnelInv, TypeOK
  <2>3. TunnelInv'
    <3>1. CallFits'
      BY <1>1, <2>1 DEF TunnelInv, CallFits
    <3> QED
      BY <1>1, <2>1, <2>2, <3>1, HooksKeep DEF Press
  <2>4. Waits'
    BY <1>1, <1>3, <2>1 DEF Waits
  <2>5. ManagementInv'
    BY <1>1, <1>3, <2>1 DEF ManagementInv, Alone, Settles, UnderWay, Waits
  <2>6. ButtonInv'
    BY <1>1, <1>3, <2>1 DEF ButtonInv, Alone, Settles, UnderWay
  <2> QED
    BY <2>3, <2>4, <2>5, <2>6
<1>4. CASE hook.kind # "idle" /\ shown = 0
  <2>1. Sent(Slot, "stop", "mgmt")
    <3>1. Send(<<Command("stop", "mgmt")>>)
      BY <1>4 DEF RemoveServer
    <3> QED
      BY <3>1, SendSends DEF TunnelInv, Ids
  <2>2. TypeOK'
    BY <1>1, <1>2, <2>1, PressType DEF Sent, TunnelInv, TypeOK
  <2>3. TunnelInv'
    BY <1>1, <2>1, <2>2, PressKeeps DEF Ids
  <2>4. Waits'
    BY <1>1, <1>4, <2>1 DEF Waits, Sent, FreeSlots
  <2>5. ManagementInv'
    BY <1>1, <2>1 DEF ManagementInv, Sent, Alone, Settles, Begins, Ids
  <2>6. ButtonInv'
    <3>1. /\ UnderWay("svc")' = UnderWay("svc")
          /\ "svc" \in overlap' <=> "svc" \in overlap
          /\ \A k \in UnderWay("svc") : k \in Slots \ {Slot}
      BY <2>1 DEF Sent, Ids, UnderWay
    <3>2. \A k \in UnderWay("svc") : calls'[k] = calls[k]
      BY <2>1, <3>1 DEF Sent
    <3> QED
      BY <1>1, <1>4, <3>1, <3>2 DEF ButtonInv, Alone, Settles
  <2> QED
    BY <2>3, <2>4, <2>5, <2>6
<1>5. CASE hook.kind = "idle" /\ shown # 0
  <2>1. Sent(Slot, "stop", "svc")
    <3>1. Send(<<Command("stop", "svc")>>)
      BY <1>5 DEF RemoveServer
    <3> QED
      BY <3>1, SendSends DEF TunnelInv, Ids
  <2>2. TypeOK'
    BY <1>1, <1>2, <2>1, PressType DEF Sent, TunnelInv, TypeOK
  <2>3. TunnelInv'
    BY <1>1, <2>1, <2>2, PressKeeps DEF Ids
  <2>4. Waits'
    BY <1>1, <2>1 DEF Waits, Sent, FreeSlots
  <2>5. ManagementInv'
    BY <1>1, <1>5, <2>1 DEF ManagementInv, Sent, Alone, Settles, UnderWay, Ids, FreeSlots, Waits
  <2>6. ButtonInv'
    BY <1>1, <2>1 DEF ButtonInv, Sent, Alone, Settles, Begins, Ids
  <2> QED
    BY <2>3, <2>4, <2>5, <2>6
<1>6. CASE hook.kind # "idle" /\ shown # 0
  <2>1. PICK u \in FreeSlots : SentBoth(Slot, "stop", "mgmt", u, "stop", "svc")
    <3>1. Send(<<Command("stop", "mgmt")>> \o <<Command("stop", "svc")>>)
      BY <1>6 DEF RemoveServer
    <3> QED
      BY <3>1, SendSendsBoth DEF TunnelInv, Ids
  <2>2. TypeOK'
    BY <1>1, <1>2, <2>1, PressType DEF SentBoth, TunnelInv, TypeOK
  <2>3. TunnelInv'
    BY <1>1, <2>1, <2>2, PressBothKeeps DEF Ids
  <2>4. Waits'
    BY <1>1, <2>1 DEF Waits, SentBoth, FreeSlots
  <2>5. ManagementInv'
    BY <1>1, <2>1 DEF ManagementInv, SentBoth, Alone, Settles, Begins, Ids
  <2>6. ButtonInv'
    BY <1>1, <2>1 DEF ButtonInv, SentBoth, Alone, Settles, Begins, Ids
  <2> QED
    BY <2>3, <2>4, <2>5, <2>6
<1> QED
  BY <1>3, <1>4, <1>5, <1>6

\* A command in hand keeps its kind and its id, and leaves the others alone.
LEMMA WorksMove ==
  ASSUME IInv, NEW k \in Slots, Works(k)
  PROVE  /\ Quiet /\ calls[k].kind # "none"
         /\ \A j \in Slots : calls'[j].kind = calls[j].kind /\ calls'[j].id = calls[j].id
         /\ \A j \in Slots \ {k} : calls'[j] = calls[j]
<1> USE DEF IInv, TunnelInv
<1>1. calls \in [Slots -> Call]
  BY DEF TypeOK
<1>2. Quiet /\ calls[k].kind # "none"
  BY DEF Works, LookUp, Connect, ConnectFails, Probe, NextPort, Insert, StopServerTunnel,
     StopAll, CloseStopped, At, CallFits
<1>3. \E pc, f, port : calls' = [calls EXCEPT ![k].f = f, ![k].port = port, ![k].pc = pc]
             \/ calls' = [calls EXCEPT ![k].pc = pc, ![k].f = f]
             \/ calls' = [calls EXCEPT ![k].pc = pc]
  <2>1. CASE NextPort(k)
    BY <2>1 DEF NextPort
  <2>2. CASE \E pc : Goes(k, pc)
    BY <2>2 DEF Goes
  <2>3. CASE \E pc, f : GoesWith(k, pc, f)
    BY <2>3 DEF GoesWith
  <2>4. NextPort(k) \/ (\E pc : Goes(k, pc)) \/ (\E pc, f : GoesWith(k, pc, f))
    <3>1. CASE CloseStopped(k)
      BY <3>1 DEF CloseStopped, CallFits
    <3>2. CASE StopAll(k)
      BY <3>2 DEF StopAll
    <3>3. CASE ~CloseStopped(k) /\ ~StopAll(k)
      BY <3>3 DEF Works, LookUp, Connect, ConnectFails, Probe, Insert, StopServerTunnel
    <3> QED
      BY <3>1, <3>2, <3>3
  <2> QED
    BY <2>1, <2>2, <2>3, <2>4
<1>4. /\ \A j \in Slots : calls'[j].kind = calls[j].kind /\ calls'[j].id = calls[j].id
      /\ \A j \in Slots \ {k} : calls'[j] = calls[j]
  BY <1>1, <1>3 DEF Call
<1> QED
  BY <1>2, <1>4

\* While the window is open a command changes no entry but its own.
LEMMA WorksTouchOwn ==
  ASSUME IInv, NEW k \in Slots, Works(k), place # "closing", NEW i \in Ids, i # calls[k].id
  PROVE  registry'[i] = registry[i]
<1> USE DEF IInv, TunnelInv
<1>1. calls[k].kind # "stop_all"
  BY DEF CallFits
<1>2. calls[k].id \in Ids /\ registry \in [Ids -> F \cup {0}]
  BY DEF TypeOK, Call
<1> QED
  BY <1>1, <1>2 DEF Works, LookUp, Connect, ConnectFails, Probe, NextPort, Insert,
     StopServerTunnel, StopAll, CloseStopped, At, CallFits

\* A lone command settles its entry.
LEMMA WorksSettle ==
  ASSUME IInv, NEW k \in Slots, Works(k), place # "closing", Alone(k, calls[k].id), Settles(k)
  PROVE  Settles(k)'
<1> USE DEF IInv, TunnelInv
<1> DEFINE id == calls[k].id
           f == registry[id]
<1>1. /\ calls \in [Slots -> Call] /\ registry \in [Ids -> F \cup {0}] /\ id \in Ids
      /\ calls[k].kind # "stop_all"
  BY DEF TypeOK, Call, CallFits
<1>2. ASSUME calls[k].pc # "close" PROVE f # 0 => f \in listening
  <2>1. \A j \in Slots : calls[j].kind = "start" /\ calls[j].id = id => j = k
    BY DEF Alone, UnderWay
  <2> QED
    BY <1>1, <1>2, <2>1 DEF Stopping
<1>3. CASE LookUp(k)
  <2>1. CASE f \in listening \/ calls[k].kind = "status"
    <3>1. Moved(k, "answered", f) /\ registry' = registry
      BY <1>1, <1>3, <2>1, GoesWithMoves DEF LookUp, Steps
    <3> QED
      BY <1>3, <3>1 DEF Settles, Moved, LookUp, At
  <2>2. CASE ~(f \in listening \/ calls[k].kind = "status")
    <3>1. Moved(k, "connect", calls[k].f) /\ registry' = registry /\ f = 0
      BY <1>1, <1>2, <1>3, <2>2, GoesMoves DEF LookUp, Steps, At
    <3> QED
      BY <1>3, <3>1 DEF Settles, Moved, LookUp, At
  <2> QED
    BY <2>1, <2>2
<1>4. CASE Connect(k)
  <2>1. calls'[k].pc \in {"probe", "insert"} /\ registry' = registry /\ calls[k].kind = "start"
    BY <1>1, <1>4 DEF Connect, GoesWith, At, Call
  <2> QED
    BY <1>4, <2>1, WorksMove DEF Settles, Connect, At
<1>5. CASE ConnectFails(k)
  <2>1. Moved(k, "answered", 0) /\ registry' = registry
    BY <1>1, <1>5, GoesWithMoves DEF ConnectFails, Steps
  <2> QED
    BY <1>5, <2>1 DEF Settles, Moved, ConnectFails, At
<1>6. CASE Probe(k)
  <2>1. calls'[k].pc \in {"next_port", "insert"} /\ registry' = registry /\ calls[k].kind = "start"
    BY <1>1, <1>6 DEF Probe, Goes, At, Call
  <2> QED
    BY <1>6, <2>1, WorksMove DEF Settles, Probe, At
<1>7. CASE NextPort(k)
  <2>1. /\ calls'[k].pc \in {"connect", "answered"} /\ calls'[k].f = 0
        /\ registry' = registry /\ calls[k].kind = "start"
    BY <1>1, <1>7 DEF NextPort, At, Call
  <2> QED
    BY <1>7, <2>1, WorksMove DEF Settles, NextPort, At
<1>8. CASE Insert(k)
  <2>1. f = 0
    BY <1>8 DEF Settles, Insert, At
  <2>2. Moved(k, "answered", calls[k].f) /\ registry'[id] = calls[k].f
    BY <1>1, <1>8, <2>1, GoesMoves DEF Insert, Steps
  <2> QED
    BY <1>8, <2>2 DEF Settles, Moved, Insert, At
<1>9. CASE StopServerTunnel(k)
  <2>1. registry'[id] = 0 /\ calls[k].kind = "stop" /\ calls[k].f = 0
    BY <1>1, <1>9 DEF StopServerTunnel, At, CallFits
  <2>2. Moved(k, "answered", calls[k].f) \/ Moved(k, "close", f)
    BY <1>1, <1>9, GoesMoves, GoesWithMoves DEF StopServerTunnel, Steps
  <2> QED
    BY <2>1, <2>2 DEF Settles, Moved
<1>10. CASE CloseStopped(k)
  <2>1. calls[k].kind = "stop"
    BY <1>1, <1>10 DEF CloseStopped, CallFits, Settles
  <2>2. Moved(k, "answered", 0) /\ registry' = registry /\ calls[k].pc = "close"
    BY <1>1, <1>10, <2>1, GoesWithMoves DEF CloseStopped, Steps
  <2> QED
    BY <2>1, <2>2 DEF Settles, Moved
<1> QED
  BY <1>1, <1>3, <1>4, <1>5, <1>6, <1>7, <1>8, <1>9, <1>10 DEF Works, StopAll, At

LEMMA WorksKeepAll ==
  ASSUME IInv, NEW k \in Slots, Works(k)
  PROVE  IInv'
<1> USE DEF IInv
<1>1. TunnelInv'
  BY WorksKeep
<1>2. /\ UNCHANGED <<hook, shown, busy, place, overlap, strayed>> /\ calls[k].kind # "none"
      /\ \A j \in Slots : calls'[j].kind = calls[j].kind /\ calls'[j].id = calls[j].id
      /\ \A j \in Slots \ {k} : calls'[j] = calls[j]
  BY WorksMove DEF Quiet
<1>3. Waits'
  BY <1>2 DEF Waits, TunnelInv, TypeOK
<1>4. \A i \in Ids : UnderWay(i)' = UnderWay(i)
  BY <1>2 DEF UnderWay
<1>5. calls[k].id \in Ids
  BY DEF TunnelInv, TypeOK, Call
<1>6. ASSUME NEW i \in Ids, i # calls[k].id, place # "closing", NEW j \in UnderWay(i), Settles(j)
      PROVE  Settles(j)'
  <2>1. j \in Slots /\ calls[j].id = i /\ j # k
    BY <1>6 DEF UnderWay, TunnelInv, CallFits
  <2> QED
    BY <1>2, <1>6, <2>1, WorksTouchOwn DEF Settles
<1>7. place # "closing" => k \in UnderWay(calls[k].id)
  BY <1>2 DEF UnderWay
<1>8. \A i \in Ids, j \in Slots : Alone(j, i)' <=> Alone(j, i)
  BY <1>4 DEF Alone
<1>9. "mgmt" \in Ids /\ "svc" \in Ids
  BY DEF Ids
<1>10. ManagementInv'
  <2> SUFFICES ASSUME place # "closing", "mgmt" \notin overlap
               PROVE  /\ UnderWay("mgmt") = {} => registry'["mgmt"] = IF hook.kind = "ready" THEN hook.f ELSE 0
                      /\ \A j \in UnderWay("mgmt") :
                           /\ Alone(j, "mgmt") /\ Settles(j)'
                           /\ calls[j].kind = "start" => hook.call = j
                           /\ calls[j].kind = "stop" => hook.kind = "idle"
    BY <1>2, <1>4, <1>8, <1>9 DEF ManagementInv, UnderWay
  <2>1. UnderWay("mgmt") = {} => registry'["mgmt"] = registry["mgmt"]
    BY <1>7, <1>9, WorksTouchOwn
  <2>2. ASSUME NEW j \in UnderWay("mgmt") PROVE Settles(j)'
    <3>1. Alone(j, "mgmt") /\ Settles(j)
      BY DEF ManagementInv
    <3>2. CASE calls[k].id = "mgmt"
      <4>1. k = j
        BY <1>7, <3>1, <3>2 DEF Alone
      <4> QED
        BY <3>1, <3>2, <4>1, WorksSettle
    <3>3. CASE calls[k].id # "mgmt"
      BY <1>6, <1>9, <3>1, <3>3
    <3> QED
      BY <3>2, <3>3
  <2> QED
    BY <2>1, <2>2 DEF ManagementInv
<1>11. ButtonInv'
  <2> SUFFICES ASSUME place # "closing", "svc" \notin overlap
               PROVE  /\ UnderWay("svc") = {} => registry'["svc"] = shown
                      /\ \A j \in UnderWay("svc") :
                           /\ Alone(j, "svc") /\ Settles(j)'
                           /\ calls[j].kind = "start" => shown = 0
                      /\ place = "removed" /\ ~strayed =>
                           /\ UnderWay("svc") = {} => shown = 0
                           /\ \A j \in UnderWay("svc") : calls[j].kind = "stop"
    BY <1>2, <1>4, <1>8, <1>9 DEF ButtonInv, UnderWay
  <2>1. UnderWay("svc") = {} => registry'["svc"] = registry["svc"]
    BY <1>7, <1>9, WorksTouchOwn
  <2>2. ASSUME NEW j \in UnderWay("svc") PROVE Settles(j)'
    <3>1. Alone(j, "svc") /\ Settles(j)
      BY DEF ButtonInv
    <3>2. CASE calls[k].id = "svc"
      <4>1. k = j
        BY <1>7, <3>1, <3>2 DEF Alone
      <4> QED
        BY <3>1, <3>2, <4>1, WorksSettle
    <3>3. CASE calls[k].id # "svc"
      BY <1>6, <1>9, <3>1, <3>3
    <3> QED
      BY <3>2, <3>3
  <2> QED
    BY <2>1, <2>2 DEF ButtonInv
<1> QED
  BY <1>1, <1>3, <1>10, <1>11

LEMMA DeliverStep ==
  ASSUME IInv, NEW k \in Slots, Deliver(k)
  PROVE  IInv'
<1> USE DEF IInv
<1> DEFINE c == calls[k]
           mine == c.kind = "start" /\ hook.call = k
<1>1. /\ c.kind \in {"start", "stop", "status", "stop_all"} /\ c.pc = "answered"
      /\ calls' = [calls EXCEPT ![k] = NoCall]
      /\ UNCHANGED <<forwarderVars, registry, lock, place, overlap, strayed, presses>>
  BY DEF Deliver, At
<1>2. hook' = IF mine THEN [kind |-> IF c.f = 0 THEN "error" ELSE "ready", call |-> 0, f |-> c.f]
              ELSE hook
  BY DEF Deliver
<1>3. shown' = IF c.id = "mgmt" \/ c.kind = "stop_all" \/ (c.kind = "start" /\ c.f = 0)
               THEN shown ELSE c.f
  BY DEF Deliver
<1>4. busy' = (busy /\ ~(c.id = "svc" /\ c.kind \in {"start", "stop"}))
  BY DEF Deliver
<1>5. /\ calls \in [Slots -> Call] /\ c \in Call /\ NoCall \in Call /\ Begins(NoCall)
      /\ NoCall.kind = "none"
  BY DEF TunnelInv, TypeOK, Call, NoCall, Ids, Begins
<1>6. /\ calls' \in [Slots -> Call] /\ calls'[k] = NoCall
      /\ \A j \in Slots \ {k} : calls'[j] = calls[j]
  BY <1>1, <1>5
<1>7. TypeOK'
  <2>1. hook' \in [kind : {"idle", "connecting", "ready", "error"}, call : Slots \cup {0}, f : F \cup {0}]
    BY <1>2, <1>5 DEF TunnelInv, TypeOK, Call
  <2>2. shown' \in F \cup {0}
    <3>1. shown' \in {shown, c.f}
      BY <1>3
    <3> QED
      BY <1>5, <3>1 DEF TunnelInv, TypeOK, Call
  <2>3. busy' \in BOOLEAN
    BY <1>4, Zenon
  <2> QED
    BY <1>1, <1>6, <2>1, <2>2, <2>3 DEF TunnelInv, TypeOK, ForwarderTypeOK, forwarderVars
<1>8. TunnelInv'
  <2>1. CallFits'
    BY <1>1, <1>5, <1>6 DEF TunnelInv, CallFits, Begins
  <2> QED
    BY <1>1, <1>5, <1>6, <1>7, <2>1, HooksKeep
<1>9. \A i \in Ids : UnderWay(i)' = UnderWay(i) \ {k}
  BY <1>5, <1>6 DEF UnderWay
<1>10. Waits'
  <2>1. hook'.kind = "connecting" <=> hook'.call # 0
    BY <1>2 DEF Waits
  <2>2. hook'.call # 0 => hook'.call = hook.call /\ hook.call \in Slots \ {k}
    BY <1>2 DEF Waits, TunnelInv, TypeOK
  <2>3. hook'.call # 0 => calls'[hook'.call].kind = "start" /\ calls'[hook'.call].id = "mgmt"
    BY <1>6, <2>2 DEF Waits
  <2>4. place' = "removed" => hook'.kind = "idle"
    <3>1. mine => hook.kind = "connecting"
      BY SlotsAreNumbers DEF Waits
    <3> QED
      BY <1>1, <1>2, <3>1 DEF Waits
  <2>5. busy' => \E j \in Slots : calls'[j].kind \in {"start", "stop"} /\ calls'[j].id = "svc"
    BY <1>4, <1>6 DEF Waits
  <2> QED
    BY <2>1, <2>3, <2>4, <2>5 DEF Waits
<1>11. \A j \in Slots \ {k} : Settles(j)' <=> Settles(j)
  BY <1>1, <1>6 DEF Settles
<1>12. "mgmt" \in Ids /\ "svc" \in Ids /\ c.id \in Ids
  BY <1>5 DEF Ids, Call
<1>13. place # "closing" => c.kind # "stop_all"
  BY DEF TunnelInv, CallFits
<1>14. ManagementInv'
  <2>1. CASE place = "closing" \/ "mgmt" \in overlap
    BY <1>1, <2>1 DEF ManagementInv
  <2>2. CASE place # "closing" /\ "mgmt" \notin overlap /\ c.id = "mgmt"
    <3>1. k \in UnderWay("mgmt") /\ UnderWay("mgmt") = {k}
      BY <1>1, <2>2 DEF UnderWay, ManagementInv, Alone
    <3>2. UnderWay("mgmt")' = {}
      BY <1>9, <1>12, <3>1
    <3>3. Settles(k) /\ (c.kind = "start" => hook.call = k) /\ (c.kind = "stop" => hook.kind = "idle")
      BY <2>2, <3>1 DEF ManagementInv
    <3>4. c.kind \in {"start", "stop"} /\ c.f = registry["mgmt"]
      BY <1>1, <1>13, <2>2, <3>3 DEF Settles, TunnelInv, CallFits
    <3>5. registry["mgmt"] = IF hook'.kind = "ready" THEN hook'.f ELSE 0
      <4>1. CASE c.kind = "start"
        BY <1>2, <3>3, <3>4, <4>1
      <4>2. CASE c.kind = "stop"
        BY <1>1, <1>2, <2>2, <3>3, <4>2 DEF Settles
      <4> QED
        BY <3>4, <4>1, <4>2
    <3> QED
      BY <1>1, <3>2, <3>5 DEF ManagementInv
  <2>3. CASE place # "closing" /\ "mgmt" \notin overlap /\ c.id # "mgmt"
    <3>1. UnderWay("mgmt")' = UnderWay("mgmt") /\ k \notin UnderWay("mgmt")
      BY <1>9, <1>12, <1>13, <2>3 DEF UnderWay
    <3>2. hook' = hook
      BY <1>2, <2>3, SlotsAreNumbers DEF Waits
    <3>3. \A j \in UnderWay("mgmt") : j \in Slots \ {k}
      BY <3>1 DEF UnderWay
    <3> QED
      BY <1>1, <1>6, <1>11, <2>3, <3>1, <3>2, <3>3 DEF ManagementInv, Alone
  <2> QED
    BY <2>1, <2>2, <2>3
<1>15. ButtonInv'
  <2>1. CASE place = "closing" \/ "svc" \in overlap
    BY <1>1, <2>1 DEF ButtonInv
  <2>2. CASE place # "closing" /\ "svc" \notin overlap /\ c.id = "svc"
    <3>1. k \in UnderWay("svc") /\ UnderWay("svc") = {k}
      BY <1>1, <2>2 DEF UnderWay, ButtonInv, Alone
    <3>2. UnderWay("svc")' = {}
      BY <1>9, <1>12, <3>1
    <3>3. Settles(k) /\ (c.kind = "start" => shown = 0)
      BY <2>2, <3>1 DEF ButtonInv
    <3>4. c.f = registry["svc"]
      BY <1>1, <2>2, <3>3 DEF Settles
    <3>5. shown' = registry["svc"]
      BY <1>3, <1>13, <2>2, <3>3, <3>4
    <3>6. place = "removed" /\ ~strayed => registry["svc"] = 0
      BY <1>1, <2>2, <3>1, <3>3 DEF ButtonInv, Settles
    <3> QED
      BY <1>1, <3>2, <3>5, <3>6 DEF ButtonInv
  <2>3. CASE place # "closing" /\ "svc" \notin overlap /\ c.id # "svc"
    <3>1. UnderWay("svc")' = UnderWay("svc") /\ k \notin UnderWay("svc")
      BY <1>9, <1>12, <1>13, <2>3 DEF UnderWay
    <3>2. shown' = shown
      BY <1>3, <1>12, <2>3 DEF Ids
    <3>3. \A j \in UnderWay("svc") : j \in Slots \ {k}
      BY <3>1 DEF UnderWay
    <3> QED
      BY <1>1, <1>6, <1>11, <2>3, <3>1, <3>2, <3>3 DEF ButtonInv, Alone
  <2> QED
    BY <2>1, <2>2, <2>3
<1> QED
  BY <1>8, <1>10, <1>14, <1>15

\* Tasks and the network leave the commands and the hooks alone.
LEMMA SessionsKeepAll ==
  ASSUME IInv, UNCHANGED tunnelVars, UNCHANGED listening, ForwarderTypeOK', SessionInv'
  PROVE  IInv'
<1> USE DEF IInv, tunnelVars
<1>1. TypeOK'
  BY DEF TunnelInv, TypeOK
<1>2. Owned'
  BY DEF TunnelInv, Owned, Holds
<1>3. Stopping'
  BY DEF TunnelInv, Stopping
<1>4. CallFits' /\ Tracked'
  BY DEF TunnelInv, CallFits, Tracked
<1>5. \A i \in Ids : UnderWay(i)' = UnderWay(i)
  BY DEF UnderWay
<1>6. Waits'
  BY DEF Waits
<1>7. ManagementInv'
  BY <1>5 DEF ManagementInv, Alone, Settles, Ids
<1>8. ButtonInv'
  BY <1>5 DEF ButtonInv, Alone, Settles, Ids
<1> QED
  BY <1>1, <1>2, <1>3, <1>4, <1>6, <1>7, <1>8 DEF TunnelInv

-----------------------------------------------------------------------------
(* The theorems. *)

LEMMA Initially == Init => IInv
<1> SUFFICES ASSUME Init PROVE IInv
  OBVIOUS
<1> USE ForwarderAssumption, TunnelsAssumption
        DEF Init, ForwarderInit, NoCall, Idle
<1>1. TypeOK
  <2>1. ForwarderTypeOK
    <3>1. up \in BOOLEAN
      OBVIOUS
    <3>2. outages \in 0..MaxOutages
      OBVIOUS
    <3> QED
      BY <3>1, <3>2 DEF ForwarderTypeOK
  <2>2. busy \in BOOLEAN /\ strayed \in BOOLEAN
    OBVIOUS
  <2>3. presses \in 0..MaxPresses
    OBVIOUS
  <2>4. calls \in [Slots -> Call]
    BY DEF Call, Ids
  <2> QED
    BY <2>1, <2>2, <2>3, <2>4 DEF TypeOK, Ids
<1>2. SessionInv
  BY DEF SessionInv, SessionsAccounted, F
<1>3. Owned /\ Stopping /\ CallFits /\ Tracked
  BY DEF Owned, Holds, Stopping, CallFits, Tracked
<1>4. Waits
  BY DEF Waits
<1>5. ManagementInv /\ ButtonInv
  BY DEF ManagementInv, ButtonInv, UnderWay, Ids
<1> QED
  BY <1>1, <1>2, <1>3, <1>4, <1>5 DEF IInv, TunnelInv

LEMMA Induction == IInv /\ [Next]_vars => IInv'
<1> SUFFICES ASSUME IInv, [Next]_vars PROVE IInv'
  OBVIOUS
<1>1. CASE User
  BY <1>1, ShowManagementStep, LeaveManagementStep, PressButtonStep, OpenTunnelStep,
     RemoveServerStep, CloseWindowStep DEF User
<1>2. ASSUME NEW k \in Slots, Works(k) \/ Deliver(k) PROVE IInv'
  BY <1>2, WorksKeepAll, DeliverStep
<1>3. ASSUME NEW c \in Conn, TaskStep(c) \/ Hangup(c) \/ (\E f \in F : Client(f, c)),
             UNCHANGED tunnelVars
      PROVE  IInv'
  <2>1. TaskStep(c) \/ Hangup(c) \/ \E f \in F : Accept(f, c)
    BY <1>3 DEF Client
  <2>2. ForwarderTypeOK' /\ SessionInv' /\ UNCHANGED listening
    BY <2>1, TasksKeepSessions DEF IInv, TunnelInv, TypeOK
  <2> QED
    BY <1>3, <2>2, SessionsKeepAll
<1>4. CASE Network /\ UNCHANGED tunnelVars
  <2>1. ForwarderTypeOK' /\ SessionInv' /\ UNCHANGED listening
    BY <1>4, NetworkKeepsSessions DEF IInv, TunnelInv, TypeOK
  <2> QED
    BY <1>4, <2>1, SessionsKeepAll
<1>5. CASE UNCHANGED vars
  <2>1. ForwarderTypeOK' /\ SessionInv' /\ UNCHANGED <<listening, tunnelVars>>
    BY <1>5 DEF vars, forwarderVars, IInv, TunnelInv, TypeOK, ForwarderTypeOK, SessionInv,
       SessionsAccounted, TasksOf
  <2> QED
    BY <2>1, SessionsKeepAll
<1> QED
  BY <1>1, <1>2, <1>3, <1>4, <1>5 DEF Next

\* The registry, the commands and the hooks never lose sight of a tunnel.
THEOREM Invariance == Spec => []IInv
BY Initially, Induction, PTL DEF Spec

\* Every variable keeps its type.
THEOREM TypeCorrect == Spec => []TypeOK
<1>1. IInv => TypeOK
  BY DEF IInv, TunnelInv
<1> QED
  BY <1>1, Invariance, PTL

\* However many starts, stops and probes run side by side, every loop that runs
\* is entered in the registry or in the hands of a start that will enter or
\* stop it, and a session outlives its tunnel only with a connection on it.
THEOREM NothingOrphanedHolds == Spec => []NothingOrphaned
<1>1. IInv => NothingOrphaned
  BY DEF IInv, TunnelInv, SessionInv, Tracked, NothingOrphaned
<1> QED
  BY <1>1, Invariance, PTL

\* Where the latest command of a tunnel was sent after the answers to those
\* before it, the hooks show what runs once it is answered.
THEOREM ScreenTruthfulHolds == Spec => []ScreenTruthful
<1>1. IInv => ScreenTruthful
  <2> SUFFICES ASSUME IInv, place # "closing"
               PROVE  /\ UnderWay("mgmt") = {} /\ "mgmt" \notin overlap =>
                           registry["mgmt"] = IF hook.kind = "ready" THEN hook.f ELSE 0
                      /\ UnderWay("svc") = {} /\ "svc" \notin overlap =>
                           /\ registry["svc"] = shown /\ ~busy
                           /\ place = "removed" /\ ~strayed => shown = 0
    BY DEF ScreenTruthful
  <2>1. UnderWay("svc") = {} => ~busy
    BY DEF IInv, Waits, UnderWay
  <2> QED
    BY <2>1 DEF IInv, ManagementInv, ButtonInv
<1> QED
  BY <1>1, Invariance, PTL
=============================================================================
