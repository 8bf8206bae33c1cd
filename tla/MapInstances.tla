----------------------------- MODULE MapInstances -----------------------------
(***************************************************************************)
(* How many instances of a map a BattleGroup has and what they are called: *)
(* the commands `bg instances set` and `bg display-name set/clear`.  Each  *)
(* reads the BattleGroup, computes a JSON patch whose paths hold array     *)
(* positions, and applies it without a version test; the first also        *)
(* rewrites two ini files.  Several admins may do so at once.              *)
(*                                                                         *)
(* A list of partitions is the set of them and whether it is ordered; a    *)
(* display name is an argument in Names, whatever its text.                *)
(***************************************************************************)
EXTENDS Integers, FiniteSets, SequencesExt

CONSTANTS
  Admins,      \* whoever runs the command-line tool
  Names,       \* display-name arguments
  Arguments,   \* the other arguments of a map server
  OtherIds,    \* partition ids of the maps that no command edits
  Resources,   \* the BattleGroups that may be deployed at first
  MaxCount,    \* largest --count
  MaxCommands, \* bound: commands that read the BattleGroup
  None

Survival == "Survival_1"
DeepDesert == "DeepDesert_1"
Maps == {Survival, DeepDesert}
Files == {"UserGame.ini", "Game.ini"}

VARIABLES
  bg,        \* the BattleGroup resource
  pvp,       \* the partition ids each ini file enables PvP on
  job,       \* what each admin's command is about to do
  commands,  \* how many have read the BattleGroup (bound)
  deployed,  \* the resource at first (history)
  managed,   \* a Survival_1 count was set or found (history)
  asked,     \* the overrides the commands asked for (history)
  raced      \* a patch landed on a resource changed since it was read

history == <<deployed, managed, asked, raced>>
vars == <<bg, pvp, job, commands, history>>

Idle == [step |-> "idle"]

-----------------------------------------------------------------------------
(* The number of instances. *)

Ids(partitions) == {p.id : p \in partitions}
AllPartitions(b) == UNION {b.partitions[map] : map \in Maps}
Largest(S) == CHOOSE x \in S : \A y \in S : x >= y

\* The order of the desired list: by dimension, then by id.
Before(p, q) ==
  \/ p.dimension < q.dimension
  \/ p.dimension = q.dimension /\ p.id < q.id

\* Mutant of Lowest: the list is truncated in the order of the ids.
LowestIds(S, n) == {p \in S : Cardinality({q \in S : q.id < p.id}) < n}
Lowest(S, n) == {p \in S : Cardinality({q \in S : Before(q, p)}) < n}
Highest(S, n) == {p \in S : Cardinality({q \in S : Before(p, q)}) < n}

\* Every id handed out is one more than the largest so far, of any map.
NextFreeId(b, k) == Largest(Ids(AllPartitions(b)) \cup OtherIds) + k

NextDimension(b, map, k) ==
  IF map = DeepDesert THEN 0
  ELSE Largest({p.dimension : p \in b.partitions[map]}) + k

Desired(b, map, count) ==
  LET missing == count - Cardinality(b.partitions[map])
  IN Lowest(b.partitions[map], count) \cup
       {[id |-> NextFreeId(b, k), dimension |-> NextDimension(b, map, k)] :
          k \in 1..missing}

\* Which counts the command accepts.
Valid(map, count, pvpCount) ==
  /\ map = DeepDesert => count = 1
  /\ pvpCount # None => map = DeepDesert /\ pvpCount <= count

\* None stands for what the patch does not replace.
InstancesPatch(b, map, count) ==
  LET desired == Desired(b, map, count)
      Unless(same, value) == IF same THEN None ELSE value
  IN [map |-> map,
      partitions |-> Unless(desired = b.partitions[map] /\ b.ordered[map], desired),
      replicas |-> Unless(map # Survival \/ b.replicas = count, count),
      setPartitions |-> Unless(map # Survival \/ b.setPartitions = Ids(desired),
                               Ids(desired)),
      edit |-> None]

DeepDesertPvpIds(partitions, pvpCount) ==
  IF pvpCount = None THEN None ELSE Ids(Highest(partitions, pvpCount))

-----------------------------------------------------------------------------
(* The display name of one. *)

\* The positions of the pod spec with an index and of the override in it, 0
\* without one.
SpecAt(specs, id) ==
  IF specs = None THEN 0 ELSE SelectInSeq(specs, LAMBDA spec : spec.index = id)
NameAt(arguments) ==
  IF arguments = None THEN 0
  ELSE SelectInSeq(arguments, LAMBDA argument : argument \in Names)

ArgumentsOf(specs, id) ==
  IF SpecAt(specs, id) = 0 THEN None ELSE specs[SpecAt(specs, id)].arguments
NameShown(specs, id) ==
  LET arguments == ArgumentsOf(specs, id)
  IN IF NameAt(arguments) = 0 THEN None ELSE arguments[NameAt(arguments)]

\* Mutant of NameEdit: a missing pod spec replaces the list of them.
NameEditAlone(specs, id, name) ==
  LET arguments == ArgumentsOf(specs, id)
      op == CASE SpecAt(specs, id) = 0 -> "add_podSpecs"
              [] SpecAt(specs, id) > 0 /\ arguments = None -> "add_arguments"
              [] arguments # None /\ NameAt(arguments) = 0 -> "add_argument"
              [] NameAt(arguments) > 0 /\ name = None -> "remove_argument"
              [] NameAt(arguments) > 0 /\ name # None -> "replace_argument"
  IN IF name = NameShown(specs, id) THEN None
     ELSE [op |-> op, spec |-> SpecAt(specs, id), argument |-> NameAt(arguments),
           id |-> id, name |-> name]

\* The one operation of a display-name patch, None if the name is current.
NameEdit(specs, id, name) ==
  LET arguments == ArgumentsOf(specs, id)
      op == CASE specs = None -> "add_podSpecs"
              [] specs # None /\ SpecAt(specs, id) = 0 -> "add_podSpec"
              [] SpecAt(specs, id) > 0 /\ arguments = None -> "add_arguments"
              [] arguments # None /\ NameAt(arguments) = 0 -> "add_argument"
              [] NameAt(arguments) > 0 /\ name = None -> "remove_argument"
              [] NameAt(arguments) > 0 /\ name # None -> "replace_argument"
  IN IF name = NameShown(specs, id) THEN None
     ELSE [op |-> op, spec |-> SpecAt(specs, id), argument |-> NameAt(arguments),
           id |-> id, name |-> name]

NamePatch(b, map, id, name) ==
  [map |-> map, partitions |-> None, replicas |-> None, setPartitions |-> None,
   edit |-> NameEdit(b.podSpecs[map], id, name)]

-----------------------------------------------------------------------------
(* The patches as the cluster applies them, all or nothing. *)

EmptyPatch(patch) ==
  patch.partitions = None /\ patch.replicas = None
    /\ patch.setPartitions = None /\ patch.edit = None

\* The paths of the patch are there.
Accepts(b, patch) ==
  patch.edit # None =>
    LET edit == patch.edit
        specs == b.podSpecs[patch.map]
        arguments == specs[edit.spec].arguments
    IN /\ edit.op # "add_podSpecs" => specs # None
       /\ edit.op \notin {"add_podSpecs", "add_podSpec"} => edit.spec \in DOMAIN specs
       /\ edit.op \in {"add_argument", "remove_argument", "replace_argument"} =>
            arguments # None
       /\ edit.op \in {"remove_argument", "replace_argument"} =>
            edit.argument \in DOMAIN arguments

EditedSpecs(specs, edit) ==
  LET fresh == [index |-> edit.id, arguments |-> <<edit.name>>]
      i == edit.spec
  IN CASE edit.op = "add_podSpecs" -> <<fresh>>
       [] edit.op = "add_podSpec" -> Append(specs, fresh)
       [] edit.op = "add_arguments" -> [specs EXCEPT ![i].arguments = <<edit.name>>]
       [] edit.op = "add_argument" ->
            [specs EXCEPT ![i].arguments = Append(@, edit.name)]
       [] edit.op = "remove_argument" ->
            [specs EXCEPT ![i].arguments = RemoveAt(@, edit.argument)]
       [] edit.op = "replace_argument" ->
            [specs EXCEPT ![i].arguments[edit.argument] = edit.name]

Patched(b, patch) ==
  LET map == patch.map
      With(value, old) == IF value = None THEN old ELSE value
  IN [partitions |-> [b.partitions EXCEPT ![map] = With(patch.partitions, @)],
      ordered |-> [b.ordered EXCEPT ![map] = @ \/ patch.partitions # None],
      replicas |-> With(patch.replicas, b.replicas),
      setPartitions |-> With(patch.setPartitions, b.setPartitions),
      podSpecs |-> [b.podSpecs EXCEPT ![map] =
                      IF patch.edit = None THEN @ ELSE EditedSpecs(@, patch.edit)]]

\* The names shown, by map and partition id.
Overrides(b) ==
  {[map |-> map, id |-> id, name |-> NameShown(b.podSpecs[map], id)] :
     map \in Maps,
     id \in UNION {{b.podSpecs[m][i].index : i \in DOMAIN b.podSpecs[m]} :
                     m \in {m \in Maps : b.podSpecs[m] # None}}}

-----------------------------------------------------------------------------
(* The commands. *)

Init ==
  /\ bg \in Resources
  /\ pvp = [file \in Files |-> {}]
  /\ job = [admin \in Admins |-> Idle]
  /\ commands = 0
  /\ deployed = bg /\ managed = FALSE /\ raced = FALSE
  /\ asked = {o \in Overrides(bg) : o.name # None}

\* What is left to do once the patch is settled.
AfterPatch(ids) == IF ids = None THEN Idle ELSE [step |-> "UserGame.ini", ids |-> ids]

\* The resource is read; an empty patch is not sent.
Read(admin, patch, ids) ==
  /\ job[admin] = Idle
  /\ commands < MaxCommands
  /\ commands' = commands + 1
  /\ job' = [job EXCEPT ![admin] =
               IF EmptyPatch(patch) THEN AfterPatch(ids)
               ELSE [step |-> "patch", patch |-> patch, ids |-> ids, current |-> TRUE]]

SetInstances(admin) ==
  \E map \in Maps, count \in 1..MaxCount, pvpCount \in {None} \cup 0..MaxCount :
    LET patch == InstancesPatch(bg, map, count)
    IN /\ Valid(map, count, pvpCount)
       /\ Read(admin, patch, DeepDesertPvpIds(Desired(bg, map, count), pvpCount))
       /\ managed' = (managed \/ (map = Survival /\ EmptyPatch(patch)))
       /\ UNCHANGED <<bg, pvp, deployed, asked, raced>>

\* The first partition of the dimension; without one the command fails.
SetDisplayName(admin) ==
  \E map \in Maps, name \in Names \cup {None} :
    \E p \in bg.partitions[map] :
      /\ bg.ordered[map] =>
           \A q \in bg.partitions[map] : q.dimension = p.dimension => q.id >= p.id
      /\ Read(admin, NamePatch(bg, map, p.id, name), None)
      /\ UNCHANGED <<bg, pvp, history>>

\* The patch is applied.  If its reply is lost the command ends there.
Patch(admin) ==
  LET patch == job[admin].patch
      edit == patch.edit
      others == {o \in asked : edit = None \/ o.map # patch.map \/ o.id # edit.id}
  IN /\ job[admin].step = "patch"
     /\ Accepts(bg, patch)
     /\ bg' = Patched(bg, patch)
     /\ \E next \in {AfterPatch(job[admin].ids), Idle} :
          job' = [a \in Admins |->
                    CASE a = admin -> next
                      [] a # admin /\ job[a].step = "patch" ->
                           [job[a] EXCEPT !.current = @ /\ bg' = bg]
                      [] OTHER -> job[a]]
     /\ managed' = (managed \/ (patch.map = Survival /\ edit = None))
     /\ asked' = others \cup
          (IF edit = None \/ edit.name = None THEN {}
           ELSE {[map |-> patch.map, id |-> edit.id, name |-> edit.name]})
     /\ raced' = (raced \/ ~job[admin].current)
     /\ UNCHANGED <<pvp, commands, deployed>>

\* The patch fails: the host is out of reach, or a path is gone.
PatchFails(admin) ==
  /\ job[admin].step = "patch"
  /\ job' = [job EXCEPT ![admin] = Idle]
  /\ UNCHANGED <<bg, pvp, commands, history>>

\* write_pvp_config_script: one file, then the other; it may fail before each.
WriteIni(admin) ==
  /\ job[admin].step \in Files
  /\ pvp' = [pvp EXCEPT ![job[admin].step] = job[admin].ids]
  /\ job' = [job EXCEPT ![admin] =
               IF @.step = "UserGame.ini" THEN [@ EXCEPT !.step = "Game.ini"] ELSE Idle]
  /\ UNCHANGED <<bg, commands, history>>

WriteIniFails(admin) ==
  /\ job[admin].step \in Files
  /\ job' = [job EXCEPT ![admin] = Idle]
  /\ UNCHANGED <<bg, pvp, commands, history>>

Next ==
  \E admin \in Admins :
    \/ SetInstances(admin) \/ SetDisplayName(admin)
    \/ Patch(admin) \/ PatchFails(admin)
    \/ WriteIni(admin) \/ WriteIniFails(admin)

Spec == Init /\ [][Next]_vars

-----------------------------------------------------------------------------
(* What is deployed at first, as the vendor's template and earlier commands    *)
(* leave it.                                                                *)

Partition == [id : Nat, dimension : Nat]
PodSpec == [index : Nat, arguments : {None} \cup Seq(Names \cup Arguments)]

Distinct(b) ==
  /\ \A p, q \in AllPartitions(b) : p.id = q.id => p = q
  /\ b.partitions[Survival] \cap b.partitions[DeepDesert] = {}
  /\ Ids(AllPartitions(b)) \cap OtherIds = {}
  /\ \A p, q \in b.partitions[Survival] : p.dimension = q.dimension => p = q
  /\ \A map \in Maps : b.partitions[map] # {}

\* The display-name override is an argument at most once.
OneOverride(specs) ==
  \A i \in DOMAIN specs :
    specs[i].arguments # None =>
      LET Overriding == {j \in DOMAIN specs[i].arguments : specs[i].arguments[j] \in Names}
      IN \A j, k \in Overriding : j = k

Deployable ==
  /\ IsFiniteSet(OtherIds) /\ OtherIds \subseteq Nat
  /\ MaxCount \in Nat /\ MaxCommands \in Nat /\ None \notin Nat \cup Names
  /\ \A b \in Resources :
       /\ b.partitions \in [Maps -> SUBSET Partition] /\ b.ordered \in [Maps -> BOOLEAN]
       /\ \A map \in Maps : IsFiniteSet(b.partitions[map])
       /\ b.replicas \in {None} \cup Nat /\ b.setPartitions \in {None} \cup SUBSET Nat
       /\ b.podSpecs \in [Maps -> {None} \cup Seq(PodSpec)]
       /\ \A map \in Maps : b.podSpecs[map] # None => OneOverride(b.podSpecs[map])
       /\ Distinct(b)

ASSUME DeployableAssumption == Deployable

-----------------------------------------------------------------------------
(* Properties. *)

Step == {"idle", "patch"} \cup Files

\* Every variable keeps its type: the resource as the patches rewrite it, the
\* ini files, and the command each admin runs.
TypeOK ==
  /\ bg.partitions \in [Maps -> SUBSET Partition] /\ bg.ordered \in [Maps -> BOOLEAN]
  /\ bg.replicas \in {None} \cup Nat /\ bg.setPartitions \in {None} \cup SUBSET Nat
  /\ bg.podSpecs \in [Maps -> {None} \cup Seq(PodSpec)]
  /\ pvp \in [Files -> SUBSET Nat]
  /\ DOMAIN job = Admins /\ \A admin \in Admins : job[admin].step \in Step
  /\ commands \in 0..MaxCommands
  /\ managed \in BOOLEAN /\ raced \in BOOLEAN

\* No two partitions have the same id, whatever their maps, no two instances of
\* Survival_1 the same dimension, and no map loses its last partition: a list
\* computed from an old read never clashes with what was set meanwhile.
PartitionsDistinct == Distinct(bg)

\* The server group starts the partitions that the database template lists: the
\* replicas and partitions of the Survival_1 set follow worldPartitions.  From
\* a resource where they did, racing commands keep it so; from another one, the
\* first count that is set without a race repairs it.
Matches(b) ==
  /\ b.ordered[Survival]
  /\ b.replicas = Cardinality(b.partitions[Survival])
  /\ b.setPartitions = Ids(b.partitions[Survival])
SetsMatch == Matches(deployed) \/ (managed /\ ~raced) => Matches(bg)

\* A partition shows the name that was last asked for its id, and none where
\* none was asked: the positions in the patches hit the argument they mean, over
\* any sequence of set, clear and count that did not race.
NamesAsAsked == ~raced => {o \in Overrides(bg) : o.name # None} = asked

\* With a single Deep Desert, as this build allows, PvP is enabled on no
\* partition of another map, after any races and half-written ini files.
PvpOnlyInDeepDesert ==
  \A file \in Files : pvp[file] \subseteq Ids(bg.partitions[DeepDesert])

\* A change of the count only adds partitions, or only removes those of the
\* highest dimensions; those that stay keep their ids, by which the game stores
\* what is built there.
SurvivorsKeepIds ==
  [][~raced' => \A map \in Maps :
       LET old == bg.partitions[map]
           new == bg'.partitions[map]
       IN /\ old \subseteq new \/ new \subseteq old
          /\ \A p \in old \ new, q \in new : Before(q, p)]_vars

\* The same arguments in the same order, the override aside.
SameOthers(old, new) ==
  LET Others(arguments) ==
        IF arguments = None THEN {} ELSE {j \in DOMAIN arguments : arguments[j] \notin Names}
  IN \E f \in Bijection(Others(old), Others(new)) :
       \A j, k \in Others(old) : new[f[j]] = old[j] /\ (j < k => f[j] < f[k])

\* A display-name command changes the pod spec of one partition, and of its
\* arguments none but the override.
OnlyOverrideChanges ==
  [][~raced' => \A map \in Maps : bg.podSpecs[map] # None =>
       LET old == bg.podSpecs[map]
           new == bg'.podSpecs[map]
       IN /\ \A i \in DOMAIN old :
               /\ i \in DOMAIN new /\ new[i].index = old[i].index
               /\ SameOthers(old[i].arguments, new[i].arguments)
          /\ \A i, j \in DOMAIN old : new[i] # old[i] /\ new[j] # old[j] => i = j]_vars

\* Instances: what holds in every state, after any races, and the ids that a
\* command without a race keeps.
InstancesSound ==
  /\ [](PartitionsDistinct /\ SetsMatch /\ PvpOnlyInDeepDesert)
  /\ SurvivorsKeepIds

\* Display names: each where it was asked for, and nothing else touched.
NamesSound == []NamesAsAsked /\ OnlyOverrideChanges
=============================================================================
