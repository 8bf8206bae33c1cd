----------------------------- MODULE MemoryProfile -----------------------------
(***************************************************************************)
(* The memory profile of a battlegroup and the swap file that makes up for *)
(* it: `enable` makes the file, patches the memory of every server set and *)
(* reads all of it back; apply_battlegroup_memory_profile only patches.    *)
(* A patch is computed from what was read before and names the sets by     *)
(* their position; the vendor's update may replace the list meanwhile, and *)
(* two admins may be at it at once.                                        *)
(*                                                                         *)
(* Memory is counted in MiB, swap in GiB.                                  *)
(***************************************************************************)
EXTENDS Integers, Sequences

CONSTANTS
  Admins,     \* whoever applies the profile
  Sizes,      \* swap_size_gib
  SetLists,   \* the lists of sets that the vendor deploys
  MaxApplies, \* bound: commands
  MaxEdits    \* bound: updates by the vendor

ASSUME ProfileAssumption ==
  Sizes \subseteq 1..256 /\ MaxApplies \in Nat /\ MaxEdits \in Nat

VARIABLES
  sets,     \* map, limit and request of each set; Unset: not there
  swap,     \* the size of the swap file, 0: none or a part of one
  job,      \* what each admin's command does next
  applied,  \* the size of the last profile patched in, 0: none since the vendor
  mixed,    \* a patch landed on sets changed since they were read
  applies, edits

profileVars == <<sets, swap, job, applied, mixed, applies, edits>>

Unset == -1

\* What the vendor writes is an amount of memory, or nothing.
ASSUME SetsAssumption ==
  \A list \in SetLists : \A i \in DOMAIN list :
    {list[i].limit, list[i].request} \subseteq Nat \cup {Unset}

Resting == [step |-> "idle"]

ProfileTypeOK ==
  /\ \A i \in DOMAIN sets : {sets[i].limit, sets[i].request} \subseteq Nat \cup {Unset}
  /\ swap \in Sizes \cup {0} /\ applied \in Sizes \cup {0}
  /\ \A a \in Admins : job[a].step \in {"idle", "swap", "read", "patch", "verify"}
  /\ mixed \in BOOLEAN /\ applies \in 0..MaxApplies /\ edits \in 0..MaxEdits

ProfileInit ==
  /\ sets \in SetLists /\ swap = 0
  /\ job = [a \in Admins |-> Resting]
  /\ applied = 0 /\ mixed = FALSE /\ applies = 0 /\ edits = 0

-----------------------------------------------------------------------------
(* The profile. *)

VendorSwap == 30
AtMost(x, y) == IF x < y THEN x ELSE y
Ceiling(x, y) == (x + y - 1) \div y

\* scaled_gi_profile: from `none` without swap down to `full` with the vendor's.
Scaled(none, full, size) ==
  1024 * (none - Ceiling((none - full) * AtMost(size, VendorSwap), VendorSwap))

\* memory_profile_for_map.
Profile(map, size) ==
  CASE map = "Survival_1" -> [limit |-> Scaled(20, 12, size), request |-> Scaled(20, 5, size)]
    [] map = "DeepDesert_1" -> [limit |-> 1024 * 10, request |-> Scaled(10, 3, size)]
    [] OTHER -> [limit |-> 1024, request |-> 200]

Field == {"limit", "request"}

\* Where a set differs from its profile: <<position, field>>.
Differing(list, size) ==
  {p \in (DOMAIN list) \X Field : list[p[1]][p[2]] # Profile(list[p[1]].map, size)[p[2]]}

\* The operation of the patch that mends it, at the position that is counted.
Mend(list, size, p, position) ==
  [at |-> position, field |-> p[2], replaces |-> list[p[1]][p[2]] # Unset,
   value |-> Profile(list[p[1]].map, size)[p[2]]]

\* Mutant of Operations: the sets without resources are not counted.
Position(list, i) ==
  Len(SelectSeq(SubSeq(list, 1, i), LAMBDA s : s.limit # Unset \/ s.request # Unset))
OperationsByRank(list, size) ==
  {Mend(list, size, p, IF list[p[1]].limit = Unset /\ list[p[1]].request = Unset
                         THEN p[1] ELSE Position(list, p[1])) : p \in Differing(list, size)}

\* experimental_swap_patch_operations_for_swap: only what differs.
Operations(list, size) == {Mend(list, size, p, p[1]) : p \in Differing(list, size)}

\* kubectl patch --type=json: all or nothing, and what is replaced must be there
\* or have been added by the patch.
Fits(list, operations) ==
  \A o \in operations :
    /\ o.at \in DOMAIN list
    /\ o.replaces => \/ list[o.at][o.field] # Unset
                     \/ \E p \in operations : p.at = o.at /\ p.field = o.field /\ ~p.replaces

\* A field of a set after the patch: the last operation on it stands.
After(list, operations, i, f) ==
  IF \E o \in operations : o.at = i /\ o.field = f
    THEN (CHOOSE o \in operations : o.at = i /\ o.field = f).value
    ELSE list[i][f]
PatchedSets(list, operations) ==
  [i \in DOMAIN list |->
     [map |-> list[i].map, limit |-> After(list, operations, i, "limit"),
      request |-> After(list, operations, i, "request")]]

-----------------------------------------------------------------------------
(* The commands. *)

\* enable begins with the swap file, the other command with the battlegroup.
AskProfile(a) ==
  /\ job[a] = Resting /\ applies < MaxApplies
  /\ applies' = applies + 1
  /\ \E size \in Sizes, step \in {"swap", "read"} :
       job' = [job EXCEPT ![a] = [step |-> step, size |-> size, enable |-> step = "swap"]]
  /\ UNCHANGED <<sets, swap, applied, mixed, edits>>

\* enable_swap_script: a smaller file is removed before the new one is made, and
\* the script may fail before, between (a part of a file counts as none) or after,
\* when k3s does not come back; what it changes in k3s is not looked at.
EnableSwap(a) ==
  /\ job[a].step = "swap"
  /\ \/ /\ swap' = IF swap < job[a].size THEN job[a].size ELSE swap
        /\ job' = [job EXCEPT ![a].step = "read"]
     \/ /\ swap' \in {swap} \cup (IF swap < job[a].size THEN {0, job[a].size} ELSE {})
        /\ job' = [job EXCEPT ![a] = Resting]
  /\ UNCHANGED <<sets, applied, mixed, applies, edits>>

\* What is left to do with the patch settled.
Settled(j) == IF j.enable THEN [step |-> "verify", size |-> j.size] ELSE Resting

ReadSets(a) ==
  /\ job[a].step = "read"
  /\ LET operations == Operations(sets, job[a].size)
     IN IF operations = {}
          THEN /\ applied' = (IF mixed THEN applied ELSE job[a].size)
               /\ job' = [job EXCEPT ![a] = Settled(job[a])]
          ELSE /\ job' = [job EXCEPT ![a] = [step |-> "patch", size |-> @.size, enable |-> @.enable,
                                             operations |-> operations, current |-> TRUE]]
               /\ UNCHANGED applied
  /\ UNCHANGED <<sets, swap, mixed, applies, edits>>

\* Others that have read the sets hold an old list from now on.
Outdated(jobs) ==
  [b \in Admins |-> IF jobs[b].step = "patch" THEN [jobs[b] EXCEPT !.current = FALSE] ELSE jobs[b]]

\* Two sizes may write the same: a set of other maps, or any size from 30 on.
PatchSets(a) ==
  /\ job[a].step = "patch" /\ Fits(sets, job[a].operations)
  /\ sets' = PatchedSets(sets, job[a].operations)
  /\ applied' = job[a].size
  /\ mixed' = (mixed \/ ~job[a].current)
  /\ job' = Outdated([job EXCEPT ![a] = Settled(job[a])])
  /\ UNCHANGED <<swap, applies, edits>>

\* The host is out of reach, or a path of the patch is gone.
ProfileFails(a) ==
  /\ job[a].step # "idle"
  /\ job' = [job EXCEPT ![a] = Resting]
  /\ UNCHANGED <<sets, swap, applied, mixed, applies, edits>>

\* status: the profile counts as applied if the vendor's size asks for no more.
VerifyProfile(a) ==
  /\ job[a].step = "verify"
  /\ job' = [job EXCEPT ![a] = Resting]
  /\ UNCHANGED <<sets, swap, applied, mixed, applies, edits>>

\* The vendor's update brings its own list.
VendorEdits ==
  /\ edits < MaxEdits
  /\ edits' = edits + 1
  /\ sets' \in SetLists /\ applied' = 0 /\ mixed' = FALSE
  /\ job' = Outdated(job)
  /\ UNCHANGED <<swap, applies>>

ProfileNext ==
  \/ VendorEdits
  \/ \E a \in Admins : \/ AskProfile(a) \/ EnableSwap(a) \/ ReadSets(a) \/ PatchSets(a)
                       \/ VerifyProfile(a) \/ ProfileFails(a)

-----------------------------------------------------------------------------
\* Unless a patch met sets that had changed since it was read, every set has the
\* profile of its own map for the size applied last, whatever it had before and
\* wherever it stands in the list, and asks for no more than its limit.
ProfileHolds ==
  ~mixed /\ applied # 0 =>
    \A i \in DOMAIN sets :
      /\ sets[i].request <= sets[i].limit
      /\ \A f \in Field : sets[i][f] = Profile(sets[i].map, applied)[f]
=============================================================================
