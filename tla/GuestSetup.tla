----------------------------- MODULE GuestSetup -----------------------------
(***************************************************************************)
(* Setting up a server: a sequence of remote phases that turns a fresh     *)
(* host into a running world.  Three sequences exist: the library's own    *)
(* bootstrap of an imported VM (`native`), the vendor's setup script with  *)
(* our remote part (`vendor`), and the phases for an Ubuntu host           *)
(* (`ubuntu`).  A phase that fails ends the attempt and undoes nothing;    *)
(* the administrator repeats the whole sequence on what is there.          *)
(*                                                                         *)
(* A phase is a script: `Ready` says when it can succeed, `Effect` what it *)
(* leaves behind, `Torn` what a failure in its middle may leave besides    *)
(* nothing and everything.  Versions of the server package are numbers.    *)
(***************************************************************************)
EXTENDS Naturals, Sequences, FiniteSets

CONSTANTS
  Flows,      \* the sequences this instance looks at
  MaxSteam,   \* bound: the last package version Steam publishes
  MaxPlans,   \* bound: world names handed out
  MaxFaults   \* bound: failing phases

ASSUME SetupAssumption ==
  /\ Flows \subseteq {"native", "vendor", "ubuntu"}
  /\ MaxSteam \in Nat \ {0} /\ MaxPlans \in Nat \ {0} /\ MaxFaults \in Nat

VARIABLES
  flow,     \* the sequence in use
  at,       \* the phase under way, "idle" between attempts
  plan,     \* the world name of the attempt: GuestBootstrapPlan.world_suffix
  guest,    \* what is on the host
  steam,    \* the version Steam offers
  outcome,  \* of the last attempt
  left,     \* worlds that an attempt which failed has left in the cluster
  wanted,   \* what Steam offered when it last sent the package; 0: SteamCMD gave up
  cut,      \* a script was cut off unseen: in this attempt, in one before
  faults    \* failures so far (bound)

setupVars == <<flow, at, plan, guest, steam, outcome, left, wanted, cut, faults>>

Version == 0..MaxSteam   \* 0: nothing there; of a world, the tag 0-0-shipping
Plan == 1..MaxPlans

\* GuestBootstrapOrchestrator::run.
NativePhases ==
  <<"disk", "payload", "k3s", "core_images", "scale_core", "crds", "operator_images",
    "scale_operators", "helper", "world", "bg_images", "patch", "defaults">>

\* remote_setup.sh.
VendorPhases == <<"disk", "payload", "cluster", "manifest", "create", "update", "defaults">>

\* The operations of UbuntuSshSetup, then those the two kinds of hosts share.
UbuntuPhases ==
  <<"packages", "k3s", "swap", "payload", "kubernetes", "world", "bg_images", "scheduler",
    "patch", "defaults">>

Phases == CASE flow = "native" -> NativePhases
            [] flow = "vendor" -> VendorPhases
            [] OTHER -> UbuntuPhases

PhaseNames == {NativePhases[i] : i \in DOMAIN NativePhases}
                \cup {VendorPhases[i] : i \in DOMAIN VendorPhases}
                \cup {UbuntuPhases[i] : i \in DOMAIN UbuntuPhases}

Follow ==
  LET i == CHOOSE j \in DOMAIN Phases : Phases[j] = at
  IN  IF i = Len(Phases) THEN "idle" ELSE Phases[i + 1]

Facts == {"user", "disk", "k3s", "core images", "core up", "crds", "operators up", "helper"}

Guests ==
  [has : SUBSET Facts,              \* steps whose effect simply is there
   payload : Version,               \* the server package in the download directory
   operators : Version,             \* the version the operator deployments name
   bound : {"none", "half", "full"},    \* leader election: the role, its binding
   swap : {"none", "raw", "on"},    \* /swapfile: raw is full size but no mkswap
   manifest : Plan \cup {0},        \* the newest sh-*.yaml
   worlds : SUBSET Plan,            \* battlegroups in the cluster
   images : SUBSET Version,         \* battlegroup images in containerd
   tags : [Plan -> Version],        \* the image tag of each battlegroup
   freed : SUBSET Plan,             \* battlegroups that name no vendor scheduler
   dressed : SUBSET Plan]           \* battlegroups with the default settings

Fresh ==
  [has |-> {}, payload |-> 0, operators |-> 0, bound |-> "none", swap |-> "none",
   manifest |-> 0, worlds |-> {}, images |-> {}, tags |-> [p \in Plan |-> 0],
   freed |-> {}, dressed |-> {}]

TypeOK ==
  /\ flow \in Flows
  /\ at \in PhaseNames \cup {"idle", "host"}
  /\ plan \in Plan /\ steam \in 1..MaxSteam
  /\ guest \in Guests
  /\ outcome \in {"none", "error", "done"}
  /\ left \subseteq Plan /\ wanted \in Version /\ faults \in 0..MaxFaults
  /\ cut \in {"no", "before", "now"}

SetupInit ==
  /\ flow \in Flows
  /\ at = "idle" /\ plan = 1 /\ guest = Fresh /\ steam = 1
  /\ outcome = "none" /\ left = {} /\ wanted = 0 /\ cut = "no" /\ faults = 0

\* The battlegroup that the later phases are about.
Target == IF flow = "vendor" THEN guest.manifest ELSE plan

-----------------------------------------------------------------------------
\* What the phases do.

With(fact) == [guest EXCEPT !.has = @ \cup {fact}]

\* apt packages, the service user, SteamCMD: each tested before it is made.
InstallPackages == With("user")

\* growpart and friends may all fail; what counts is the space found after them.
GrowDisk == With("disk")

\* SteamCMD brings the package up to date; remote_setup.sh only if the scripts
\* are missing.
DownloadPayload ==
  [guest EXCEPT !.payload = IF flow = "vendor" /\ @ # 0 THEN @ ELSE steam]

StartK3s == With("k3s")

ImportCoreImages == With("core images")

ScaleCore == With("core up")

\* Both operator phases are skipped, successfully, without a version file.
UpdateCrds == IF guest.payload = 0 THEN guest ELSE With("crds")

\* Mutant of PatchOperators: operators that name a version are left alone.
PatchNewOperators ==
  [guest EXCEPT !.operators = IF @ = 0 THEN guest.payload ELSE @]

PatchOperators == [guest EXCEPT !.operators = IF guest.payload = 0 THEN @ ELSE guest.payload]

ScaleOperators == With("operators up")

InstallHelper == With("helper")

\* The file is made, formatted and switched on; a file of full size is taken as
\* it is, and the result of swapon is ignored.
ConfigureSwap == [guest EXCEPT !.swap = IF @ = "none" THEN "on" ELSE @]

\* Core images, cert-manager, operators.  The role of the leader election and
\* its binding are made together, and only if there is no role.
BootstrapKubernetes ==
  [guest EXCEPT !.has = @ \cup {"core images", "core up", "crds", "operators up"},
                !.operators = guest.payload,
                !.bound = IF @ = "none" THEN "full" ELSE @]

\* A world of this name is kept, only its title is set; otherwise manifests with
\* new passwords are made and applied.
CreateWorld ==
  IF plan \in guest.worlds
  THEN guest
  ELSE [guest EXCEPT !.worlds = @ \cup {plan}, !.tags[plan] = 0, !.manifest = plan]

\* Mutant of ImportBattlegroupImages: the import is taken as done once any
\* version has been imported.
ImportOnce ==
  [guest EXCEPT !.images = IF @ = {} THEN {guest.payload} ELSE @]

ImportBattlegroupImages == [guest EXCEPT !.images = @ \cup {guest.payload}]

\* The tag is that of the package; the credentials of the database are aligned.
PatchImages == [guest EXCEPT !.tags[Target] = guest.payload]

\* The scheduler's name is removed from every set of the battlegroup.
UseDefaultScheduler == [guest EXCEPT !.freed = @ \cup {Target}]

ApplyDefaults == [guest EXCEPT !.dressed = @ \cup {Target}]

\* The vendor's k3s.sh and system.sh.
SetUpCluster ==
  [guest EXCEPT !.has = @ \cup {"k3s", "core images", "core up", "crds", "operators up", "helper"},
                !.operators = guest.payload]

\* The vendor's world.sh writes the manifest of a new world.
WriteManifest == [guest EXCEPT !.manifest = plan]

\* Mutant of CreateFromManifest: every manifest of the directory is applied.
CreateFromEvery ==
  [guest EXCEPT !.worlds = @ \cup 1..guest.manifest]

\* The newest manifest is applied, also one of an earlier attempt.
CreateFromManifest ==
  [guest EXCEPT !.worlds = @ \cup {guest.manifest},
                !.tags = IF guest.manifest \in guest.worlds THEN @ ELSE [@ EXCEPT ![guest.manifest] = 0]]

\* `battlegroup update-from-downloads`.
UpdateFromDownloads ==
  [guest EXCEPT !.images = @ \cup {guest.payload}, !.tags[guest.manifest] = guest.payload]

Effect ==
  CASE at = "packages" -> InstallPackages
    [] at = "disk" -> GrowDisk
    [] at = "payload" -> DownloadPayload
    [] at = "k3s" -> StartK3s
    [] at = "swap" -> ConfigureSwap
    [] at = "core_images" -> ImportCoreImages
    [] at = "scale_core" -> ScaleCore
    [] at = "crds" -> UpdateCrds
    [] at = "operator_images" -> PatchOperators
    [] at = "scale_operators" -> ScaleOperators
    [] at = "helper" -> InstallHelper
    [] at = "kubernetes" -> BootstrapKubernetes
    [] at = "cluster" -> SetUpCluster
    [] at = "manifest" -> WriteManifest
    [] at = "world" -> CreateWorld
    [] at = "create" -> CreateFromManifest
    [] at = "bg_images" -> ImportBattlegroupImages
    [] at = "scheduler" -> UseDefaultScheduler
    [] at = "patch" -> PatchImages
    [] at = "update" -> UpdateFromDownloads
    [] OTHER -> ApplyDefaults   \* "defaults"

\* Mutant of Ready: a world of this name is in the way.
ReadyIfNew ==
  /\ at \in {"core_images", "helper", "kubernetes", "cluster", "bg_images", "patch", "defaults"}
       => guest.payload # 0
  /\ at = "world" => plan \notin guest.worlds /\ "operators up" \in guest.has
  /\ at = "create" => guest.manifest # 0
  /\ at \in {"scheduler", "patch", "update", "defaults"} => Target \in guest.worlds
  /\ (at = "defaults") => guest.bound # "half"

\* What the scripts test, or need and do not find: files of the package,
\* operators that answer, the battlegroup, and a pod that only an operator with
\* its leader election brings up.
Ready ==
  /\ at \in {"core_images", "helper", "kubernetes", "cluster", "bg_images", "patch", "defaults"}
       => guest.payload # 0
  /\ at = "world" => plan \in guest.worlds \/ "operators up" \in guest.has
  /\ at = "create" => guest.manifest # 0
  /\ at \in {"scheduler", "patch", "update", "defaults"} => Target \in guest.worlds
  /\ (at = "defaults") => guest.bound # "half"

\* What a failure in the middle may leave besides nothing and everything.
Torn ==
  CASE at = "kubernetes" /\ guest.bound = "none" ->
         {[guest EXCEPT !.has = @ \cup {"core images", "core up", "crds"},
                        !.operators = guest.payload, !.bound = "half"]}
    [] at = "swap" /\ guest.swap = "none" -> {[guest EXCEPT !.swap = "raw"]}
    [] OTHER -> {}

-----------------------------------------------------------------------------
\* A phase ended well, with `after` on the host: the next one, or the result.
MoveOn(after) ==
  /\ guest' = after
  /\ at' = Follow
  /\ outcome' = IF Follow = "idle" THEN "done" ELSE outcome
  /\ UNCHANGED <<flow, plan, steam, left>>

Stop(after) ==
  /\ guest' = after
  /\ at' = "idle" /\ outcome' = "error"
  /\ UNCHANGED <<flow, plan, steam, wanted, cut>>
  /\ left' = left \cup ({Target'} \cap after.worlds)

Phase ==
  /\ at \in PhaseNames /\ Ready
  /\ MoveOn(Effect)
  /\ wanted' = IF at = "payload" THEN steam ELSE wanted
  /\ UNCHANGED <<cut, faults>>

PhaseRefused ==
  /\ at \in PhaseNames /\ ~Ready
  /\ Stop(guest)
  /\ UNCHANGED faults

\* Also a script that ended well on a connection that did not.
PhaseFails ==
  /\ at \in PhaseNames /\ Ready /\ faults < MaxFaults
  /\ faults' = faults + 1
  /\ \E after \in {guest, Effect} \cup Torn : Stop(after)

\* SteamCMD fails five times.  The status the script ends with is that of the
\* `if` around it, which is 0; on a native guest nobody reads more than that, on
\* Ubuntu the missing document is an error (PhaseFails).  remote_setup.sh asks
\* only whether the scripts are there.
GiveUp ==
  /\ at = "payload" /\ faults < MaxFaults
  /\ flow = "native" \/ (flow = "vendor" /\ guest.payload # 0)
  /\ faults' = faults + 1
  /\ wanted' = 0
  /\ MoveOn(guest) /\ UNCHANGED cut

\* world.sh failed, which remote_setup.sh ignores as long as there is a manifest.
ManifestIgnored ==
  /\ at = "manifest" /\ faults < MaxFaults
  /\ faults' = faults + 1
  /\ IF guest.manifest # 0
     THEN MoveOn(guest) /\ UNCHANGED <<wanted, cut>>
     ELSE Stop(guest)

\* The connection is lost, or nothing is heard on it for a minute, while a script
\* runs: exec_capture takes the missing exit status for 0.  Only where the output
\* is parsed does the phase fail (PhaseFails).
CutOff ==
  /\ flow \in {"native", "ubuntu"} /\ at \in PhaseNames /\ Ready
  /\ at \notin (IF flow = "native" THEN {"world"} ELSE {"packages", "payload", "swap", "world"})
  /\ faults < MaxFaults /\ faults' = faults + 1
  /\ \E after \in {guest, Effect} \cup Torn : MoveOn(after)
  /\ cut' = "now"
  /\ UNCHANGED wanted

Past(c) == IF c = "now" THEN "before" ELSE c

\* The administrator repeats the sequence, with the plan of before or one with a
\* new name; the vendor's script always makes a new one.
Attempt ==
  /\ at = "idle" /\ outcome # "done"
  /\ at' = Phases[1]
  /\ plan' \in {plan, plan + 1} \cap Plan
  /\ (flow = "vendor" /\ outcome = "error" /\ plan < MaxPlans) => plan' = plan + 1
  /\ cut' = Past(cut)
  /\ UNCHANGED <<flow, guest, steam, outcome, left, wanted, faults>>

Publish ==
  /\ steam < MaxSteam
  /\ steam' = steam + 1
  /\ UNCHANGED <<flow, at, plan, guest, outcome, left, wanted, cut, faults>>

SetupStep ==
  Phase \/ PhaseRefused \/ PhaseFails \/ GiveUp \/ ManifestIgnored \/ CutOff

-----------------------------------------------------------------------------
\* A battlegroup is only given the tag of images that are on the host: otherwise
\* its pods cannot start.  Holds because every sequence imports the images of
\* the package before it patches the tag, in each attempt anew; a script that was
\* cut off and taken for done breaks it.
TagsRunnable ==
  cut = "no" => \A p \in Plan : guest.tags[p] # 0 => guest.tags[p] \in guest.images

\* A world is in the cluster only for the attempt under way or because an
\* attempt for it failed late: no attempt makes one on the side, and a repetition
\* with the same plan makes no second one.
WorldsAccounted == guest.worlds \subseteq left \cup {Target}

\* A sequence that reports success has left a complete server, whatever failed
\* or was cut off in attempts before it: one version throughout, and the version
\* Steam had unless SteamCMD gave up, the settings, and an operator that can lead.
\* Only a script cut off in the attempt itself makes the report wrong.
DoneMeansReady ==
  outcome = "done" /\ cut # "now" =>
    /\ Target \in guest.worlds \cap guest.dressed
    /\ guest.payload # 0 /\ guest.tags[Target] = guest.payload
    /\ guest.operators = guest.payload
    /\ wanted \in {guest.payload, 0} \/ flow = "vendor"
    /\ "operators up" \in guest.has
    /\ flow = "ubuntu" => guest.bound = "full" /\ Target \in guest.freed
=============================================================================
