--------------------------- MODULE HostSetupProofs ---------------------------
(***************************************************************************)
(* Theorems of HostSetup, for any number of attempts, versions, world      *)
(* names, machines, builds and faults.                                     *)
(***************************************************************************)
EXTENDS HostSetup, FiniteSetTheorems, TLAPS

-----------------------------------------------------------------------------
(* The installation of the daemon. *)

LEMMA InstallOrder ==
  /\ Following("stop-old") = "prepare-host" /\ Following("prepare-host") = "upload-binary"
  /\ Following("upload-binary") = "write-token" /\ Following("write-token") = "install-init"
  /\ Following("install-init") = "start-service" /\ Following("start-service") = "verify"
  /\ Following("verify") = "idle"
<1>1. Len(InstallSteps) = 7 /\ DOMAIN InstallSteps = 1..7
  BY DEF InstallSteps
<1>2. /\ InstallSteps[1] = "stop-old" /\ InstallSteps[2] = "prepare-host"
      /\ InstallSteps[3] = "upload-binary" /\ InstallSteps[4] = "write-token"
      /\ InstallSteps[5] = "install-init" /\ InstallSteps[6] = "start-service"
      /\ InstallSteps[7] = "verify"
  BY DEF InstallSteps
<1>3. \A j \in 1..7 : j = 1 \/ j = 2 \/ j = 3 \/ j = 4 \/ j = 5 \/ j = 6 \/ j = 7
  OBVIOUS
<1>4. ASSUME NEW i \in 1..7
      PROVE  Following(InstallSteps[i]) = IF i = 7 THEN "idle" ELSE InstallSteps[i + 1]
  <2> DEFINE P(j) == InstallSteps[j] = InstallSteps[i]
             k == CHOOSE j \in DOMAIN InstallSteps : P(j)
  <2>1. \A j \in 1..7 : P(j) => j = i
    BY <1>2, <1>3
  <2>2. k \in DOMAIN InstallSteps /\ P(k)
    <3>1. \E j \in DOMAIN InstallSteps : P(j)
      BY <1>1
    <3> QED
      BY <3>1
  <2>3. k = i
    BY <1>1, <2>1, <2>2
  <2>4. Following(InstallSteps[i]) = IF k = Len(InstallSteps) THEN "idle" ELSE InstallSteps[k + 1]
    BY DEF Following
  <2> HIDE DEF k
  <2> QED
    BY <1>1, <2>3, <2>4
<1> QED
  BY <1>2, <1>4

\* Until the upload a process that runs is an old one; after it, it is an old one
\* or was started from the new file.
ServiceInv ==
  /\ inst \in {"idle", "stop-old", "prepare-host", "upload-binary", "write-token", "install-init",
               "start-service", "verify"}
  /\ inst \in {"prepare-host", "upload-binary"} => proc = 0 \/ kept
  /\ inst \in {"write-token", "install-init", "start-service", "verify"} =>
       proc = 0 \/ proc = file \/ kept
  /\ report # 0 => inst = "idle" /\ ((report = file /\ proc = file) \/ kept)

LEMMA ServiceInitially == HInit => ServiceInv
BY DEF HInit, ServiceInit, ServiceInv

LEMMA ServiceInduction == ServiceInv /\ [HNext]_hvars => ServiceInv'
<1> SUFFICES ASSUME ServiceInv, [HNext]_hvars PROVE ServiceInv'
  OBVIOUS
<1> USE InstallOrder DEF ServiceInv, Runs
<1>1. CASE BeginInstall
  <2>1. InstallSteps[1] = "stop-old"
    BY DEF InstallSteps
  <2> QED
    BY <1>1, <2>1 DEF BeginInstall
<1>2. CASE StopOld BY <1>2 DEF StopOld
<1>3. CASE PrepareHost BY <1>3 DEF PrepareHost
<1>4. CASE UploadBinary BY <1>4 DEF UploadBinary
<1>5. CASE WriteToken BY <1>5 DEF WriteToken
<1>6. CASE InstallInit BY <1>6 DEF InstallInit
<1>7. CASE StartService
  <2>1. CASE init = "systemd" /\ proc # 0 BY <1>7, <2>1 DEF StartService
  <2>2. CASE ~(init = "systemd" /\ proc # 0) BY <1>7, <2>2 DEF StartService
  <2> QED BY <2>1, <2>2
<1>8. CASE Verify BY <1>8 DEF Verify
<1>9. CASE InstallFails BY <1>9 DEF InstallFails
<1>10. CASE RestartService
  <2>1. inst \in {"stop-old", "prepare-host", "upload-binary"} => kept'
    BY <1>10 DEF RestartService
  <2>2. kept => kept'
    BY <1>10 DEF RestartService
  <2> QED
    BY <1>10, <2>1, <2>2 DEF RestartService
<1>11. CASE UninstallService
  <2>1. proc' = 0 \/ kept'
    BY <1>11 DEF UninstallService
  <2> QED
    BY <1>11, <2>1 DEF UninstallService
<1>12. CASE Respawn BY <1>12 DEF Respawn
<1>13. CASE NewBuild BY <1>13 DEF NewBuild
<1>14. CASE ScriptCutOff BY <1>14 DEF ScriptCutOff
<1>15. CASE UNCHANGED serviceVars BY <1>15 DEF serviceVars
<1> QED
  BY <1>1, <1>2, <1>3, <1>4, <1>5, <1>6, <1>7, <1>8, <1>9, <1>10, <1>11, <1>12, <1>13, <1>14, <1>15
  DEF HNext, ServiceStep, hvars

\* What an installation reports as active is what runs, unless an old process
\* outlived its stop or came back before the upload (management_service.rs), for
\* any number of builds, failing scripts and other windows.
THEOREM VerifiedIsRunningAlways == HSpec => []VerifiedIsRunning
<1>1. ServiceInv => VerifiedIsRunning
  BY DEF ServiceInv, VerifiedIsRunning
<1> QED
  BY <1>1, ServiceInitially, ServiceInduction, PTL DEF HSpec

-----------------------------------------------------------------------------
(* The machines of the host. *)

LEMMA HostOrder ==
  /\ HostSteps[1] = "readiness"
  /\ After("readiness") = "existing" /\ After("existing") = "destination"
  /\ After("destination") = "compare" /\ After("compare") = "import"
  /\ After("import") = "configure" /\ After("configure") = "start"
  /\ After("start") = "address" /\ After("address") = "network"
<1>1. DOMAIN HostSteps = 1..9
  BY DEF HostSteps
<1>2. /\ HostSteps[1] = "readiness" /\ HostSteps[2] = "existing" /\ HostSteps[3] = "destination"
      /\ HostSteps[4] = "compare" /\ HostSteps[5] = "import" /\ HostSteps[6] = "configure"
      /\ HostSteps[7] = "start" /\ HostSteps[8] = "address" /\ HostSteps[9] = "network"
  BY DEF HostSteps
<1>3. \A j \in 1..9 :
        j = 1 \/ j = 2 \/ j = 3 \/ j = 4 \/ j = 5 \/ j = 6 \/ j = 7 \/ j = 8 \/ j = 9
  OBVIOUS
<1>4. ASSUME NEW i \in 1..8
      PROVE  After(HostSteps[i]) = HostSteps[i + 1]
  <2> DEFINE P(j) == HostSteps[j] = HostSteps[i]
             k == CHOOSE j \in DOMAIN HostSteps : P(j)
  <2>1. \A j \in 1..9 : P(j) => j = i
    BY <1>2, <1>3
  <2>2. k \in DOMAIN HostSteps /\ P(k)
    <3>1. \E j \in DOMAIN HostSteps : P(j)
      BY <1>1
    <3> QED
      BY <3>1
  <2>3. k = i
    BY <1>1, <2>1, <2>2
  <2>4. After(HostSteps[i]) = HostSteps[1 + k]
    BY DEF After
  <2> HIDE DEF k
  <2> QED
    BY <2>3, <2>4
<1> QED
  BY <1>2, <1>4

\* Between the removal of the machine and the import there is none of its name,
\* so the folder is cleared under no machine and the import makes no second one.
MachineInv ==
  /\ \A v \in vms : DOMAIN v = {"id", "name", "on"}
  /\ request.name = "packaged" =>
       /\ step \in {"destination", "compare", "import"} => Called("packaged") = {}
       /\ \A v \in Called("packaged") : v.id \in disks
       /\ \A v, w \in Called("packaged") : v = w

LEMMA MachineInitially == HInit => MachineInv
<1> SUFFICES ASSUME HInit PROVE MachineInv
  OBVIOUS
<1> USE DEF HInit, HostInit, MachineInv, Called
<1>1. CASE vms = {}
  BY <1>1
<1>2. CASE vms # {}
  <2>1. PICK n \in Names, b \in BOOLEAN : vms = {[id |-> 1, name |-> n, on |-> b]}
    BY <1>2
  <2>2. disks = {1}
    BY <1>2
  <2> QED
    BY <2>1, <2>2
<1> QED
  BY <1>1, <1>2

LEMMA MachineInduction == MachineInv /\ [HNext]_hvars => MachineInv'
<1> SUFFICES ASSUME MachineInv, [HNext]_hvars PROVE MachineInv'
  OBVIOUS
<1> USE HostOrder DEF MachineInv, Called
<1>1. CASE HostBegin BY <1>1 DEF HostBegin
<1>2. CASE HostReady BY <1>2 DEF HostReady, Ends
<1>3. CASE ExistingRefused BY <1>3 DEF ExistingRefused, Quits
<1>4. CASE RemoveExisting BY <1>4 DEF RemoveExisting, Ends
<1>5. CASE DestinationRefused BY <1>5 DEF DestinationRefused, Quits
<1>6. CASE ClearBlocked BY <1>6 DEF ClearBlocked, Quits
<1>7. CASE ClearDestination BY <1>7 DEF ClearDestination, Ends
<1>8. CASE Compatible BY <1>8 DEF Compatible, Ends
<1>9. CASE ImportVm
  <2> DEFINE new == [id |-> made + 1, name |-> "packaged", on |-> FALSE]
  <2>1. /\ vms' = vms \cup {new} /\ disks' = disks \cup {made + 1}
        /\ step = "import" /\ step' = "configure" /\ request' = request
    BY <1>9 DEF ImportVm, Ends
  <2>2. new.id = made + 1 /\ DOMAIN new = {"id", "name", "on"}
    OBVIOUS
  <2> HIDE DEF new
  <2> QED
    BY <2>1, <2>2
<1>10. CASE ConfigureVm BY <1>10 DEF ConfigureVm, Ends
<1>11. CASE StartVm
  <2> DEFINE started(v) == [v EXCEPT !.on = @ \/ v.name = "packaged"]
  <2>1. /\ vms' = {started(v) : v \in vms} /\ disks' = disks
        /\ step' = "address" /\ request' = request
    BY <1>11 DEF StartVm, Ends
  <2>2. ASSUME NEW v \in vms
        PROVE  /\ DOMAIN started(v) = {"id", "name", "on"}
               /\ started(v).id = v.id /\ started(v).name = v.name
    OBVIOUS
  <2> HIDE DEF started
  <2>3. \A v \in vms' : DOMAIN v = {"id", "name", "on"}
    BY <2>1, <2>2
  <2>4. \A v \in Called("packaged")' : \E u \in Called("packaged") : v = started(u)
    BY <2>1, <2>2
  <2>5. request.name = "packaged" => \A v \in Called("packaged")' : v.id \in disks'
    <3> SUFFICES ASSUME request.name = "packaged", NEW v \in Called("packaged")'
                 PROVE  v.id \in disks'
      OBVIOUS
    <3>1. PICK u \in Called("packaged") : v = started(u)
      BY <2>4
    <3> QED
      BY <2>1, <2>2, <3>1
  <2>6. request.name = "packaged" => \A v, w \in Called("packaged")' : v = w
    <3> SUFFICES ASSUME request.name = "packaged",
                        NEW v \in Called("packaged")', NEW w \in Called("packaged")'
                 PROVE  v = w
      OBVIOUS
    <3>1. PICK u \in Called("packaged") : v = started(u)
      BY <2>4
    <3>2. PICK t \in Called("packaged") : w = started(t)
      BY <2>4
    <3> QED
      BY <3>1, <3>2
  <2> QED
    BY <2>1, <2>3, <2>5, <2>6
<1>12. CASE HasAddress BY <1>12 DEF HasAddress, Ends
<1>13. CASE AddressRefused BY <1>13 DEF AddressRefused, Quits
<1>14. CASE EnterGuest BY <1>14 DEF EnterGuest
<1>15. CASE HostFails BY <1>15 DEF HostFails, Quits
<1>16. CASE UNCHANGED hostVars BY <1>16 DEF hostVars
<1>17. CASE UNCHANGED vars BY <1>17 DEF vars, hostVars
<1> QED
  BY <1>1, <1>2, <1>3, <1>4, <1>5, <1>6, <1>7, <1>8, <1>9, <1>10, <1>11, <1>12, <1>13, <1>14,
     <1>15, <1>16, <1>17
  DEF HNext, Next, HostStep, GuestAttempt, hvars

\* With the package's name in the request, the machine keeps its files while it
\* is registered and no second one joins it (hyperv.rs), however often the import
\* is repeated and wherever it stops.
THEOREM MachinesWholeAlways == HSpec => []MachinesWhole
<1>1. ASSUME MachineInv PROVE MachinesWhole
  <2> SUFFICES ASSUME request.name = "packaged" PROVE Cardinality(Called("packaged")) <= 1
    BY <1>1 DEF MachineInv, MachinesWhole
  <2>1. CASE Called("packaged") = {}
    BY <2>1, FS_EmptySet
  <2>2. CASE Called("packaged") # {}
    <3>1. PICK v : v \in Called("packaged")
      BY <2>2
    <3>2. Called("packaged") = {v}
      BY <1>1, <3>1 DEF MachineInv
    <3> QED
      BY <3>2, FS_Singleton
  <2> QED
    BY <2>1, <2>2
<1> QED
  BY <1>1, MachineInitially, MachineInduction, PTL DEF HSpec

-----------------------------------------------------------------------------
(* The phases of the guest. *)

LEMMA NativeOrder ==
  ASSUME flow = "native"
  PROVE  /\ Phases[1] = "disk" /\ DOMAIN NativePhases = 1..13
         /\ at = "disk" => Follow = "payload"
         /\ at = "payload" => Follow = "k3s"
         /\ at = "k3s" => Follow = "core_images"
         /\ at = "core_images" => Follow = "scale_core"
         /\ at = "scale_core" => Follow = "crds"
         /\ at = "crds" => Follow = "operator_images"
         /\ at = "operator_images" => Follow = "scale_operators"
         /\ at = "scale_operators" => Follow = "helper"
         /\ at = "helper" => Follow = "world"
         /\ at = "world" => Follow = "bg_images"
         /\ at = "bg_images" => Follow = "patch"
         /\ at = "patch" => Follow = "defaults"
         /\ at = "defaults" => Follow = "idle"
<1>1. Phases = NativePhases
  BY DEF Phases
<1>2. Len(NativePhases) = 13 /\ DOMAIN NativePhases = 1..13
  BY DEF NativePhases
<1>3. /\ NativePhases[1] = "disk" /\ NativePhases[2] = "payload" /\ NativePhases[3] = "k3s"
      /\ NativePhases[4] = "core_images" /\ NativePhases[5] = "scale_core" /\ NativePhases[6] = "crds"
      /\ NativePhases[7] = "operator_images" /\ NativePhases[8] = "scale_operators" /\ NativePhases[9] = "helper"
      /\ NativePhases[10] = "world" /\ NativePhases[11] = "bg_images" /\ NativePhases[12] = "patch"
      /\ NativePhases[13] = "defaults"
  BY DEF NativePhases
<1>4. \A j \in 1..13 :
        j = 1 \/ j = 2 \/ j = 3 \/ j = 4 \/ j = 5 \/ j = 6 \/ j = 7 \/ j = 8 \/ j = 9 \/ j = 10 \/ j = 11 \/ j = 12 \/ j = 13
  OBVIOUS
<1>5. ASSUME NEW i \in 1..13, at = NativePhases[i]
      PROVE  Follow = IF i = 13 THEN "idle" ELSE NativePhases[i + 1]
  <2> DEFINE P(j) == NativePhases[j] = at
             k == CHOOSE j \in DOMAIN NativePhases : P(j)
  <2>1. \A j \in 1..13 : P(j) => j = i
    BY <1>3, <1>4, <1>5
  <2>2. k \in DOMAIN NativePhases /\ P(k)
    <3>1. \E j \in DOMAIN NativePhases : P(j)
      BY <1>2, <1>5
    <3> QED
      BY <3>1
  <2>3. k = i
    BY <1>2, <2>1, <2>2
  <2>4. Follow = IF k = Len(NativePhases) THEN "idle" ELSE NativePhases[k + 1]
    BY <1>1 DEF Follow
  <2> HIDE DEF k
  <2> QED
    BY <1>2, <2>3, <2>4
<1> QED
  BY <1>1, <1>2, <1>3, <1>5

LEMMA VendorOrder ==
  ASSUME flow = "vendor"
  PROVE  /\ Phases[1] = "disk" /\ DOMAIN VendorPhases = 1..7
         /\ at = "disk" => Follow = "payload"
         /\ at = "payload" => Follow = "cluster"
         /\ at = "cluster" => Follow = "manifest"
         /\ at = "manifest" => Follow = "create"
         /\ at = "create" => Follow = "update"
         /\ at = "update" => Follow = "defaults"
         /\ at = "defaults" => Follow = "idle"
<1>1. Phases = VendorPhases
  BY DEF Phases
<1>2. Len(VendorPhases) = 7 /\ DOMAIN VendorPhases = 1..7
  BY DEF VendorPhases
<1>3. /\ VendorPhases[1] = "disk" /\ VendorPhases[2] = "payload" /\ VendorPhases[3] = "cluster"
      /\ VendorPhases[4] = "manifest" /\ VendorPhases[5] = "create" /\ VendorPhases[6] = "update"
      /\ VendorPhases[7] = "defaults"
  BY DEF VendorPhases
<1>4. \A j \in 1..7 :
        j = 1 \/ j = 2 \/ j = 3 \/ j = 4 \/ j = 5 \/ j = 6 \/ j = 7
  OBVIOUS
<1>5. ASSUME NEW i \in 1..7, at = VendorPhases[i]
      PROVE  Follow = IF i = 7 THEN "idle" ELSE VendorPhases[i + 1]
  <2> DEFINE P(j) == VendorPhases[j] = at
             k == CHOOSE j \in DOMAIN VendorPhases : P(j)
  <2>1. \A j \in 1..7 : P(j) => j = i
    BY <1>3, <1>4, <1>5
  <2>2. k \in DOMAIN VendorPhases /\ P(k)
    <3>1. \E j \in DOMAIN VendorPhases : P(j)
      BY <1>2, <1>5
    <3> QED
      BY <3>1
  <2>3. k = i
    BY <1>2, <2>1, <2>2
  <2>4. Follow = IF k = Len(VendorPhases) THEN "idle" ELSE VendorPhases[k + 1]
    BY <1>1 DEF Follow
  <2> HIDE DEF k
  <2> QED
    BY <1>2, <2>3, <2>4
<1> QED
  BY <1>1, <1>2, <1>3, <1>5

LEMMA UbuntuOrder ==
  ASSUME flow = "ubuntu"
  PROVE  /\ Phases[1] = "packages" /\ DOMAIN UbuntuPhases = 1..10
         /\ at = "packages" => Follow = "k3s"
         /\ at = "k3s" => Follow = "swap"
         /\ at = "swap" => Follow = "payload"
         /\ at = "payload" => Follow = "kubernetes"
         /\ at = "kubernetes" => Follow = "world"
         /\ at = "world" => Follow = "bg_images"
         /\ at = "bg_images" => Follow = "scheduler"
         /\ at = "scheduler" => Follow = "patch"
         /\ at = "patch" => Follow = "defaults"
         /\ at = "defaults" => Follow = "idle"
<1>1. Phases = UbuntuPhases
  BY DEF Phases
<1>2. Len(UbuntuPhases) = 10 /\ DOMAIN UbuntuPhases = 1..10
  BY DEF UbuntuPhases
<1>3. /\ UbuntuPhases[1] = "packages" /\ UbuntuPhases[2] = "k3s" /\ UbuntuPhases[3] = "swap"
      /\ UbuntuPhases[4] = "payload" /\ UbuntuPhases[5] = "kubernetes" /\ UbuntuPhases[6] = "world"
      /\ UbuntuPhases[7] = "bg_images" /\ UbuntuPhases[8] = "scheduler" /\ UbuntuPhases[9] = "patch"
      /\ UbuntuPhases[10] = "defaults"
  BY DEF UbuntuPhases
<1>4. \A j \in 1..10 :
        j = 1 \/ j = 2 \/ j = 3 \/ j = 4 \/ j = 5 \/ j = 6 \/ j = 7 \/ j = 8 \/ j = 9 \/ j = 10
  OBVIOUS
<1>5. ASSUME NEW i \in 1..10, at = UbuntuPhases[i]
      PROVE  Follow = IF i = 10 THEN "idle" ELSE UbuntuPhases[i + 1]
  <2> DEFINE P(j) == UbuntuPhases[j] = at
             k == CHOOSE j \in DOMAIN UbuntuPhases : P(j)
  <2>1. \A j \in 1..10 : P(j) => j = i
    BY <1>3, <1>4, <1>5
  <2>2. k \in DOMAIN UbuntuPhases /\ P(k)
    <3>1. \E j \in DOMAIN UbuntuPhases : P(j)
      BY <1>2, <1>5
    <3> QED
      BY <3>1
  <2>3. k = i
    BY <1>2, <2>1, <2>2
  <2>4. Follow = IF k = Len(UbuntuPhases) THEN "idle" ELSE UbuntuPhases[k + 1]
    BY <1>1 DEF Follow
  <2> HIDE DEF k
  <2> QED
    BY <1>2, <2>3, <2>4
<1> QED
  BY <1>1, <1>2, <1>3, <1>5

\* What each phase does.
LEMMA Effects ==
  /\ at = "packages" => Effect = InstallPackages
  /\ at = "disk" => Effect = GrowDisk
  /\ at = "payload" => Effect = DownloadPayload
  /\ at = "k3s" => Effect = StartK3s
  /\ at = "swap" => Effect = ConfigureSwap
  /\ at = "core_images" => Effect = ImportCoreImages
  /\ at = "scale_core" => Effect = ScaleCore
  /\ at = "crds" => Effect = UpdateCrds
  /\ at = "operator_images" => Effect = PatchOperators
  /\ at = "scale_operators" => Effect = ScaleOperators
  /\ at = "helper" => Effect = InstallHelper
  /\ at = "kubernetes" => Effect = BootstrapKubernetes
  /\ at = "cluster" => Effect = SetUpCluster
  /\ at = "manifest" => Effect = WriteManifest
  /\ at = "world" => Effect = CreateWorld
  /\ at = "create" => Effect = CreateFromManifest
  /\ at = "bg_images" => Effect = ImportBattlegroupImages
  /\ at = "scheduler" => Effect = UseDefaultScheduler
  /\ at = "patch" => Effect = PatchImages
  /\ at = "update" => Effect = UpdateFromDownloads
  /\ at = "defaults" => Effect = ApplyDefaults
BY DEF Effect

\* As much of the type of a host as the phases need.
GuestShape(g) ==
  /\ DOMAIN g = {"has", "payload", "operators", "bound", "swap", "manifest", "worlds", "images",
                 "tags", "freed", "dressed"}
  /\ g.worlds \subseteq Plan /\ g.manifest \in Plan \cup {0}
  /\ g.tags \in [Plan -> Nat]
  /\ g.payload \in Nat /\ g.bound \in {"none", "half", "full"}

\* What a phase changes of the host, and that it leaves one of this shape.
HostKept(after) ==
  /\ GuestShape(after)
  /\ at # "payload" => after.payload = guest.payload
  /\ at \notin {"world", "create"} => after.worlds = guest.worlds
  /\ at \notin {"manifest", "world"} => after.manifest = guest.manifest
  /\ at \notin {"kubernetes", "cluster", "operator_images"} => after.operators = guest.operators
  /\ at \notin {"bg_images", "update"} => after.images = guest.images
  /\ at \notin {"world", "create", "patch", "update"} => after.tags = guest.tags
  /\ at # "kubernetes" => after.bound = guest.bound
  /\ guest.has \subseteq after.has /\ guest.freed \subseteq after.freed

AllPhases ==
  {"disk", "payload", "k3s", "core_images", "scale_core", "crds", "operator_images",
   "scale_operators", "helper", "world", "bg_images", "patch", "defaults", "cluster", "manifest",
   "create", "update", "packages", "swap", "kubernetes", "scheduler"}

GuestTypes ==
  /\ flow \in {"native", "vendor", "ubuntu"}
  /\ plan \in Plan /\ steam \in Nat /\ GuestShape(guest)

LEMMA EffectKeeps ==
  ASSUME GuestTypes, at \in AllPhases, Ready
  PROVE  HostKept(Effect)
<1> USE Effects DEF GuestTypes, HostKept, GuestShape
<1>1. CASE at = "packages" BY <1>1 DEF InstallPackages, With
<1>2. CASE at = "disk" BY <1>2 DEF GrowDisk, With
<1>3. CASE at = "payload" BY <1>3 DEF DownloadPayload
<1>4. CASE at = "k3s" BY <1>4 DEF StartK3s, With
<1>5. CASE at = "swap" BY <1>5 DEF ConfigureSwap
<1>6. CASE at = "core_images" BY <1>6 DEF ImportCoreImages, With
<1>7. CASE at = "scale_core" BY <1>7 DEF ScaleCore, With
<1>8. CASE at = "crds" BY <1>8 DEF UpdateCrds, With
<1>9. CASE at = "operator_images" BY <1>9 DEF PatchOperators
<1>10. CASE at = "scale_operators" BY <1>10 DEF ScaleOperators, With
<1>11. CASE at = "helper" BY <1>11 DEF InstallHelper, With
<1>12. CASE at = "kubernetes"
  <2> DEFINE bound == IF guest.bound = "none" THEN "full" ELSE guest.bound
             has == guest.has \cup {"core images", "core up", "crds", "operators up"}
  <2>1. bound \in {"none", "half", "full"}
    OBVIOUS
  <2>2. Effect = [guest EXCEPT !.has = has, !.operators = guest.payload, !.bound = bound]
    BY <1>12 DEF BootstrapKubernetes
  <2>3. guest.has \subseteq has
    OBVIOUS
  <2> HIDE DEF bound, has
  <2> QED
    BY <1>12, <2>1, <2>2, <2>3
<1>13. CASE at = "cluster" BY <1>13 DEF SetUpCluster
<1>14. CASE at = "manifest" BY <1>14 DEF WriteManifest
<1>15. CASE at = "world"
  <2>1. [guest.tags EXCEPT ![plan] = 0] \in [Plan -> Nat]
    OBVIOUS
  <2>2. CASE plan \in guest.worlds
    BY <1>15, <2>2 DEF CreateWorld
  <2>3. CASE plan \notin guest.worlds
    <3>1. Effect = [guest EXCEPT !.worlds = guest.worlds \cup {plan},
                                 !.tags = [guest.tags EXCEPT ![plan] = 0], !.manifest = plan]
      BY <1>15, <2>3 DEF CreateWorld
    <3> QED
      BY <1>15, <2>1, <3>1
  <2> QED
    BY <2>2, <2>3
<1>16. CASE at = "create"
  <2> DEFINE tags == IF guest.manifest \in guest.worlds THEN guest.tags
                     ELSE [guest.tags EXCEPT ![guest.manifest] = 0]
  <2>1. tags \in [Plan -> Nat]
    OBVIOUS
  <2>2. Effect = [guest EXCEPT !.worlds = guest.worlds \cup {guest.manifest}, !.tags = tags]
    BY <1>16 DEF CreateFromManifest
  <2>3. guest.manifest \in Plan
    BY <1>16 DEF Ready
  <2> HIDE DEF tags
  <2> QED
    BY <1>16, <2>1, <2>2, <2>3
<1>17. CASE at = "bg_images" BY <1>17 DEF ImportBattlegroupImages
<1>18. CASE at = "scheduler" BY <1>18 DEF UseDefaultScheduler, Ready
<1>19. CASE at = "patch" BY <1>19 DEF PatchImages, Ready
<1>20. CASE at = "update"
  <2>1. [guest.tags EXCEPT ![guest.manifest] = guest.payload] \in [Plan -> Nat]
    OBVIOUS
  <2>2. Effect = [guest EXCEPT !.images = guest.images \cup {guest.payload},
                               !.tags = [guest.tags EXCEPT ![guest.manifest] = guest.payload]]
    BY <1>20 DEF UpdateFromDownloads
  <2> QED
    BY <1>20, <2>1, <2>2
<1>21. CASE at = "defaults" BY <1>21 DEF ApplyDefaults, Ready
<1> QED
  BY <1>1, <1>2, <1>3, <1>4, <1>5, <1>6, <1>7, <1>8, <1>9, <1>10, <1>11, <1>12, <1>13, <1>14,
     <1>15, <1>16, <1>17, <1>18, <1>19, <1>20, <1>21 DEF AllPhases

LEMMA TornKeeps ==
  ASSUME GuestTypes, NEW after \in Torn
  PROVE  GuestShape(after) /\ after.worlds = guest.worlds /\ after.manifest = guest.manifest
<1> USE DEF GuestTypes, GuestShape
<1>1. CASE at = "kubernetes" /\ guest.bound = "none"
  BY <1>1 DEF Torn
<1>2. CASE at = "swap" /\ guest.swap = "none"
  BY <1>2 DEF Torn
<1>3. CASE ~(at = "kubernetes" /\ guest.bound = "none") /\ ~(at = "swap" /\ guest.swap = "none")
  BY <1>3 DEF Torn
<1> QED
  BY <1>1, <1>2, <1>3

\* Where the sequences are, and that a host step or a new attempt finds none
\* under way.
SetupShape ==
  /\ GuestTypes
  /\ flow = "native" =>
       at \in {"disk", "payload", "k3s", "core_images", "scale_core", "crds", "operator_images",
               "scale_operators", "helper", "world", "bg_images", "patch", "defaults", "idle"}
  /\ flow = "vendor" =>
       at \in {"disk", "payload", "cluster", "manifest", "create", "update", "defaults", "idle"}
  /\ flow = "ubuntu" =>
       at \in {"packages", "k3s", "swap", "payload", "kubernetes", "world", "bg_images",
               "scheduler", "patch", "defaults", "idle"}
  /\ step # "off" => at = "idle" /\ outcome # "done"
  /\ outcome = "done" => at = "idle"

\* Until the vendor's script has written its manifest the newest one may be that
\* of an attempt before.
Early == flow = "vendor" /\ at \in {"disk", "payload", "cluster", "manifest"}

WorldInv ==
  /\ guest.worlds \subseteq left \cup {Target}
  /\ (at = "idle" /\ outcome # "done") \/ Early => guest.worlds \subseteq left

\* What a host must be like for WorldInv to hold of it.
Fits(after) ==
  /\ GuestShape(after)
  /\ after.worlds \subseteq left \cup {IF flow = "vendor" THEN after.manifest ELSE plan}
  /\ Early => after.worlds = guest.worlds

LEMMA GuestFits == SetupShape /\ WorldInv => Fits(guest)
BY DEF SetupShape, GuestTypes, WorldInv, Fits, Target

LEMMA EffectFits ==
  ASSUME SetupShape, WorldInv, at \in AllPhases, Ready
  PROVE  Fits(Effect)
<1>1. HostKept(Effect)
  BY EffectKeeps DEF SetupShape
<1> USE Effects DEF SetupShape, GuestTypes, GuestShape, WorldInv, Fits, Target, HostKept, Early
<1>2. CASE at = "world"
  <2>1. Effect.worlds \subseteq guest.worlds \cup {plan}
    BY <1>2 DEF CreateWorld
  <2> QED
    BY <1>1, <1>2, <2>1
<1>3. CASE at = "create"
  <2>1. Effect.worlds \subseteq guest.worlds \cup {guest.manifest}
    BY <1>3 DEF CreateFromManifest
  <2> QED
    BY <1>1, <1>3, <2>1
<1>4. CASE at \notin {"world", "create"}
  BY <1>1, <1>4
<1> QED
  BY <1>2, <1>3, <1>4

LEMMA TornFits ==
  ASSUME SetupShape, WorldInv, NEW after \in Torn
  PROVE  Fits(after)
<1>1. Fits(guest)
  BY GuestFits
<1>2. GuestShape(after) /\ after.worlds = guest.worlds /\ after.manifest = guest.manifest
  BY TornKeeps DEF SetupShape
<1> QED
  BY <1>1, <1>2 DEF Fits

LEMMA StopFits ==
  ASSUME SetupShape, WorldInv, at \in AllPhases, NEW after, Fits(after), Stop(after), step' = step
  PROVE  SetupShape' /\ WorldInv'
BY DEF Stop, SetupShape, GuestTypes, WorldInv, Fits, Target, Early, AllPhases

LEMMA MoveFits ==
  ASSUME SetupShape, WorldInv, at \in AllPhases, NEW after, Fits(after), MoveOn(after), step' = step
  PROVE  SetupShape' /\ WorldInv'
<1> USE DEF MoveOn, SetupShape, GuestTypes, WorldInv, Fits, Target, Early, AllPhases
<1>1. CASE flow = "native"
  BY <1>1, NativeOrder
<1>2. CASE flow = "vendor"
  BY <1>2, VendorOrder
<1>3. CASE flow = "ubuntu"
  BY <1>3, UbuntuOrder
<1> QED
  BY <1>1, <1>2, <1>3

\* The domains of the sequences as sets.
LEMMA NamesOfPhases == PhaseNames = AllPhases
<1>1. {NativePhases[i] : i \in DOMAIN NativePhases} =
        {"disk", "payload", "k3s", "core_images", "scale_core", "crds", "operator_images",
         "scale_operators", "helper", "world", "bg_images", "patch", "defaults"}
  BY DEF NativePhases
<1>2. {VendorPhases[i] : i \in DOMAIN VendorPhases} =
        {"disk", "payload", "cluster", "manifest", "create", "update", "defaults"}
  BY DEF VendorPhases
<1>3. {UbuntuPhases[i] : i \in DOMAIN UbuntuPhases} =
        {"packages", "k3s", "swap", "payload", "kubernetes", "world", "bg_images", "scheduler",
         "patch", "defaults"}
  BY DEF UbuntuPhases
<1> QED
  BY <1>1, <1>2, <1>3 DEF PhaseNames, AllPhases

LEMMA FirstPhase ==
  ASSUME SetupShape
  PROVE  Phases[1] \in {"disk", "packages"} /\ (Phases[1] = "packages" <=> flow = "ubuntu")
BY NativeOrder, VendorOrder, UbuntuOrder DEF SetupShape, GuestTypes

LEMMA FreshShape == GuestShape(Fresh) /\ Fresh.worlds = {}
<1>1. [p \in Plan |-> 0] \in [Plan -> Nat]
  OBVIOUS
<1> QED
  BY <1>1 DEF Fresh, GuestShape

LEMMA WorldInitially == HInit => SetupShape /\ WorldInv
BY FreshShape, SetupAssumption
DEF HInit, HostInit, SetupInit, SetupShape, GuestTypes, WorldInv, Early, Plan

LEMMA WorldInduction == SetupShape /\ WorldInv /\ [HNext]_hvars => SetupShape' /\ WorldInv'
<1> SUFFICES ASSUME SetupShape, WorldInv, [HNext]_hvars PROVE SetupShape' /\ WorldInv'
  OBVIOUS
<1>1. CASE HostBegin
  BY <1>1, HostOrder DEF HostBegin, SetupShape, GuestTypes, WorldInv, Target, Early
<1>2. CASE HostStep
  <2>1. step # "off" /\ at = "idle" /\ outcome # "done" /\ guest.worlds \subseteq left
    BY <1>2 DEF HostStep, HostReady, ExistingRefused, RemoveExisting, DestinationRefused, ClearBlocked,
         ClearDestination, Compatible, ImportVm, ConfigureVm, StartVm, HasAddress, AddressRefused,
         EnterGuest, HostFails, Ends, SetupShape, WorldInv
  <2>2. CASE EnterGuest
    BY <2>1, <2>2, FirstPhase DEF EnterGuest, SetupShape, GuestTypes, WorldInv, Target, Early
  <2>3. CASE ImportVm
    BY <2>1, <2>3, FreshShape DEF ImportVm, Ends, SetupShape, GuestTypes, WorldInv, Early
  <2>4. CASE \E s \in {"readiness", "existing", "destination", "compare", "configure", "start",
                       "address"} : Ends(s) /\ guest' = guest
    BY <2>1, <2>4 DEF Ends, SetupShape, GuestTypes, WorldInv, Target, Early
  <2>5. CASE Quits
    BY <2>1, <2>5 DEF Quits, SetupShape, GuestTypes, WorldInv, Target, Early
  <2> QED
    BY <1>2, <2>2, <2>3, <2>4, <2>5
    DEF HostStep, HostReady, ExistingRefused, RemoveExisting, DestinationRefused, ClearBlocked,
        ClearDestination, Compatible, ConfigureVm, StartVm, HasAddress, AddressRefused, HostFails
<1>3. CASE GuestAttempt
  BY <1>3, FirstPhase DEF GuestAttempt, Attempt, hostVars, SetupShape, GuestTypes, WorldInv, Target, Early
<1>4. CASE SetupStep /\ UNCHANGED hostVars
  <2>1. step' = step
    BY <1>4 DEF hostVars
  <2>2. CASE Phase
    BY <2>1, <2>2, NamesOfPhases, EffectFits, MoveFits DEF Phase
  <2>3. CASE PhaseRefused
    BY <2>1, <2>3, NamesOfPhases, GuestFits, StopFits DEF PhaseRefused
  <2>4. CASE PhaseFails
    <3>1. at \in AllPhases /\ Ready
      BY <2>4, NamesOfPhases DEF PhaseFails
    <3>2. PICK after \in {guest, Effect} \cup Torn : Stop(after)
      BY <2>4 DEF PhaseFails
    <3>3. Fits(after)
      BY <3>1, GuestFits, EffectFits, TornFits
    <3> QED
      BY <2>1, <3>1, <3>2, <3>3, StopFits
  <2>5. CASE GiveUp
    BY <2>1, <2>5, GuestFits, MoveFits DEF GiveUp, AllPhases
  <2>6. CASE ManifestIgnored
    BY <2>1, <2>6, GuestFits, MoveFits, StopFits DEF ManifestIgnored, AllPhases
  <2>7. CASE CutOff
    <3>1. at \in AllPhases /\ Ready
      BY <2>7, NamesOfPhases DEF CutOff
    <3>2. PICK after \in {guest, Effect} \cup Torn : MoveOn(after)
      BY <2>7 DEF CutOff
    <3>3. Fits(after)
      BY <3>1, GuestFits, EffectFits, TornFits
    <3> QED
      BY <2>1, <3>1, <3>2, <3>3, MoveFits
  <2> QED
    BY <1>4, <2>2, <2>3, <2>4, <2>5, <2>6, <2>7 DEF SetupStep
<1>5. CASE Publish /\ UNCHANGED hostVars
  BY <1>5 DEF Publish, hostVars, SetupShape, GuestTypes, WorldInv, Target, Early
<1>6. CASE UNCHANGED vars
  BY <1>6 DEF vars, setupVars, hostVars, SetupShape, GuestTypes, WorldInv, Target, Early
<1> QED
  BY <1>1, <1>2, <1>3, <1>4, <1>5, <1>6 DEF HNext, Next, hvars

\* A world is in the cluster only for the attempt under way or because an attempt
\* for it failed late (battlegroup_setup.rs, world.rs): whatever fails or is cut
\* off, and however often the sequences are repeated, none is made on the side.
THEOREM WorldsAccountedAlways == HSpec => []WorldsAccounted
<1>1. WorldInv => WorldsAccounted
  BY DEF WorldInv, WorldsAccounted
<1> QED
  BY <1>1, WorldInitially, WorldInduction, PTL DEF HSpec

\* The images of the package are there from their import to the patch of the tag.
TagsOk(g) == \A p \in Plan : g.tags[p] # 0 => g.tags[p] \in g.images

TagInv ==
  cut = "no" =>
    /\ TagsOk(guest)
    /\ at \in {"scheduler", "patch"} => guest.payload \in guest.images

LEMMA EffectTags ==
  ASSUME SetupShape, TagInv, cut = "no", at \in AllPhases, Ready
  PROVE  TagsOk(Effect)
<1>1. HostKept(Effect)
  BY EffectKeeps DEF SetupShape
<1> USE Effects DEF SetupShape, GuestTypes, GuestShape, TagInv, TagsOk, HostKept
<1>2. CASE at = "world"
  <2>1. CASE plan \in guest.worlds
    BY <1>2, <2>1 DEF CreateWorld
  <2>2. CASE plan \notin guest.worlds
    <3>1. Effect = [guest EXCEPT !.worlds = guest.worlds \cup {plan},
                                 !.tags = [guest.tags EXCEPT ![plan] = 0], !.manifest = plan]
      BY <1>2, <2>2 DEF CreateWorld
    <3>2. Effect.tags = [guest.tags EXCEPT ![plan] = 0] /\ Effect.images = guest.images
      BY <3>1
    <3> QED
      BY <3>2
  <2> QED
    BY <2>1, <2>2
<1>3. CASE at = "create"
  <2> DEFINE tags == IF guest.manifest \in guest.worlds THEN guest.tags
                     ELSE [guest.tags EXCEPT ![guest.manifest] = 0]
  <2>1. Effect = [guest EXCEPT !.worlds = guest.worlds \cup {guest.manifest}, !.tags = tags]
    BY <1>3 DEF CreateFromManifest
  <2>2. \A p \in Plan : tags[p] \in {guest.tags[p], 0}
    OBVIOUS
  <2> HIDE DEF tags
  <2>3. Effect.tags = tags /\ Effect.images = guest.images
    BY <2>1
  <2> QED
    BY <2>2, <2>3
<1>4. CASE at = "bg_images"
  BY <1>1, <1>4 DEF ImportBattlegroupImages
<1>5. CASE at = "patch"
  BY <1>1, <1>5 DEF PatchImages
<1>6. CASE at = "update"
  <2>1. Effect = [guest EXCEPT !.images = guest.images \cup {guest.payload},
                               !.tags = [guest.tags EXCEPT ![guest.manifest] = guest.payload]]
    BY <1>6 DEF UpdateFromDownloads
  <2>2. /\ Effect.tags = [guest.tags EXCEPT ![guest.manifest] = guest.payload]
        /\ Effect.images = guest.images \cup {guest.payload}
    BY <2>1
  <2> QED
    BY <2>2
<1>7. CASE at \notin {"world", "create", "bg_images", "patch", "update"}
  BY <1>1, <1>7
<1> QED
  BY <1>2, <1>3, <1>4, <1>5, <1>6, <1>7

LEMMA TornTags ==
  ASSUME SetupShape, TagInv, cut = "no", NEW after \in Torn
  PROVE  TagsOk(after)
<1> USE DEF SetupShape, GuestTypes, GuestShape, TagInv, TagsOk
<1>1. CASE at = "kubernetes" /\ guest.bound = "none"
  BY <1>1 DEF Torn
<1>2. CASE at = "swap" /\ guest.swap = "none"
  BY <1>2 DEF Torn
<1>3. CASE ~(at = "kubernetes" /\ guest.bound = "none") /\ ~(at = "swap" /\ guest.swap = "none")
  BY <1>3 DEF Torn
<1> QED
  BY <1>1, <1>2, <1>3

LEMMA TagInitially == HInit => TagInv
BY DEF HInit, HostInit, SetupInit, Fresh, TagInv, TagsOk

\* The phases before the ones that name the images.
LEMMA BeforePatch ==
  ASSUME SetupShape, at \in AllPhases
  PROVE  /\ Follow = "scheduler" => at = "bg_images"
         /\ Follow = "patch" => at \in {"bg_images", "scheduler"}
<1>1. CASE flow = "native"
  BY <1>1, NativeOrder DEF SetupShape, AllPhases
<1>2. CASE flow = "vendor"
  BY <1>2, VendorOrder DEF SetupShape, AllPhases
<1>3. CASE flow = "ubuntu"
  BY <1>3, UbuntuOrder DEF SetupShape, AllPhases
<1> QED
  BY <1>1, <1>2, <1>3 DEF SetupShape, GuestTypes

LEMMA TagInduction == SetupShape /\ TagInv /\ [HNext]_hvars => TagInv'
<1> SUFFICES ASSUME SetupShape, TagInv, [HNext]_hvars, cut' = "no"
             PROVE  TagsOk(guest)' /\ (at' \in {"scheduler", "patch"} => (guest.payload \in guest.images)')
  BY DEF TagInv
<1>1. CASE HostBegin
  BY <1>1 DEF HostBegin, SetupShape, TagInv, TagsOk, Past
<1>2. CASE HostStep
  <2>1. step # "off" /\ at = "idle"
    BY <1>2 DEF HostStep, HostReady, ExistingRefused, RemoveExisting, DestinationRefused, ClearBlocked,
         ClearDestination, Compatible, ImportVm, ConfigureVm, StartVm, HasAddress, AddressRefused,
         EnterGuest, HostFails, Ends, SetupShape
  <2>2. CASE EnterGuest
    BY <2>2, FirstPhase DEF EnterGuest, TagInv, TagsOk
  <2>3. CASE ImportVm
    BY <2>1, <2>3 DEF ImportVm, Ends, Fresh, TagsOk
  <2>4. CASE \E s \in {"readiness", "existing", "destination", "compare", "configure", "start",
                       "address"} : Ends(s) /\ guest' = guest
    BY <2>1, <2>4 DEF Ends, TagInv, TagsOk
  <2>5. CASE Quits
    BY <2>1, <2>5 DEF Quits, TagInv, TagsOk
  <2> QED
    BY <1>2, <2>2, <2>3, <2>4, <2>5
    DEF HostStep, HostReady, ExistingRefused, RemoveExisting, DestinationRefused, ClearBlocked,
        ClearDestination, Compatible, ConfigureVm, StartVm, HasAddress, AddressRefused, HostFails
<1>3. CASE GuestAttempt
  BY <1>3, FirstPhase DEF GuestAttempt, Attempt, Past, TagInv, TagsOk
<1>4. CASE SetupStep /\ UNCHANGED hostVars
  <2>1. CASE Phase
    <3>1. at \in AllPhases /\ Ready /\ cut = "no" /\ guest' = Effect /\ at' = Follow
      BY <2>1, NamesOfPhases DEF Phase, MoveOn
    <3>2. TagsOk(guest)'
      BY <3>1, EffectTags DEF TagsOk
    <3>3. CASE at = "bg_images"
      BY <3>1, <3>2, <3>3, BeforePatch, Effects, EffectKeeps
      DEF ImportBattlegroupImages, HostKept, GuestShape, SetupShape, GuestTypes
    <3>4. CASE at = "scheduler"
      BY <3>1, <3>2, <3>4, EffectKeeps DEF HostKept, SetupShape, TagInv
    <3>5. CASE at \notin {"bg_images", "scheduler"}
      BY <3>1, <3>2, <3>5, BeforePatch
    <3> QED
      BY <3>3, <3>4, <3>5
  <2>2. CASE PhaseRefused
    BY <2>2 DEF PhaseRefused, Stop, TagInv, TagsOk
  <2>3. CASE PhaseFails
    <3>1. at \in AllPhases /\ Ready
      BY <2>3, NamesOfPhases DEF PhaseFails
    <3>2. PICK after \in {guest, Effect} \cup Torn : Stop(after)
      BY <2>3 DEF PhaseFails
    <3>3. cut = "no" /\ guest' = after /\ at' = "idle"
      BY <3>2 DEF Stop
    <3>4. TagsOk(after)
      BY <3>1, <3>3, EffectTags, TornTags DEF TagInv
    <3> QED
      BY <3>3, <3>4 DEF TagsOk
  <2>4. CASE GiveUp
    BY <2>4, BeforePatch DEF GiveUp, MoveOn, AllPhases, TagInv, TagsOk
  <2>5. CASE ManifestIgnored
    BY <2>5, BeforePatch DEF ManifestIgnored, MoveOn, Stop, AllPhases, TagInv, TagsOk
  <2>6. CASE CutOff
    BY <2>6 DEF CutOff
  <2> QED
    BY <1>4, <2>1, <2>2, <2>3, <2>4, <2>5, <2>6 DEF SetupStep
<1>5. CASE Publish /\ UNCHANGED hostVars
  BY <1>5 DEF Publish, TagInv, TagsOk
<1>6. CASE UNCHANGED vars
  BY <1>6 DEF vars, setupVars, TagInv, TagsOk
<1> QED
  BY <1>1, <1>2, <1>3, <1>4, <1>5, <1>6 DEF HNext, Next, hvars

\* As long as no script was cut off unseen, a battlegroup is only given the tag of
\* images that are on the host (bootstrap.rs): every attempt imports those of the
\* package before it patches the tag.
THEOREM TagsRunnableAlways == HSpec => []TagsRunnable
<1>1. TagInv => TagsRunnable
  BY DEF TagInv, TagsOk, TagsRunnable
<1> QED
  BY <1>1, TagInitially, TagInduction, WorldInitially, WorldInduction, PTL DEF HSpec

\* What an attempt has achieved when it comes to a phase, as long as none of its
\* scripts was cut off unseen: each phase relies on the ones before it, and no
\* later one undoes what an earlier one did.
Over(S) == at \in S \/ outcome = "done"

OperatorsDone ==
  {"scale_operators", "helper", "manifest", "world", "create", "bg_images", "scheduler", "patch",
   "update", "defaults"}
PackageUsed == {"scale_core", "crds", "operator_images"} \cup OperatorsDone
PackageThere == {"core_images", "kubernetes"} \cup PackageUsed
WorldThere == {"bg_images", "scheduler", "patch", "update", "defaults"}

Achieved ==
  /\ Over(PackageThere) \/ (flow = "native" /\ at = "k3s") =>
       wanted \in {guest.payload, 0} \/ flow = "vendor"
  /\ Over(PackageUsed) => guest.payload # 0
  /\ Over(OperatorsDone) => guest.operators = guest.payload
  /\ Over(OperatorsDone \ {"scale_operators"}) => "operators up" \in guest.has
  /\ Over(WorldThere) => Target \in guest.worlds
  /\ Over({"defaults"}) => guest.tags[Target] = guest.payload
  /\ flow = "ubuntu" /\ Over({"world"} \cup WorldThere) => guest.bound \in {"half", "full"}
  /\ flow = "ubuntu" /\ Over({"patch", "defaults"}) => Target \in guest.freed
  /\ outcome = "done" => /\ Target \in guest.dressed
                         /\ flow = "ubuntu" => guest.bound = "full"

ProgressInv == cut # "now" => Achieved

LEMMA Follows ==
  ASSUME SetupShape, at \in AllPhases
  PROVE  /\ at = "packages" => Follow = "k3s" /\ flow = "ubuntu"
         /\ at = "disk" => Follow = "payload" /\ flow # "ubuntu"
         /\ at = "payload" => /\ flow = "native" => Follow = "k3s"
                              /\ flow = "vendor" => Follow = "cluster"
                              /\ flow = "ubuntu" => Follow = "kubernetes"
         /\ at = "k3s" => /\ flow = "native" => Follow = "core_images"
                          /\ flow = "ubuntu" => Follow = "swap"
                          /\ flow # "vendor"
         /\ at = "swap" => Follow = "payload" /\ flow = "ubuntu"
         /\ at = "core_images" => Follow = "scale_core" /\ flow = "native"
         /\ at = "scale_core" => Follow = "crds" /\ flow = "native"
         /\ at = "crds" => Follow = "operator_images" /\ flow = "native"
         /\ at = "operator_images" => Follow = "scale_operators" /\ flow = "native"
         /\ at = "scale_operators" => Follow = "helper" /\ flow = "native"
         /\ at = "helper" => Follow = "world" /\ flow = "native"
         /\ at = "kubernetes" => Follow = "world" /\ flow = "ubuntu"
         /\ at = "cluster" => Follow = "manifest" /\ flow = "vendor"
         /\ at = "manifest" => Follow = "create" /\ flow = "vendor"
         /\ at = "world" => Follow = "bg_images" /\ flow # "vendor"
         /\ at = "create" => Follow = "update" /\ flow = "vendor"
         /\ at = "bg_images" => /\ flow = "native" => Follow = "patch"
                                /\ flow = "ubuntu" => Follow = "scheduler"
                                /\ flow # "vendor"
         /\ at = "scheduler" => Follow = "patch" /\ flow = "ubuntu"
         /\ at = "patch" => Follow = "defaults" /\ flow # "vendor"
         /\ at = "update" => Follow = "defaults" /\ flow = "vendor"
         /\ at = "defaults" => Follow = "idle"
<1>1. CASE flow = "native"
  BY <1>1, NativeOrder DEF SetupShape, AllPhases
<1>2. CASE flow = "vendor"
  BY <1>2, VendorOrder DEF SetupShape, AllPhases
<1>3. CASE flow = "ubuntu"
  BY <1>3, UbuntuOrder DEF SetupShape, AllPhases
<1> QED
  BY <1>1, <1>2, <1>3 DEF SetupShape, GuestTypes

LEMMA PhaseAchieves ==
  ASSUME SetupShape, Achieved, Phase
  PROVE  Achieved'
<1>1. /\ at \in AllPhases /\ Ready
      /\ guest' = Effect /\ at' = Follow /\ outcome' = (IF Follow = "idle" THEN "done" ELSE outcome)
      /\ flow' = flow /\ plan' = plan
      /\ wanted' = IF at = "payload" THEN steam ELSE wanted
  BY NamesOfPhases DEF Phase, MoveOn
<1>2. HostKept(Effect) /\ outcome # "done"
  BY <1>1, EffectKeeps DEF SetupShape, AllPhases
<1> USE <1>1, <1>2, Follows, Effects
    DEF Achieved, Over, OperatorsDone, PackageUsed, PackageThere, WorldThere, HostKept, GuestShape,
        SetupShape, GuestTypes, Target
<1>3. CASE at = "packages" BY <1>3
<1>4. CASE at = "disk" BY <1>4
<1>5. CASE at = "payload" BY <1>5 DEF DownloadPayload
<1>6. CASE at = "k3s" BY <1>6
<1>7. CASE at = "swap" BY <1>7
<1>8. CASE at = "core_images" BY <1>8 DEF Ready
<1>9. CASE at = "scale_core" BY <1>9
<1>10. CASE at = "crds" BY <1>10
<1>11. CASE at = "operator_images" BY <1>11 DEF PatchOperators
<1>12. CASE at = "scale_operators" BY <1>12 DEF ScaleOperators, With
<1>13. CASE at = "helper" BY <1>13
<1>14. CASE at = "kubernetes"
  <2> DEFINE bound == IF guest.bound = "none" THEN "full" ELSE guest.bound
             has == guest.has \cup {"core images", "core up", "crds", "operators up"}
  <2>1. bound \in {"half", "full"} /\ "operators up" \in has
    OBVIOUS
  <2>2. Effect = [guest EXCEPT !.has = has, !.operators = guest.payload, !.bound = bound]
    BY <1>14 DEF BootstrapKubernetes
  <2> HIDE DEF bound, has
  <2>3. /\ "operators up" \in Effect.has /\ Effect.bound \in {"half", "full"}
        /\ Effect.operators = guest.payload
    BY <2>1, <2>2
  <2>4. Effect.payload = guest.payload /\ guest.payload # 0
    BY <1>14 DEF Ready
  <2> QED
    BY <1>14, <2>3, <2>4
<1>15. CASE at = "cluster" BY <1>15 DEF SetUpCluster, Ready
<1>16. CASE at = "manifest" BY <1>16
<1>17. CASE at = "world"
  <2>1. CASE plan \in guest.worlds
    BY <1>17, <2>1 DEF CreateWorld
  <2>2. CASE plan \notin guest.worlds
    <3>1. Effect = [guest EXCEPT !.worlds = guest.worlds \cup {plan},
                                 !.tags = [guest.tags EXCEPT ![plan] = 0], !.manifest = plan]
      BY <1>17, <2>2 DEF CreateWorld
    <3>2. plan \in Effect.worlds /\ Effect.has = guest.has
      BY <3>1
    <3> QED
      BY <1>17, <3>2
  <2> QED
    BY <2>1, <2>2
<1>18. CASE at = "create" BY <1>18 DEF CreateFromManifest
<1>19. CASE at = "bg_images" BY <1>19
<1>20. CASE at = "scheduler" BY <1>20 DEF UseDefaultScheduler
<1>21. CASE at = "patch" BY <1>21 DEF PatchImages, Ready
<1>22. CASE at = "update"
  <2>1. Effect = [guest EXCEPT !.images = guest.images \cup {guest.payload},
                               !.tags = [guest.tags EXCEPT ![guest.manifest] = guest.payload]]
    BY <1>22 DEF UpdateFromDownloads
  <2>2. /\ Effect.tags = [guest.tags EXCEPT ![guest.manifest] = guest.payload]
        /\ Effect.has = guest.has
    BY <2>1
  <2>3. Target = guest.manifest /\ Target' = Target /\ Target \in guest.worlds
    BY <1>22 DEF Ready
  <2>4. guest.tags[Target]' = guest.payload'
    BY <1>22, <2>2, <2>3
  <2> QED
    BY <1>22, <2>2, <2>3, <2>4
<1>23. CASE at = "defaults" BY <1>23 DEF ApplyDefaults, Ready
<1> QED
  BY <1>3, <1>4, <1>5, <1>6, <1>7, <1>8, <1>9, <1>10, <1>11, <1>12, <1>13,
     <1>14, <1>15, <1>16, <1>17, <1>18, <1>19, <1>20, <1>21, <1>22, <1>23 DEF AllPhases

\* An attempt begins, or ends early, with nothing achieved.
LEMMA NothingAchieved ==
  ASSUME at' \in {"idle", "disk", "packages"}, outcome' # "done"
  PROVE  Achieved'
BY DEF Achieved, Over, OperatorsDone, PackageUsed, PackageThere, WorldThere

LEMMA ProgressInitially == HInit => ProgressInv
BY DEF HInit, HostInit, SetupInit, ProgressInv, Achieved, Over, OperatorsDone, PackageUsed,
       PackageThere, WorldThere

LEMMA ProgressInduction == SetupShape /\ ProgressInv /\ [HNext]_hvars => ProgressInv'
<1> SUFFICES ASSUME SetupShape, ProgressInv, [HNext]_hvars, cut' # "now" PROVE Achieved'
  BY DEF ProgressInv
<1>1. CASE HostBegin
  BY <1>1, NothingAchieved DEF HostBegin
<1>2. CASE HostStep
  <2>1. step # "off" /\ at = "idle" /\ outcome # "done"
    BY <1>2 DEF HostStep, HostReady, ExistingRefused, RemoveExisting, DestinationRefused, ClearBlocked,
         ClearDestination, Compatible, ImportVm, ConfigureVm, StartVm, HasAddress, AddressRefused,
         EnterGuest, HostFails, Ends, SetupShape
  <2>2. CASE EnterGuest
    BY <2>1, <2>2, FirstPhase, NothingAchieved DEF EnterGuest
  <2>3. CASE \E s \in {"readiness", "existing", "destination", "compare", "import", "configure",
                       "start", "address"} : Ends(s)
    BY <2>1, <2>3, NothingAchieved DEF Ends
  <2>4. CASE Quits
    BY <2>1, <2>4, NothingAchieved DEF Quits
  <2> QED
    BY <1>2, <2>2, <2>3, <2>4
    DEF HostStep, HostReady, ExistingRefused, RemoveExisting, DestinationRefused, ClearBlocked,
        ClearDestination, Compatible, ImportVm, ConfigureVm, StartVm, HasAddress, AddressRefused,
        HostFails
<1>3. CASE GuestAttempt
  BY <1>3, FirstPhase, NothingAchieved DEF GuestAttempt, Attempt
<1>4. CASE SetupStep /\ UNCHANGED hostVars
  <2>1. CASE Phase
    BY <2>1, PhaseAchieves DEF Phase, ProgressInv
  <2>2. CASE PhaseRefused \/ PhaseFails
    BY <2>2, NothingAchieved DEF PhaseRefused, PhaseFails, Stop
  <2>3. CASE GiveUp
    <3>1. /\ at = "payload" /\ guest' = guest /\ wanted' = 0 /\ at' = Follow /\ flow' = flow
          /\ outcome' = (IF Follow = "idle" THEN "done" ELSE outcome)
          /\ outcome # "done" /\ flow \in {"native", "vendor"}
      BY <2>3 DEF GiveUp, MoveOn, SetupShape
    <3>2. at' = (IF flow = "native" THEN "k3s" ELSE "cluster") /\ outcome' # "done"
      BY <3>1, Follows DEF AllPhases
    <3> QED
      BY <3>1, <3>2 DEF Achieved, Over, OperatorsDone, PackageUsed, PackageThere, WorldThere
  <2>4. CASE ManifestIgnored
    <3>1. CASE MoveOn(guest) /\ UNCHANGED <<wanted, cut>>
      <4>1. /\ at = "manifest" /\ at' = "create" /\ flow = "vendor" /\ outcome' = outcome
            /\ outcome # "done" /\ guest' = guest /\ flow' = flow /\ Achieved
        BY <2>4, <3>1, Follows DEF ManifestIgnored, MoveOn, AllPhases, SetupShape, ProgressInv
      <4> QED
        BY <4>1 DEF Achieved, Over, OperatorsDone, PackageUsed, PackageThere, WorldThere
    <3>2. CASE Stop(guest)
      BY <3>2, NothingAchieved DEF Stop
    <3> QED
      BY <2>4, <3>1, <3>2 DEF ManifestIgnored
  <2>5. CASE CutOff
    BY <2>5 DEF CutOff
  <2> QED
    BY <1>4, <2>1, <2>2, <2>3, <2>4, <2>5 DEF SetupStep
<1> USE DEF ProgressInv, Achieved, Over, OperatorsDone, PackageUsed, PackageThere, WorldThere, Target
<1>5. CASE Publish /\ UNCHANGED hostVars
  BY <1>5 DEF Publish
<1>6. CASE UNCHANGED vars
  BY <1>6 DEF vars, setupVars
<1> QED
  BY <1>1, <1>2, <1>3, <1>4, <1>5, <1>6 DEF HNext, Next, hvars

\* A sequence that reports success has left a complete server (bootstrap.rs,
\* setup_driver.rs, ubuntu.rs): one version throughout, the world, its tag and its
\* settings, operators that answer and, on Ubuntu, one that can lead; whatever
\* failed or was cut off before, unless a script of this attempt was.
THEOREM DoneMeansReadyAlways == HSpec => []DoneMeansReady
<1>1. ProgressInv => DoneMeansReady
  BY DEF ProgressInv, Achieved, Over, OperatorsDone, PackageUsed, PackageThere, WorldThere,
         DoneMeansReady
<1> QED
  BY <1>1, ProgressInitially, ProgressInduction, WorldInitially, WorldInduction, PTL DEF HSpec

-----------------------------------------------------------------------------
(* Types. *)

\* The facts a phase adds are those the sequences know of.
LEMMA WithFact ==
  ASSUME guest \in Guests, NEW fact \in Facts
  PROVE  With(fact) \in Guests
BY DEF With, Guests

LEMMA GuestFields ==
  ASSUME guest \in Guests
  PROVE  /\ guest.has \subseteq Facts /\ guest.payload \in Version /\ guest.operators \in Version
         /\ guest.bound \in {"none", "half", "full"} /\ guest.swap \in {"none", "raw", "on"}
         /\ guest.manifest \in Plan \cup {0} /\ guest.worlds \subseteq Plan
         /\ guest.images \subseteq Version /\ guest.tags \in [Plan -> Version]
         /\ guest.freed \subseteq Plan /\ guest.dressed \subseteq Plan
BY DEF Guests

LEMMA EffectTyped ==
  ASSUME guest \in Guests, plan \in Plan, steam \in 1..MaxSteam, at \in AllPhases, Ready
  PROVE  Effect \in Guests
<1> USE Effects, GuestFields
<1>0. 0 \in Version /\ steam \in Version
  BY SetupAssumption DEF Version
<1>1. CASE at = "packages" BY <1>1, WithFact DEF InstallPackages, Facts
<1>2. CASE at = "disk" BY <1>2, WithFact DEF GrowDisk, Facts
<1>3. CASE at = "payload"
  <2> DEFINE payload == IF flow = "vendor" /\ guest.payload # 0 THEN guest.payload ELSE steam
  <2>1. payload \in Version
    BY <1>0
  <2>2. Effect = [guest EXCEPT !.payload = payload]
    BY <1>3 DEF DownloadPayload
  <2> HIDE DEF payload
  <2> QED
    BY <2>1, <2>2 DEF Guests
<1>4. CASE at = "k3s" BY <1>4, WithFact DEF StartK3s, Facts
<1>5. CASE at = "swap" BY <1>5 DEF ConfigureSwap, Guests
<1>6. CASE at = "core_images" BY <1>6, WithFact DEF ImportCoreImages, Facts
<1>7. CASE at = "scale_core" BY <1>7, WithFact DEF ScaleCore, Facts
<1>8. CASE at = "crds" BY <1>8, WithFact DEF UpdateCrds, Facts
<1>9. CASE at = "operator_images" BY <1>9 DEF PatchOperators, Guests
<1>10. CASE at = "scale_operators" BY <1>10, WithFact DEF ScaleOperators, Facts
<1>11. CASE at = "helper" BY <1>11, WithFact DEF InstallHelper, Facts
<1>12. CASE at = "kubernetes"
  <2> DEFINE bound == IF guest.bound = "none" THEN "full" ELSE guest.bound
             has == guest.has \cup {"core images", "core up", "crds", "operators up"}
  <2>1. bound \in {"none", "half", "full"} /\ has \subseteq Facts
    BY DEF Facts
  <2>2. Effect = [guest EXCEPT !.has = has, !.operators = guest.payload, !.bound = bound]
    BY <1>12 DEF BootstrapKubernetes
  <2> HIDE DEF bound, has
  <2> QED
    BY <2>1, <2>2 DEF Guests
<1>13. CASE at = "cluster"
  <2> DEFINE has == guest.has \cup
               {"k3s", "core images", "core up", "crds", "operators up", "helper"}
  <2>1. has \subseteq Facts
    BY DEF Facts
  <2>2. Effect = [guest EXCEPT !.has = has, !.operators = guest.payload]
    BY <1>13 DEF SetUpCluster
  <2> HIDE DEF has
  <2> QED
    BY <2>1, <2>2 DEF Guests
<1>14. CASE at = "manifest" BY <1>14 DEF WriteManifest, Guests
<1>15. CASE at = "world"
  <2> DEFINE tags == [guest.tags EXCEPT ![plan] = 0]
             worlds == guest.worlds \cup {plan}
  <2>1. tags \in [Plan -> Version] /\ worlds \subseteq Plan
    BY <1>0
  <2>2. Effect \in {guest, [guest EXCEPT !.worlds = worlds, !.tags = tags, !.manifest = plan]}
    BY <1>15 DEF CreateWorld
  <2> HIDE DEF tags, worlds
  <2> QED
    BY <2>1, <2>2 DEF Guests
<1>16. CASE at = "create"
  <2> DEFINE tags == IF guest.manifest \in guest.worlds THEN guest.tags
                     ELSE [guest.tags EXCEPT ![guest.manifest] = 0]
             worlds == guest.worlds \cup {guest.manifest}
  <2>1. guest.manifest \in Plan
    BY <1>16 DEF Ready
  <2>2. tags \in [Plan -> Version] /\ worlds \subseteq Plan
    BY <1>0, <2>1
  <2>3. Effect = [guest EXCEPT !.worlds = worlds, !.tags = tags]
    BY <1>16 DEF CreateFromManifest
  <2> HIDE DEF tags, worlds
  <2> QED
    BY <2>2, <2>3 DEF Guests
<1>17. CASE at = "bg_images" BY <1>17 DEF ImportBattlegroupImages, Guests
<1>18. CASE at \in {"scheduler", "patch", "update", "defaults"}
  <2> DEFINE tags == [guest.tags EXCEPT ![Target] = guest.payload]
             images == guest.images \cup {guest.payload}
             freed == guest.freed \cup {Target}
             dressed == guest.dressed \cup {Target}
  <2>1. Target \in Plan
    BY <1>18 DEF Ready
  <2>2. /\ tags \in [Plan -> Version] /\ images \subseteq Version
        /\ freed \subseteq Plan /\ dressed \subseteq Plan
    BY <2>1
  <2>3. CASE at = "scheduler"
    <3>1. Effect = [guest EXCEPT !.freed = freed]
      BY <2>3 DEF UseDefaultScheduler
    <3> HIDE DEF tags, images, freed, dressed
    <3> QED
      BY <2>2, <3>1 DEF Guests
  <2>4. CASE at = "patch"
    <3>1. Effect = [guest EXCEPT !.tags = tags]
      BY <2>4 DEF PatchImages
    <3> HIDE DEF tags, images, freed, dressed
    <3> QED
      BY <2>2, <3>1 DEF Guests
  <2>5. CASE at = "update"
    <3> DEFINE updated == [guest.tags EXCEPT ![guest.manifest] = guest.payload]
    <3>1. updated \in [Plan -> Version]
      OBVIOUS
    <3>2. Effect = [guest EXCEPT !.images = images, !.tags = updated]
      BY <2>5 DEF UpdateFromDownloads
    <3> HIDE DEF tags, images, freed, dressed, updated
    <3> QED
      BY <2>2, <3>1, <3>2 DEF Guests
  <2>6. CASE at = "defaults"
    <3>1. Effect = [guest EXCEPT !.dressed = dressed]
      BY <2>6 DEF ApplyDefaults
    <3> HIDE DEF tags, images, freed, dressed
    <3> QED
      BY <2>2, <3>1 DEF Guests
  <2> QED
    BY <1>18, <2>3, <2>4, <2>5, <2>6
<1> QED
  BY <1>1, <1>2, <1>3, <1>4, <1>5, <1>6, <1>7, <1>8, <1>9, <1>10, <1>11, <1>12, <1>13, <1>14,
     <1>15, <1>16, <1>17, <1>18 DEF AllPhases

LEMMA TornTyped ==
  ASSUME guest \in Guests, NEW after \in Torn
  PROVE  after \in Guests
<1>1. CASE at = "kubernetes" /\ guest.bound = "none"
  <2> DEFINE has == guest.has \cup {"core images", "core up", "crds"}
  <2>1. has \subseteq Facts
    BY GuestFields DEF Facts
  <2>2. after = [guest EXCEPT !.has = has, !.operators = guest.payload, !.bound = "half"]
    BY <1>1 DEF Torn
  <2> HIDE DEF has
  <2> QED
    BY <2>1, <2>2, GuestFields DEF Guests
<1>2. CASE at = "swap" /\ guest.swap = "none"
  BY <1>2 DEF Torn, Guests
<1>3. CASE ~(at = "kubernetes" /\ guest.bound = "none") /\ ~(at = "swap" /\ guest.swap = "none")
  BY <1>3 DEF Torn
<1> QED
  BY <1>1, <1>2, <1>3

LEMMA FreshTyped == Fresh \in Guests
<1>1. 0 \in Version
  BY SetupAssumption DEF Version
<1>2. [p \in Plan |-> 0] \in [Plan -> Version]
  BY <1>1
<1> QED
  BY <1>1, <1>2 DEF Fresh, Guests

\* What a host carries and what is remembered of the attempts.
GuestTyped ==
  /\ flow \in Flows /\ plan \in Plan /\ steam \in 1..MaxSteam /\ guest \in Guests
  /\ outcome \in {"none", "error", "done"}
  /\ left \subseteq Plan /\ wanted \in Version /\ faults \in 0..MaxFaults
  /\ cut \in {"no", "before", "now"}

LEMMA GuestInitially == HInit => GuestTyped
BY FreshTyped, SetupAssumption DEF HInit, HostInit, SetupInit, GuestTyped, Version, Plan

LEMMA MoveTyped ==
  ASSUME GuestTyped, NEW after \in Guests, MoveOn(after)
  PROVE  /\ flow' \in Flows /\ plan' \in Plan /\ steam' \in 1..MaxSteam /\ guest' \in Guests
         /\ outcome' \in {"none", "error", "done"} /\ left' \subseteq Plan
BY DEF GuestTyped, MoveOn

LEMMA StopTyped ==
  ASSUME GuestTyped, NEW after \in Guests, Stop(after)
  PROVE  /\ flow' \in Flows /\ plan' \in Plan /\ steam' \in 1..MaxSteam /\ guest' \in Guests
         /\ outcome' \in {"none", "error", "done"} /\ left' \subseteq Plan
         /\ wanted' \in Version /\ cut' \in {"no", "before", "now"}
<1>1. after.worlds \subseteq Plan
  BY DEF Guests
<1> QED
  BY <1>1 DEF GuestTyped, Stop

LEMMA GuestInduction == SetupShape /\ GuestTyped /\ [HNext]_hvars => GuestTyped'
<1> SUFFICES ASSUME SetupShape, GuestTyped, [HNext]_hvars PROVE GuestTyped'
  OBVIOUS
<1>0. /\ \A c : Past(c) \in {c, "before"}
      /\ 0 \in Version /\ steam \in Version
      /\ faults < MaxFaults => faults + 1 \in 0..MaxFaults
      /\ steam < MaxSteam => steam + 1 \in 1..MaxSteam
  BY SetupAssumption DEF Past, Version, GuestTyped
<1>1. CASE HostBegin
  BY <1>0, <1>1 DEF HostBegin, GuestTyped
<1>2. CASE HostStep
  <2>1. CASE EnterGuest
    BY <2>1 DEF EnterGuest, GuestTyped
  <2>2. CASE ImportVm
    BY <2>2, FreshTyped DEF ImportVm, Ends, GuestTyped
  <2>3. CASE \E s \in {"readiness", "existing", "destination", "compare", "configure", "start",
                       "address"} : Ends(s) /\ guest' = guest
    BY <2>3 DEF Ends, GuestTyped
  <2>4. CASE Quits /\ faults' \in {faults, faults + 1} /\ (faults' # faults => faults < MaxFaults)
    BY <1>0, <2>4 DEF Quits, GuestTyped
  <2> QED
    BY <1>2, <2>1, <2>2, <2>3, <2>4
    DEF HostStep, HostReady, ExistingRefused, RemoveExisting, DestinationRefused, ClearBlocked,
        ClearDestination, Compatible, ConfigureVm, StartVm, HasAddress, AddressRefused, HostFails
<1>3. CASE GuestAttempt
  BY <1>0, <1>3 DEF GuestAttempt, Attempt, GuestTyped
<1>4. CASE SetupStep /\ UNCHANGED hostVars
  <2>1. guest \in Guests
    BY DEF GuestTyped
  <2>2. at \in AllPhases /\ Ready => \A after \in {guest, Effect} \cup Torn : after \in Guests
    BY EffectTyped, TornTyped DEF GuestTyped
  <2>3. CASE Phase
    BY <1>0, <2>2, <2>3, NamesOfPhases, MoveTyped DEF Phase, GuestTyped
  <2>4. CASE PhaseRefused
    BY <2>1, <2>4, StopTyped DEF PhaseRefused, GuestTyped
  <2>5. CASE PhaseFails
    BY <1>0, <2>2, <2>5, NamesOfPhases, StopTyped DEF PhaseFails, GuestTyped
  <2>6. CASE GiveUp
    BY <1>0, <2>1, <2>6, MoveTyped DEF GiveUp, GuestTyped
  <2>7. CASE ManifestIgnored
    BY <1>0, <2>1, <2>7, MoveTyped, StopTyped DEF ManifestIgnored, GuestTyped
  <2>8. CASE CutOff
    BY <1>0, <2>2, <2>8, NamesOfPhases, MoveTyped DEF CutOff, GuestTyped
  <2> QED
    BY <1>4, <2>3, <2>4, <2>5, <2>6, <2>7, <2>8 DEF SetupStep
<1>5. CASE Publish /\ UNCHANGED hostVars
  BY <1>0, <1>5 DEF Publish, GuestTyped
<1>6. CASE UNCHANGED vars
  BY <1>6 DEF vars, setupVars, GuestTyped
<1> QED
  BY <1>1, <1>2, <1>3, <1>4, <1>5, <1>6 DEF HNext, Next, hvars

\* The host: its machines are records of the type, their files are those of
\* machines, and the folder holds no others.
MachinesTyped ==
  /\ step \in {"readiness", "existing", "destination", "compare", "import", "configure", "start",
               "address", "network", "off"}
  /\ request \in [name : Names, replace : BOOLEAN, clear : BOOLEAN]
  /\ vms \subseteq Vm /\ disks \subseteq 1..MaxVms /\ place \subseteq disks
  /\ made \in 0..MaxVms

LEMMA MachinesInitially == HInit => MachinesTyped
<1> SUFFICES ASSUME HInit PROVE MachinesTyped
  OBVIOUS
<1>1. 1 \in 1..MaxVms /\ 0 \in 0..MaxVms /\ 1 \in 0..MaxVms
  BY HostAssumption
<1>2. step = "off" /\ request \in [name : Names, replace : BOOLEAN, clear : BOOLEAN]
  BY DEF HInit, HostInit
<1>3. CASE vms = {} /\ disks = {} /\ place = {} /\ made = 0
  BY <1>1, <1>2, <1>3 DEF MachinesTyped
<1>4. CASE /\ \E n \in Names, b \in BOOLEAN : vms = {[id |-> 1, name |-> n, on |-> b]}
           /\ disks = {1} /\ place \in {{}, {1}} /\ made = 1
  <2>1. PICK n \in Names, b \in BOOLEAN : vms = {[id |-> 1, name |-> n, on |-> b]}
    BY <1>4
  <2>2. [id |-> 1, name |-> n, on |-> b] \in Vm
    BY <1>1, Zenon DEF Vm
  <2> QED
    BY <1>1, <1>2, <1>4, <2>1, <2>2 DEF MachinesTyped
<1> QED
  BY <1>3, <1>4 DEF HInit, HostInit

LEMMA MachinesInduction == MachinesTyped /\ [HNext]_hvars => MachinesTyped'
<1> SUFFICES ASSUME MachinesTyped, [HNext]_hvars PROVE MachinesTyped'
  OBVIOUS
<1> USE HostOrder DEF MachinesTyped
<1>1. CASE HostBegin BY <1>1 DEF HostBegin
<1>2. CASE HostReady BY <1>2 DEF HostReady, Ends
<1>3. CASE ExistingRefused BY <1>3 DEF ExistingRefused, Quits
<1>4. CASE RemoveExisting BY <1>4 DEF RemoveExisting, Ends
<1>5. CASE DestinationRefused BY <1>5 DEF DestinationRefused, Quits
<1>6. CASE ClearBlocked
  <2>1. PICK gone \in SUBSET (place \ Running) : disks' = disks \ gone /\ place' = place \ gone
    BY <1>6 DEF ClearBlocked
  <2> QED
    BY <1>6, <2>1 DEF ClearBlocked, Quits
<1>7. CASE ClearDestination BY <1>7 DEF ClearDestination, Ends
<1>8. CASE Compatible BY <1>8 DEF Compatible, Ends
<1>9. CASE ImportVm
  <2> DEFINE new == [id |-> made + 1, name |-> "packaged", on |-> FALSE]
  <2>1. made + 1 \in 1..MaxVms /\ made + 1 \in 0..MaxVms
    BY <1>9, HostAssumption DEF ImportVm
  <2>2. new \in Vm
    BY <2>1 DEF Vm, Names
  <2>3. /\ vms' = vms \cup {new} /\ disks' = disks \cup {made + 1} /\ made' = made + 1
        /\ place' = place \cup {made + 1} /\ step' = "configure" /\ request' = request
    BY <1>9 DEF ImportVm, Ends
  <2> HIDE DEF new
  <2> QED
    BY <2>1, <2>2, <2>3
<1>10. CASE ConfigureVm BY <1>10 DEF ConfigureVm, Ends
<1>11. CASE StartVm
  <2> DEFINE started(v) == [v EXCEPT !.on = @ \/ v.name = "packaged"]
  <2>1. ASSUME NEW v \in Vm PROVE started(v) \in Vm
    <3>1. /\ v = [id |-> v.id, name |-> v.name, on |-> v.on]
          /\ v.id \in 1..MaxVms /\ v.name \in Names
      BY DEF Vm
    <3>2. started(v) = [id |-> v.id, name |-> v.name, on |-> (v.on \/ v.name = "packaged")]
      BY <3>1
    <3>3. (v.on \/ v.name = "packaged") \in BOOLEAN
      OBVIOUS
    <3> QED
      BY <3>1, <3>2, <3>3, Zenon DEF Vm
  <2>2. vms' = {started(v) : v \in vms} /\ step' = "address" /\ UNCHANGED <<request, disks, place, made>>
    BY <1>11 DEF StartVm, Ends
  <2> HIDE DEF started
  <2> QED
    BY <2>1, <2>2
<1>12. CASE HasAddress BY <1>12 DEF HasAddress, Ends
<1>13. CASE AddressRefused BY <1>13 DEF AddressRefused, Quits
<1>14. CASE EnterGuest BY <1>14 DEF EnterGuest
<1>15. CASE HostFails BY <1>15 DEF HostFails, Quits
<1>16. CASE UNCHANGED hostVars BY <1>16 DEF hostVars
<1>17. CASE UNCHANGED vars BY <1>17 DEF vars, hostVars
<1> QED
  BY <1>1, <1>2, <1>3, <1>4, <1>5, <1>6, <1>7, <1>8, <1>9, <1>10, <1>11, <1>12, <1>13, <1>14,
     <1>15, <1>16, <1>17
  DEF HNext, Next, HostStep, GuestAttempt, hvars

\* The installation: a build or none at every place.
FlagsTyped == unit \in BOOLEAN /\ kept \in BOOLEAN

BuildsTyped ==
  /\ init \in {"systemd", "openrc"} /\ bundled \in Build
  /\ inst \in {"idle", "stop-old", "prepare-host", "upload-binary", "write-token", "install-init",
               "start-service", "verify"}
  /\ file \in Build \cup {0} /\ proc \in Build \cup {0} /\ report \in Build \cup {0}
  /\ troubles \in 0..MaxTroubles

LEMMA ServiceTyped == HInit => FlagsTyped /\ BuildsTyped
<1>1. HInit => FlagsTyped
  BY DEF HInit, ServiceInit, FlagsTyped
<1>2. HInit => BuildsTyped
  BY ServiceAssumption DEF HInit, ServiceInit, BuildsTyped, Build
<1> QED
  BY <1>1, <1>2

LEMMA FlagsInduction == FlagsTyped /\ [HNext]_hvars => FlagsTyped'
<1> SUFFICES ASSUME FlagsTyped, [HNext]_hvars PROVE FlagsTyped'
  OBVIOUS
<1> USE DEF FlagsTyped
<1>1. CASE BeginInstall BY <1>1, Zenon DEF BeginInstall
<1>2. CASE StopOld BY <1>2, Zenon DEF StopOld
<1>3. CASE PrepareHost BY <1>3, Zenon DEF PrepareHost
<1>4. CASE UploadBinary BY <1>4, Zenon DEF UploadBinary
<1>5. CASE WriteToken BY <1>5, Zenon DEF WriteToken
<1>6. CASE InstallInit BY <1>6, Zenon DEF InstallInit
<1>7. CASE StartService BY <1>7, Zenon DEF StartService
<1>8. CASE Verify BY <1>8, Zenon DEF Verify
<1>9. CASE InstallFails BY <1>9, Zenon DEF InstallFails
<1>10. CASE RestartService BY <1>10, Zenon DEF RestartService
<1>11. CASE UninstallService BY <1>11, Zenon DEF UninstallService
<1>12. CASE Respawn BY <1>12, Zenon DEF Respawn
<1>13. CASE NewBuild BY <1>13, Zenon DEF NewBuild
<1>14. CASE ScriptCutOff
  <2>1. unit' \in {unit, unit \/ inst = "install-init"} /\ kept' = kept
    BY <1>14, Zenon DEF ScriptCutOff
  <2>2. (unit \/ inst = "install-init") \in BOOLEAN
    BY Zenon
  <2> QED
    BY <2>1, <2>2, Zenon
<1>15. CASE UNCHANGED serviceVars BY <1>15, Zenon DEF serviceVars
<1> QED
  BY <1>1, <1>2, <1>3, <1>4, <1>5, <1>6, <1>7, <1>8, <1>9, <1>10, <1>11, <1>12, <1>13, <1>14,
     <1>15, Zenon
  DEF HNext, ServiceStep, hvars

LEMMA BuildsInduction == BuildsTyped /\ [HNext]_hvars => BuildsTyped'
<1> SUFFICES ASSUME BuildsTyped, [HNext]_hvars PROVE BuildsTyped'
  OBVIOUS
<1> USE InstallOrder, ServiceAssumption DEF BuildsTyped, Runs, Trouble, Build
<1>1. CASE BeginInstall
  <2>1. InstallSteps[1] = "stop-old"
    BY DEF InstallSteps
  <2> QED
    BY <1>1, <2>1 DEF BeginInstall
<1>2. CASE StopOld
  <2>1. CASE proc' = 0 /\ UNCHANGED <<kept, troubles>> BY <1>2, <2>1 DEF StopOld
  <2>2. CASE proc # 0 /\ Trouble /\ kept' = TRUE /\ UNCHANGED proc BY <1>2, <2>2 DEF StopOld
  <2> QED BY <1>2, <2>1, <2>2 DEF StopOld
<1>3. CASE PrepareHost BY <1>3 DEF PrepareHost
<1>4. CASE UploadBinary BY <1>4 DEF UploadBinary
<1>5. CASE WriteToken BY <1>5 DEF WriteToken
<1>6. CASE InstallInit BY <1>6 DEF InstallInit
<1>7. CASE StartService
  <2>1. proc' \in {proc, file}
    BY <1>7 DEF StartService
  <2> QED BY <1>7, <2>1 DEF StartService
<1>8. CASE Verify BY <1>8 DEF Verify
<1>9. CASE InstallFails
  <2>1. troubles' \in {troubles} \/ Trouble
    BY <1>9 DEF InstallFails
  <2>2. /\ file' \in {file, bundled} /\ proc' \in {proc, 0} /\ report' = 0 /\ inst' = "idle"
        /\ UNCHANGED <<init, bundled>>
    BY <1>9 DEF InstallFails
  <2> QED BY <2>1, <2>2
<1>10. CASE RestartService BY <1>10 DEF RestartService
<1>11. CASE UninstallService BY <1>11 DEF UninstallService
<1>12. CASE Respawn
  <2>1. proc' \in {file, 0}
    BY <1>12 DEF Respawn
  <2> QED BY <1>12, <2>1 DEF Respawn
<1>13. CASE NewBuild BY <1>13 DEF NewBuild
<1>14. CASE ScriptCutOff
  <2>1. /\ file' \in {file, bundled} /\ proc' \in {proc, 0, file} /\ Trouble
        /\ UNCHANGED <<init, bundled, report>>
    BY <1>14 DEF ScriptCutOff
  <2>2. inst \notin {"idle", "stop-old"} /\ inst' = Following(inst)
    BY <1>14 DEF ScriptCutOff
  <2> QED BY <2>1, <2>2
<1>15. CASE UNCHANGED serviceVars BY <1>15 DEF serviceVars
<1> QED
  BY <1>1, <1>2, <1>3, <1>4, <1>5, <1>6, <1>7, <1>8, <1>9, <1>10, <1>11, <1>12, <1>13, <1>14, <1>15
  DEF HNext, ServiceStep, hvars

\* The elements of the sequences of steps are named in the invariants above.
LEMMA NamesOfSteps ==
  /\ {HostSteps[i] : i \in DOMAIN HostSteps} =
       {"readiness", "existing", "destination", "compare", "import", "configure", "start",
        "address", "network"}
  /\ {InstallSteps[i] : i \in DOMAIN InstallSteps} =
       {"stop-old", "prepare-host", "upload-binary", "write-token", "install-init",
        "start-service", "verify"}
<1>1. {HostSteps[i] : i \in DOMAIN HostSteps} =
        {"readiness", "existing", "destination", "compare", "import", "configure", "start",
         "address", "network"}
  BY DEF HostSteps
<1>2. {InstallSteps[i] : i \in DOMAIN InstallSteps} =
        {"stop-old", "prepare-host", "upload-binary", "write-token", "install-init",
         "start-service", "verify"}
  BY DEF InstallSteps
<1> QED
  BY <1>1, <1>2

LEMMA SetupTyped ==
  SetupShape /\ GuestTyped /\ MachinesTyped /\ FlagsTyped /\ BuildsTyped => SetupTypeOK
<1> SUFFICES ASSUME SetupShape, GuestTyped, MachinesTyped, FlagsTyped, BuildsTyped
             PROVE  SetupTypeOK
  OBVIOUS
<1>1. at \in AllPhases \cup {"idle", "host"}
  BY DEF SetupShape, GuestTypes, AllPhases
<1>2. TypeOK
  BY <1>1, NamesOfPhases DEF TypeOK, GuestTyped
<1>3. HostTypeOK
  BY <1>2, NamesOfSteps DEF HostTypeOK, MachinesTyped
<1>4. ServiceTypeOK
  <2>1. inst \in {InstallSteps[i] : i \in DOMAIN InstallSteps} \cup {"idle"}
    BY NamesOfSteps DEF BuildsTyped
  <2> QED
    BY <2>1, Zenon DEF ServiceTypeOK, FlagsTyped, BuildsTyped
<1> QED
  BY <1>3, <1>4 DEF SetupTypeOK

\* The types of a host's setup (bootstrap.rs, hyperv.rs, management_service.rs):
\* whatever is repeated, fails or is cut off, what a phase leaves is a host the
\* next phase can be run on, every machine and file is one that was made, and every
\* build named is one there is.
THEOREM SetupTypeCorrect == HSpec => []SetupTypeOK
BY WorldInitially, WorldInduction, GuestInitially, GuestInduction, MachinesInitially,
   MachinesInduction, ServiceTyped, FlagsInduction, BuildsInduction, SetupTyped, PTL DEF HSpec

=============================================================================
