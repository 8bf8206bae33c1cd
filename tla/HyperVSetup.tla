---------------------------- MODULE HyperVSetup ----------------------------
(***************************************************************************)
(* The way to a fresh guest on a Windows host: HyperVVmSetupOrchestrator   *)
(* imports the packaged VM, after it has removed a VM of the requested     *)
(* name and cleared the destination folder if it may, and                  *)
(* HyperVInitialSetupOrchestrator goes on to the guest.  Nothing is undone *)
(* when a step fails.                                                      *)
(*                                                                         *)
(* Hyper-V itself is external: a VM is found by its name, which need not   *)
(* be unique, and an imported VM has the name of the package, not that of  *)
(* the request.                                                            *)
(***************************************************************************)
EXTENDS GuestSetup

CONSTANTS
  MaxVms      \* bound: virtual machines, the one there at first included

ASSUME HostAssumption == MaxVms \in Nat \ {0}

VARIABLES
  step,     \* the host step under way, "off" outside
  request,  \* HyperVVmSetupRequest: the name, and the two permissions
  vms,      \* the registered machines
  disks,    \* machines whose disk files exist
  place,    \* those of them whose files are in the destination folder
  made      \* machines so far (bound, and the next id)

hostVars == <<step, request, vms, disks, place, made>>
vars == <<setupVars, hostVars>>

Names == {"packaged", "other"}
Vm == [id : 1..MaxVms, name : Names, on : BOOLEAN]

HostSteps ==
  <<"readiness", "existing", "destination", "compare", "import", "configure", "start",
    "address", "network">>

HostTypeOK ==
  /\ TypeOK
  /\ step \in {HostSteps[i] : i \in DOMAIN HostSteps} \cup {"off"}
  /\ request \in [name : Names, replace : BOOLEAN, clear : BOOLEAN]
  /\ vms \subseteq Vm /\ disks \subseteq 1..MaxVms /\ place \subseteq disks
  /\ made \in 0..MaxVms

\* At first there may be a machine, its files in the destination or elsewhere.
HostInit ==
  /\ SetupInit
  /\ step = "off"
  /\ request \in [name : Names, replace : BOOLEAN, clear : BOOLEAN]
  /\ \/ vms = {} /\ disks = {} /\ place = {} /\ made = 0
     \/ /\ \E n \in Names, b \in BOOLEAN : vms = {[id |-> 1, name |-> n, on |-> b]}
        /\ disks = {1} /\ place \in {{}, {1}} /\ made = 1
  \* The other sequences meet no Hyper-V host.
  /\ flow # "native" =>
       vms = {} /\ request = [name |-> "packaged", replace |-> TRUE, clear |-> TRUE]

Called(name) == {v \in vms : v.name = name}
Running == {v.id : v \in {w \in vms : w.on}}

After(s) == HostSteps[1 + CHOOSE i \in DOMAIN HostSteps : HostSteps[i] = s]

\* The step is over, and the attempt goes on.
Ends(s) ==
  /\ step = s
  /\ step' = After(s)
  /\ UNCHANGED <<request, flow, at, plan, steam, outcome, left, wanted, cut, faults>>

\* The attempt ends here; what it did stays.
Quits ==
  /\ step' = "off" /\ outcome' = "error"
  /\ UNCHANGED <<request, flow, at, plan, guest, steam, left, wanted, cut>>

-----------------------------------------------------------------------------
HostBegin ==
  /\ flow = "native" /\ at = "idle" /\ step = "off" /\ outcome # "done"
  /\ step' = HostSteps[1]
  /\ plan' \in {plan, plan + 1} \cap Plan
  /\ cut' = Past(cut)
  /\ UNCHANGED <<flow, at, guest, steam, outcome, left, wanted, faults>>
  /\ UNCHANGED <<request, vms, disks, place, made>>

\* Elevated, Hyper-V there, its service up, one .vmcx in the package.
HostReady == Ends("readiness") /\ UNCHANGED <<guest, vms, disks, place, made>>

\* Get-VM by the requested name: several answer with a list, which is no record.
ExistingRefused ==
  /\ step = "existing"
  /\ \/ Cardinality(Called(request.name)) > 1
     \/ Cardinality(Called(request.name)) = 1 /\ ~request.replace
  /\ Quits /\ UNCHANGED <<vms, disks, place, made, faults>>

\* Mutant of RemoveExisting: a running machine is only turned off.
TurnOffExisting ==
  /\ Ends("existing")
  /\ Cardinality(Called(request.name)) <= 1
  /\ Called(request.name) # {} => request.replace
  /\ vms' = {[v EXCEPT !.on = @ /\ v.name # request.name] : v \in {w \in vms : w.on \/ w.name # request.name}}
  /\ UNCHANGED <<guest, disks, place, made>>

\* The machine is turned off if it runs and its registration removed; its files
\* stay.
RemoveExisting ==
  /\ Ends("existing")
  /\ Cardinality(Called(request.name)) <= 1
  /\ Called(request.name) # {} => request.replace
  /\ vms' = vms \ Called(request.name)
  /\ UNCHANGED <<guest, disks, place, made>>

DestinationRefused ==
  /\ step = "destination" /\ place # {} /\ ~request.clear
  /\ Quits /\ UNCHANGED <<vms, disks, place, made, faults>>

\* The files of a running machine are locked: the removal of the folder fails
\* in its middle.
ClearBlocked ==
  /\ step = "destination" /\ request.clear /\ place \cap Running # {}
  /\ \E gone \in SUBSET (place \ Running) :
       disks' = disks \ gone /\ place' = place \ gone
  /\ Quits /\ UNCHANGED <<vms, made, faults>>

ClearDestination ==
  /\ Ends("destination")
  /\ place # {} => request.clear /\ place \cap Running = {}
  /\ disks' = disks \ place /\ place' = {}
  /\ UNCHANGED <<guest, vms, made>>

Compatible == Ends("compare") /\ UNCHANGED <<guest, vms, disks, place, made>>

\* Copies the files to the destination and registers a machine with a new id and
\* the name of the package.
ImportVm ==
  /\ made < MaxVms
  /\ Ends("import")
  /\ made' = made + 1
  /\ vms' = vms \cup {[id |-> made + 1, name |-> "packaged", on |-> FALSE]}
  /\ disks' = disks \cup {made + 1} /\ place' = place \cup {made + 1}
  /\ guest' = Fresh

\* Switch, network adapter, disk size, boot device, memory and processors, by
\* the name of the imported machine.
ConfigureVm == Ends("configure") /\ UNCHANGED <<guest, vms, disks, place, made>>

\* Also by its name.
StartVm ==
  /\ Ends("start")
  /\ vms' = {[v EXCEPT !.on = @ \/ v.name = "packaged"] : v \in vms}
  /\ UNCHANGED <<guest, disks, place, made>>

\* wait_for_vm_ipv4 finds one record of that name, running and with an address.
HasAddress ==
  /\ Ends("address")
  /\ Cardinality(Called("packaged")) = 1
  /\ UNCHANGED <<guest, vms, disks, place, made>>

AddressRefused ==
  /\ step = "address" /\ Cardinality(Called("packaged")) # 1
  /\ Quits /\ UNCHANGED <<vms, disks, place, made, faults>>

\* SSH answers, the static address and the player's address are set: on to
\* GuestBootstrapOrchestrator::run.
EnterGuest ==
  /\ step = "network" /\ step' = "off"
  /\ at' = Phases[1]
  /\ UNCHANGED <<flow, plan, guest, steam, outcome, left, wanted, cut, faults>>
  /\ UNCHANGED <<request, vms, disks, place, made>>

\* Any step may fail: a host that is not ready, an incompatible package, a
\* cmdlet, an address or SSH that does not come in time.
HostFails ==
  /\ step \notin {"off"} /\ faults < MaxFaults
  /\ faults' = faults + 1
  /\ Quits /\ UNCHANGED <<vms, disks, place, made>>

HostStep ==
  \/ HostReady \/ ExistingRefused \/ RemoveExisting \/ DestinationRefused \/ ClearBlocked
  \/ ClearDestination \/ Compatible \/ ImportVm \/ ConfigureVm \/ StartVm
  \/ HasAddress \/ AddressRefused \/ EnterGuest \/ HostFails

\* The library runs the guest's phases on a machine that is there, too.
GuestAttempt ==
  /\ step = "off" /\ Attempt
  /\ flow = "native" => \E v \in Called("packaged") : v.on /\ v.id = made
  /\ UNCHANGED hostVars

Next ==
  \/ HostBegin \/ HostStep \/ GuestAttempt
  \/ SetupStep /\ UNCHANGED hostVars
  \/ Publish /\ UNCHANGED hostVars

Step == HostStep \/ (SetupStep /\ UNCHANGED hostVars)
Again == HostBegin \/ GuestAttempt

Spec ==
  HostInit /\ [][Next]_vars /\ WF_vars(Step) /\ WF_vars(Again)

-----------------------------------------------------------------------------
\* A machine of the requested name keeps its disk files while it is registered,
\* and no second one joins it: what the order of the steps is for (the
\* registration goes before the files, the files before the import).  It holds
\* only if the request names the machine as the package does; otherwise every
\* attempt adds one, and clears the folder under those of before.
MachinesWhole ==
  request.name = "packaged" =>
    /\ \A v \in Called("packaged") : v.id \in disks
    /\ Cardinality(Called("packaged")) <= 1

\* The administrator repeats what failed until it succeeds: with both permissions
\* and the package's name, nothing a failed attempt left behind stands in the
\* way of the next one, neither a machine nor what is on it.
Recovers ==
  /\ request = [name |-> "packaged", replace |-> TRUE, clear |-> TRUE]
  /\ vms = Called("packaged")
  => <>(outcome = "done" \/ guest.bound = "half")
=============================================================================
