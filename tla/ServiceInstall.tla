--------------------------- MODULE ServiceInstall ---------------------------
(***************************************************************************)
(* The desktop application installs, upgrades, restarts and removes the    *)
(* daemon on a server over SSH.  An installation is a sequence of scripts, *)
(* one failing script ends it where it is; another window, or another      *)
(* administrator, may restart or remove the service meanwhile.             *)
(*                                                                         *)
(* Builds of the daemon are numbers.  systemd and OpenRC are external:     *)
(* `enable --now` leaves a running process alone, OpenRC's restart does    *)
(* not, and a process that dies is started again from the file.            *)
(***************************************************************************)
EXTENDS Naturals, Sequences

CONSTANTS
  MaxBuild,    \* bound: builds of the application
  MaxTroubles  \* bound: failing scripts, and commands of another window

ASSUME ServiceAssumption == MaxBuild \in Nat \ {0} /\ MaxTroubles \in Nat

VARIABLES
  init,      \* "systemd" or "openrc"
  bundled,   \* the build this application carries: BUNDLED_VERSION
  inst,      \* the script under way, "idle" outside
  file,      \* the build in /opt/dune-server-service, 0: none
  unit,      \* the unit or init script is there
  proc,      \* the build that runs, 0: none
  report,    \* ManagementInstallResult: the version said to run, 0: none
  kept,      \* an old process outlived its stop, or was started anew before
             \* the binary was replaced
  troubles

serviceVars == <<init, bundled, inst, file, unit, proc, report, kept, troubles>>

Build == 1..MaxBuild

InstallSteps ==
  <<"stop-old", "prepare-host", "upload-binary", "write-token", "install-init",
    "start-service", "verify">>

ServiceTypeOK ==
  /\ init \in {"systemd", "openrc"} /\ bundled \in Build
  /\ inst \in {InstallSteps[i] : i \in DOMAIN InstallSteps} \cup {"idle"}
  /\ file \in Build \cup {0} /\ proc \in Build \cup {0} /\ report \in Build \cup {0}
  /\ unit \in BOOLEAN /\ kept \in BOOLEAN /\ troubles \in 0..MaxTroubles

ServiceInit ==
  /\ init \in {"systemd", "openrc"} /\ bundled = 1
  /\ inst = "idle" /\ file = 0 /\ unit = FALSE /\ proc = 0
  /\ report = 0 /\ kept = FALSE /\ troubles = 0

Following(s) ==
  LET i == CHOOSE j \in DOMAIN InstallSteps : InstallSteps[j] = s
  IN  IF i = Len(InstallSteps) THEN "idle" ELSE InstallSteps[i + 1]

Runs(s) ==
  /\ inst = s /\ inst' = Following(s)
  /\ UNCHANGED <<init, bundled>>

Trouble == troubles < MaxTroubles /\ troubles' = troubles + 1

-----------------------------------------------------------------------------
\* The account `dune` has been found, or nothing is begun.
BeginInstall ==
  /\ inst = "idle"
  /\ inst' = InstallSteps[1]
  /\ report' = 0 /\ kept' = FALSE
  /\ UNCHANGED <<init, bundled, file, unit, proc, troubles>>

\* Every command of the script ends in `|| true`.
StopOld ==
  /\ Runs("stop-old")
  /\ \/ proc' = 0 /\ UNCHANGED <<kept, troubles>>
     \/ proc # 0 /\ Trouble /\ kept' = TRUE /\ UNCHANGED proc
  /\ UNCHANGED <<file, unit, report>>

PrepareHost ==
  Runs("prepare-host") /\ UNCHANGED <<file, unit, proc, report, kept, troubles>>

\* To a temporary file first, which is counted.
UploadBinary ==
  /\ Runs("upload-binary")
  /\ file' = bundled
  /\ UNCHANGED <<unit, proc, report, kept, troubles>>

WriteToken ==
  Runs("write-token") /\ UNCHANGED <<file, unit, proc, report, kept, troubles>>

InstallInit ==
  /\ Runs("install-init")
  /\ unit' = TRUE
  /\ UNCHANGED <<file, proc, report, kept, troubles>>

\* Mutant of StartService: OpenRC only starts what does not run.
StartOnly ==
  /\ Runs("start-service")
  /\ unit /\ file # 0
  /\ proc' = IF proc # 0 THEN proc ELSE file
  /\ kept' = (kept /\ init = "systemd" /\ proc # 0)
  /\ UNCHANGED <<file, unit, report, troubles>>

\* systemctl enable --now; rc-service restart, or else start.
StartService ==
  /\ Runs("start-service")
  /\ unit /\ file # 0
  /\ proc' = IF init = "systemd" /\ proc # 0 THEN proc ELSE file
  /\ kept' = (kept /\ init = "systemd" /\ proc # 0)
  /\ UNCHANGED <<file, unit, report, troubles>>

\* The state of the unit, and the version the FILE says of itself.
Verify ==
  /\ Runs("verify")
  /\ report' = IF proc # 0 THEN file ELSE 0
  /\ UNCHANGED <<file, unit, proc, kept, troubles>>

\* A script fails, or takes effect and its answer is lost; a service without a
\* unit or a binary does not start.
InstallFails ==
  /\ inst \notin {"idle"}
  /\ inst = "start-service" /\ (~unit \/ file = 0) => UNCHANGED troubles
  /\ ~(inst = "start-service" /\ (~unit \/ file = 0)) => Trouble
  /\ inst' = "idle" /\ report' = 0
  /\ \/ UNCHANGED <<file, unit, proc>>
     \/ inst = "upload-binary" /\ file' = bundled /\ UNCHANGED <<unit, proc>>
     \/ inst = "stop-old" /\ proc' = 0 /\ UNCHANGED <<file, unit>>
  /\ UNCHANGED <<init, bundled, kept>>

\* From another window: restart_management_service.
RestartService ==
  /\ unit /\ file # 0 /\ Trouble
  /\ proc' = file
  /\ kept' = (kept \/ inst \in {"stop-old", "prepare-host", "upload-binary"})
  /\ UNCHANGED <<init, bundled, inst, file, unit, report>>

\* uninstall_management_service: the stop may fail unseen.
UninstallService ==
  /\ file # 0 /\ Trouble
  /\ file' = 0 /\ unit' = FALSE /\ report' = 0
  /\ proc' \in {0, proc}
  /\ kept' = (kept \/ proc' # 0)
  /\ UNCHANGED <<init, bundled, inst>>

\* Restart=on-failure: from the file.
Respawn ==
  /\ proc # 0 /\ proc # file
  /\ proc' = IF unit THEN file ELSE 0
  /\ UNCHANGED <<init, bundled, inst, file, unit, report, kept, troubles>>

\* The application is updated.
NewBuild ==
  /\ bundled < MaxBuild /\ inst = "idle"
  /\ bundled' = bundled + 1
  /\ UNCHANGED <<init, inst, file, unit, proc, report, kept, troubles>>

\* The connection is lost in the middle of a script, which exec_capture takes for
\* success: what it was to do may be done or not, and the next script is sent.
\* An empty answer to the last one says of no version that it runs.
ScriptCutOff ==
  /\ inst \notin {"idle", "stop-old"} /\ Runs(inst)
  /\ inst = "start-service" => unit /\ file # 0
  /\ Trouble
  /\ file' \in {file} \cup (IF inst = "upload-binary" THEN {bundled} ELSE {})
  /\ unit' \in {unit, unit \/ inst = "install-init"}
  /\ proc' \in {proc} \cup (IF inst = "start-service" THEN {0, file} ELSE {})
  /\ UNCHANGED <<report, kept>>

ServiceStep ==
  \/ BeginInstall \/ StopOld \/ PrepareHost \/ UploadBinary \/ WriteToken \/ InstallInit
  \/ StartService \/ Verify \/ InstallFails \/ RestartService \/ UninstallService
  \/ ScriptCutOff \/ Respawn \/ NewBuild

-----------------------------------------------------------------------------
\* What the installation reports as active, with its version, is the process
\* that runs, unless an old process outlived the stop, whose errors are ignored,
\* or was started again before the upload, and the start, under systemd or cut
\* off, has left it alone.
VerifiedIsRunning == report # 0 => report = proc \/ kept
=============================================================================
