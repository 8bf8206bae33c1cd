----------------------------- MODULE HostSetup -----------------------------
(***************************************************************************)
(* Everything the application does to a host before the daemon runs on it: *)
(* the virtual machine and the server (HyperVSetup, GuestSetup), then the  *)
(* daemon (ServiceInstall).  The daemon's account is that of the server:   *)
(* there is no installation before it is there.                            *)
(***************************************************************************)
EXTENDS HyperVSetup, ServiceInstall

hvars == <<vars, serviceVars>>

\* The packaged machine is an Alpine system, Ubuntu has systemd.
HInit ==
  /\ HostInit /\ ServiceInit
  /\ init = IF flow = "ubuntu" THEN "systemd" ELSE "openrc"

SetupTypeOK == HostTypeOK /\ ServiceTypeOK

\* discover_service_account: the account `dune` comes with the packaged machine,
\* and on Ubuntu with the packages.  A single administrator installs the daemon
\* once the server is set up.  Bound: as nothing of the installation depends on how
\* the server came about, only those after a setup without a fault are looked at.
HasAccount == outcome = "done" /\ faults = 0

HNext ==
  \/ Next /\ UNCHANGED serviceVars
  \/ HasAccount /\ ServiceStep /\ UNCHANGED vars

HSpec ==
  /\ HInit /\ [][HNext]_hvars
  /\ WF_hvars(Step /\ UNCHANGED serviceVars) /\ WF_hvars(Again /\ UNCHANGED serviceVars)
=============================================================================
