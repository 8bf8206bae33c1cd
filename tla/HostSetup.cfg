SPECIFICATION HSpec
CONSTANTS
  Flows = {"native", "vendor", "ubuntu"}
  MaxSteam = 2
  MaxPlans = 2
  MaxFaults = 2
  MaxVms = 4
  MaxBuild = 2
  MaxTroubles = 2
INVARIANTS
  TagsRunnable
  WorldsAccounted
  DoneMeansReady
  MachinesWhole
  VerifiedIsRunning
PROPERTY Recovers
CHECK_DEADLOCK FALSE
