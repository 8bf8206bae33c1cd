SPECIFICATION MaintenanceSpec
CONSTANTS
  Admins = {"ann", "bob"}
  Sizes = {10, 30}
  SetLists <- VendorSets
  MaxApplies = 3
  MaxEdits = 1
  MaxRestarts = 2
  MaxCommands = 3
  MaxFaults = 1
  Callers = {"backup", "update-apply"}
  MaxDumps = 2
  MaxPrunes = 1
INVARIANTS WishHolds ScreenFresh DiagnosisKept ProfileHolds
PROPERTIES PruneSpares
CHECK_DEADLOCK FALSE
