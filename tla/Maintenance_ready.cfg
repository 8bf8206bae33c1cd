SPECIFICATION MaintenanceSpec
CONSTANTS
  Admins = {"ann"}
  Sizes = {30}
  SetLists <- VendorSets
  MaxApplies = 1
  MaxEdits = 1
  MaxRestarts = 1
  MaxCommands = 1
  MaxFaults = 0
  Callers = {"backup"}
  MaxDumps = 1
  MaxPrunes = 1
PROPERTY RestartedMeansReady
CHECK_DEADLOCK FALSE
