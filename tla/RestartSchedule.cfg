SPECIFICATION Spec
CONSTANTS
  Slots = {4, 10, 30}
  Lead = 3
  Cooldown = 5
  MaxSkew = 1
  MaxTime = 10
  MaxNotices = 1
  MaxFaults = 1
  MaxSteps = 1
  MaxCrashes = 1
PROPERTIES OncePerSlot NoSlotLost Announced
CHECK_DEADLOCK FALSE
