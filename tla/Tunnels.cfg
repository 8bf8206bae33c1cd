SPECIFICATION Spec
CONSTANTS
  MaxForwarders = 2
  MaxConns = 1
  MaxOutages = 1
  MaxCalls = 3
  MaxPresses = 3
INVARIANTS
  NothingOrphaned
  ScreenTruthful
PROPERTY CommandsAnswered
CHECK_DEADLOCK FALSE
