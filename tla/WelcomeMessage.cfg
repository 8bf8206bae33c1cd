SPECIFICATION MessageFairSpec
CONSTANTS
  a1 = a1
  a2 = a2
  Account = {a1, a2}
  Nobody = Nobody
  MaxFaults = 2
  MaxCrashes = 2
INVARIANT RepeatNeedsFault
PROPERTIES MessagePromiseKept EventuallyGreeted
