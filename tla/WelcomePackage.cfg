SPECIFICATION FairSpec
CONSTANTS
  a1 = a1
  a2 = a2
  Account = {a1, a2}
  Nobody = Nobody
  MaxFaults = 2
  MaxCrashes = 1
  MaxRetries = 2
INVARIANT DuplicateNeedsFault
PROPERTIES PromiseKept EventuallyHandled
