SPECIFICATION Spec
CONSTANTS
  a1 = a1
  a2 = a2
  Account = {a1, a2}
  Nobody = Nobody
  MaxFaults = 1
  MaxCrashes = 0
  MaxRetries = 1
INVARIANT RetryIsSafe
