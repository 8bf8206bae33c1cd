SPECIFICATION FairSpec
CONSTANTS
  MaxBuild = 3
  Lead = 3
  Retry = 2
  Orphan = 1
  ManifestReadable = TRUE
  MaxFailures = 2
  MaxCrashes = 2
  MaxManual = 1
INVARIANT NotBeforePromise
PROPERTIES RowTruthful NoIdleUpdate Settles
CHECK_DEADLOCK FALSE
