SPECIFICATION Spec
CONSTANTS
  Kinds = {"currency", "xp"}
  MaxGrants = 2
  MaxLogins = 1
  Callers = {"p", "q"}
  Channels = {"publish", "whisper"}
  CacheTtl = 2
  DetectTime = 1
  MaxClusters = 2
  MaxSaves = 2
  MaxKeys = 3
  MaxStarts = 2
INVARIANTS
  Conserved GrantsAsAnswered PublishedAsAsked CacheBounded RestartFlagTruthful SavesHold
CHECK_DEADLOCK FALSE
