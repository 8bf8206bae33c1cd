SPECIFICATION FairSpec
CONSTANTS
  backup = backup
  restart = restart
  m1 = m1
  Task = {backup, restart}
  Scheduled = {backup}
  Manual = {m1}
  NoTask = NoTask
  MaxRuns = 3
  MaxFaults = 1
  MaxRestarts = 1
PROPERTIES HistoryHolds ShutdownDrains PromiseKept OverlapNeedsFault Settles
CHECK_DEADLOCK FALSE
