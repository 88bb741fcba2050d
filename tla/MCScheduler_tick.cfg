SPECIFICATION Spec
CONSTANTS
  MaxPid = 2
  MaxSchedules = 2
  Scans = {1}
  UnderSystemd = TRUE
  MaxDue = 2
  MaxEdits = 2
  MaxFaults = 1
CHECK_DEADLOCK FALSE
INVARIANTS StatusNamesTheScheduler LockFreeWhileRunning
PROPERTIES NoRefire DueRuns
