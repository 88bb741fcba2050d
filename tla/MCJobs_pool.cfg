SPECIFICATION FairSpec
CONSTANTS
  MaxJobs = 3
  MaxLimit = 2
  DefaultLimit = 2
  UnderSystemd = TRUE
  MaxSaves = 1
  MaxFaults = 1
  MaxUpsets = 1
INVARIANTS
  NoLostWakeup
  RowsMatchMemory
PROPERTIES
  CancelSticks
  StartsRespectLimit
  NoOvertaking
  ImplementsInterlock
  JobsSettle
  DrainRestarts
