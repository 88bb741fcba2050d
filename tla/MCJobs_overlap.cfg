SPECIFICATION Spec
CONSTANTS
  MaxJobs = 1
  MaxLimit = 1
  DefaultLimit = 1
  UnderSystemd = TRUE
  MaxSaves = 0
  MaxFaults = 0
  MaxUpsets = 1
INVARIANTS
  RunsNeverOverlap
