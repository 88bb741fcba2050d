SPECIFICATION Spec
CONSTANTS
  MaxJobs = 2
  MaxLimit = 2
  DefaultLimit = 1
  UnderSystemd = TRUE
  MaxSaves = 1
  MaxFaults = 0
  MaxUpsets = 1
INVARIANTS
  EverySlotHasCoroutine
