SPECIFICATION FairSpec
CONSTANTS
  Pages = {p1}
  Limit = 2
  Keep = 1
  MaxJobs = 2
  MaxOut = 1
  MaxCrashes = 1
  MaxDrops = 1
  NoJob = NoJob
CHECK_DEADLOCK FALSE
INVARIANTS
  RecentLogsStored
  StoredLogsBounded
  StaticPagesAreOfEndedJobs
PROPERTIES
  ImplementsLogStream
  WatchersSeeTheEnd
