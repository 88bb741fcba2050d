SPECIFICATION Spec
CONSTANTS
  h1 = h1
  MaxRuns = 3
  Hosts = {h1}
  Pool = 2
  SchedulerOn = TRUE
  UnderSystemd = TRUE
  MaxFaults = 1
INVARIANTS HighestIdWins StateMatchesLog PanelRunsInOrder TimelineExplainsState
