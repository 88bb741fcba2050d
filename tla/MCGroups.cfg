SPECIFICATION SaveSpec
CONSTANTS
  MaxGroups = 3
  Hosts = {h1}
  h1 = h1
INVARIANTS
  GraphIsAcyclic
  SpecificGroupWins
  TargetsMatchOverlays
PROPERTIES
  ImplementsRoutes
