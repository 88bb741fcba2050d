SPECIFICATION Spec
CONSTANTS
  Guests = {g1}
  Machines = {g1, m1}
  HostIds = {h1, h2}
  Names = {a, b}
  Scanners = {s1}
  MaxRows = 3
  NoName = NoName
  Idle = Idle
INVARIANTS OneQuestionPerMachine IgnoredStaysQuiet
PROPERTIES DecisionsStick
SYMMETRY Symmetry
