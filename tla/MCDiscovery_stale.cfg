SPECIFICATION Spec
CONSTANTS
  Guests = {g1}
  Machines = {g1}
  HostIds = {h1}
  Names = {a, b, c}
  Scanners = {s1}
  MaxRows = 4
  NoName = NoName
  Idle = Idle
PROPERTIES PendingReflectsLive
