SPECIFICATION Spec
CONSTANTS
  Cameras = {d1}
  Plates = {p1}
  None = none
  Handlers = {h1, h2}
  Admins = {u1}
  Cloud = cloud
  MaxPasses = 3
  MaxEdits = 3
  MaxFailed = 2
  MaxRefused = 2
  MaxDrops = 1
  MaxRestarts = 1
INVARIANTS
  TypeOK
  RelayReleased
  PassesAccounted
CHECK_DEADLOCK FALSE
