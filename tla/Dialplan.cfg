SPECIFICATION Spec
CONSTANTS
  Codes = {c1, c2}
  Exts = {e1, e2}
  Targets <- AnyRules
  None = none
  NoExten = noexten
  Torn = torn
  Admins = {u1}
  Cloud = cloud
  MaxRequests = 3
  MaxFaults = 2
SYMMETRY Interchangeable
INVARIANTS
  TypeOK
  LoadedIsFile
  RingsMonitors
CHECK_DEADLOCK FALSE
