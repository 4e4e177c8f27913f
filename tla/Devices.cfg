SPECIFICATION DevicesFairSpec
CONSTANTS
  Devs = {1, 2}
  Panels = {1}
  Passwords = {w1, w2}
  Special = {w2}
  NoValue = none
  MaxRequests = 2
  MaxTrouble = 1
INVARIANTS
  DevicesTypeOK
  AppliedAgrees
PROPERTIES
  RequestsEnd
  StatusConverges
CHECK_DEADLOCK FALSE
