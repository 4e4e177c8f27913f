SPECIFICATION CommandsSpec
CONSTANTS
  c1 = c1
  c2 = c2
  d1 = d1
  d2 = d2
  Calls <- TwoCalls
  Devices <- TwoPanels
  PanelOf <- OwnPanel
  Phones = {p1}
  NoCall = nocall
  NoPhone = nophone
  NoDevice = nodevice
  Panel = panel
  Cloud = cloud
  Operator = operator
  MaxPolls = 1
  MaxMishaps = 1
INVARIANTS
  CommandsTypeOK
  RejectEndsCall
  NoFalseSuccess
  CallersDoor
CHECK_DEADLOCK FALSE
