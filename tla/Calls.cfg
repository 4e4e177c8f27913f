SPECIFICATION Spec
CONSTANTS
  c1 = c1
  c2 = c2
  NoCall = NoCall
  Calls <- TwoCalls
  Legacy <- OnlyC2
  MaxConcurrent = 2
  MaxDials = 2
  MaxBridged = 1
  MaxOutages = 2
  MaxRestarts = 1
CHECK_DEADLOCK FALSE
INVARIANTS
  TypeOK
  RegistrationsAccounted
  AnnouncementsAccounted
PROPERTY
  NoAnswerAfterEnd
