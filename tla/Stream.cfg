SPECIFICATION FairSpec
CONSTANTS
  Clients = {k1, k2}
  Calls = {1, 2}
  NoCall = 0
  MaxSubs = 1
  QueueSize = 2
INVARIANTS
  TypeOK
  InSync
PROPERTIES
  BannerClears
CHECK_DEADLOCK FALSE
