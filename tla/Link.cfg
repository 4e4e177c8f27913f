SPECIFICATION FairSpec
CONSTANTS
  Commands = {1, 2}
  NoCommand = 0
  Rotations = {1}
  Unknown = {2}
  QueueSize = 2
  MaxBackoff = 4
  MaxEvents = 1
  MaxTroubles = 1
INVARIANTS
  TypeOK
  StaleRingNeverDelivered
  RepliesInOrder
PROPERTIES
  FifoSpec
  QueuedIsDelivered
  NeverOlderToken
CHECK_DEADLOCK FALSE
