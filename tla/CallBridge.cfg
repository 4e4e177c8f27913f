SPECIFICATION BridgeSpec
CONSTANTS
  Calls = {c1, c2}
  NoCall = NoCall
  Legacy = {}
  MaxConcurrent = 2
  MaxDials = 1
  MaxBridged = 0
  MaxOutages = 0
  MaxRestarts = 1
  QueueSize = 2
  MaxEnded = 1
SYMMETRY Symmetry
INVARIANT
  CloudAgrees
PROPERTY
  NoRingAfterEnd
CHECK_DEADLOCK FALSE
