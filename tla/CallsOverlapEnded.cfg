SPECIFICATION Spec
CONSTANTS
  c1 = c1
  c2 = c2
  NoCall = NoCall
  Calls <- TwoCalls
  Legacy <- None
  MaxConcurrent = 2
  MaxDials = 1
  MaxBridged = 0
  MaxOutages = 0
  MaxRestarts = 0
CHECK_DEADLOCK FALSE
INVARIANT ExactlyOneCallEnded
