SPECIFICATION FairSpec
CONSTANTS
  Exts = {e1, e2}
  Passwords = {p1, p2}
  None = none
  Admins = {u1}
  Cloud = cloud
  Startup = startup
  MaxRequests = 4
  MaxFaults = 1
  MaxRestarts = 1
INVARIANTS
  TypeOK
  FileFollowsRows
PROPERTIES
  NoResurrection
  FileGetsLoaded
CHECK_DEADLOCK FALSE
