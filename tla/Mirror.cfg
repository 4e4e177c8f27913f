SPECIFICATION FairSpec
CONSTANTS
  Apartments = {a1}
  Devices = {d1}
  Codes = {c1}
  Admins = {u1, u2}
  Resync = resync
  NoRow = none
  MaxVersion = 2
  MaxEdits = 2
  MaxTroubles = 1
INVARIANTS
  TypeOK
  UnackedStaysDirty
  SyncedMeansMirrored
PROPERTY
  EditReachesCloud
CHECK_DEADLOCK FALSE
