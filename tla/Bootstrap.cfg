SPECIFICATION Spec
CONSTANTS
  Entrances = {e1, e2}
  Devices = {d1}
  Apartments = {a1}
  Plates = {p1}
  None = none
  Absent = absent
  MaxCloudEdits = 3
  MaxMoves = 2
  MaxTroubles = 2
SYMMETRY EntranceSymmetry
INVARIANTS
  TypeOK
  CloudOwnedFollows
  PlacementsAgree
CHECK_DEADLOCK FALSE
