SPECIFICATION Spec
CONSTANTS
  f1 = f1
  f2 = f2
  P = P
  Q = Q
  Files <- TwoFiles
  Points <- TwoPoints
  Kinds = {"own", "shared"}
  BulkMin = 2
  PushFloor = 1
  MaxFails = 2
  MaxRetries = 2
  RacyMoves = {}
  FaultKinds = {"crash", "reset", "file", "conn"}
  MaxFaults = 2
  MaxEdits = 3
  MaxMoves = 1
  MaxDeletes = 1
  MaxEvents = 4
SYMMETRY Alike
INVARIANTS SourceSpared NoEditLost MountComplete NoSilentEdit
PROPERTIES PrimarySpared
CHECK_DEADLOCK FALSE
