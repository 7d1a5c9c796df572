SPECIFICATION Spec
CONSTANTS
  d1 = d1
  d2 = d2
  p1 = p1
  p2 = p2
  Devices <- TwoDevices
  Paths <- OnePath
  HoldAbove = 9
  MaxRetries = 2
  RacySteps = {}
  FaultKinds = {"unreadable", "hidden", "write", "conn", "lostReply", "transfer", "crash"}
  MaxFaults = 1
  MaxChanges = 3
  MaxEdits = 3
  MaxDeletes = 1
SYMMETRY Alike
INVARIANTS TypeOK NoLostEdit CursorSound
PROPERTIES ServerKeeps
