SPECIFICATION LiveSpec
CONSTANTS
  d1 = d1
  d2 = d2
  p1 = p1
  p2 = p2
  Devices <- TwoDevices
  Paths <- OnePath
  HoldAbove = 0
  MaxRetries = 2
  RacySteps = {}
  FaultKinds = {"write"}
  MaxFaults = 1
  MaxChanges = 3
  MaxEdits = 2
  MaxDeletes = 1
INVARIANTS CursorSound
PROPERTIES Converges
