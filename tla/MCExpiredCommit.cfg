SPECIFICATION LiveSpec
CONSTANTS
  p1 = p1
  p2 = p2
  NoPath = NoPath
  Paths <- OnePath
  Errors = {}
  FaultKinds = {"expiry", "expiryInPush"}
  MaxFaults = 1
  MaxEdits = 1
  Commands = {}
  MaxCommands = 0
PROPERTY SoundEditsReachServer
CHECK_DEADLOCK FALSE
