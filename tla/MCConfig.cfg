SPECIFICATION LiveSpec
CONSTANTS
  code = code
  data = data
  list = list
  P = P
  R = R
  none = none
  Files <- MCFiles
  List = list
  Plugins = {P, R}
  Owner <- MCOwner
  NoPlugin = none
  Code = {code}
  RacyMoves = {}
  FaultKinds = {"lock", "conn", "restart"}
  MaxFaults = 1
  MaxEdits = 2
  MaxDeletes = 1
  MaxMoves = 1
  MaxEvents = 3
INVARIANTS NoSilentLoss UntickSticks
PROPERTIES PluginsKept ListTellsTruth
CHECK_DEADLOCK FALSE
