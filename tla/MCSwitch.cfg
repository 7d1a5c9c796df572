SPECIFICATION LiveSpec
CONSTANTS
  A = A
  B = B
  p1 = p1
  p2 = p2
  NoVault = NoVault
  NoKey = NoKey
  Vaults <- TwoVaults
  Paths <- OnePath
  UserMoves = {}
  FaultKinds = {"save", "crash", "item", "conn"}
  MaxFaults = 2
  MaxSwitches = 2
CHECK_DEADLOCK FALSE
INVARIANTS BaseBelongs ResolutionHonoured KeyTellsTruth
PROPERTIES SwitchCompletes
