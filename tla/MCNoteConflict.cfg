SPECIFICATION LiveSpec
CONSTANTS
  Modals = {1, 2}
  Stamps = {2}
  RacyMoves = {}
  FaultKinds = {"read", "write", "remove"}
  MaxFaults = 1
  MaxEdits = 3
INVARIANTS NoUnseenLoss
PROPERTIES SweepSafe ResolutionEnds
