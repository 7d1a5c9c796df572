SPECIFICATION LiveSpec
CONSTANTS
  Paths = {1, 2}
  NoPath = 0
  Classes = {"retrying", "blocked"}
  Troubles = {"error"}
  MaxEdits = 2
  MaxFaults = 1
  MaxLate = 1
INVARIANTS WarnsAtOnce GreenIsTrue HoldEnds
PROPERTIES Settles
