SPECIFICATION Spec
CONSTANTS
  c1 = c1
  c2 = c2
  h1 = h1
  h2 = h2
  none = none
  Paths = {1, 2, 3, 4}
  UnsafePaths = {4}
  Fold <- MCFold
  Contents <- MCContents
  NoContent = none
  SizeOf <- MCSizeOf
  Chunks <- MCChunks
  ChunksOf <- MCChunksOf
  PruneFloors = {3}
  Forces = {TRUE, FALSE}
  FaultKinds = {"crash", "mirrorFail", "hwmFail", "ioFail", "dbCorrupt", "dbMissing", "chunkLost", "hostEdit"}
  MaxFaults = 2
  MaxVersion = 4
PROPERTY NoNewDangling
INVARIANTS LiveOrDeleted VersionsOrdered FloorBelowVersion FoldsDistinct
