SPECIFICATION HistorySpec
CONSTANTS
  c1 = c1
  c2 = c2
  h1 = h1
  h2 = h2
  none = none
  Paths = {1, 2}
  UnsafePaths = {}
  Fold <- MCFold
  Contents <- MCContents
  NoContent = none
  SizeOf <- MCSizeOf
  Chunks <- MCChunks
  ChunksOf <- MCChunksOf
  PruneFloors = {2, 3, 9}
  Forces = {TRUE, FALSE}
  FaultKinds = {"dbCorrupt", "mirrorFail", "chunkLost", "hostEdit"}
  MaxFaults = 2
  MaxVersion = 5
INVARIANTS NoRewind HistoryComplete
