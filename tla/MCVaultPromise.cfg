SPECIFICATION Spec
CONSTANTS
  c1 = c1
  c2 = c2
  h1 = h1
  h2 = h2
  none = none
  Paths = {1, 2}
  UnsafePaths = {}
  Fold <- MCFold
  Contents <- MCContents
  NoContent = none
  SizeOf <- MCSizeOf
  Chunks <- MCChunks
  ChunksOf <- MCChunksOf
  PruneFloors = {}
  Forces = {TRUE, FALSE}
  FaultKinds = {"crash", "mirrorFail", "hwmFail", "hostEdit"}
  MaxFaults = 3
  MaxVersion = 4
PROPERTY ImplementsPromise
