SPECIFICATION Spec
CONSTANTS
  Pairings <- MCPairings
  Sessions = 3
  Tensors = {"a", "b", "c", "d"}
  Shards = {1, 2, 4}
  OnDisk = {1, 2}
  Holds <- MCHolds
  WeightMap <- MCWeightMap
  Chunks = 1
  None = None
INVARIANTS
  TypeOK
  EveryShardOnce
  FirstShardWins
  MissingTensorsAreMissing
  TheRealFailureIsReported
  NoNeedlessAbort
PROPERTIES
  TheReadEnds
CHECK_DEADLOCK FALSE
