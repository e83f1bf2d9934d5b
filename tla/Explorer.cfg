SPECIFICATION Spec
CONSTANTS
  Checkpoints = {"one", "two"}
  Names = {"a", "b"}
  TensorsOf <- MCTensorsOf
  Views = {"stored", "bf16"}
  StoredView = "stored"
  Warm = TRUE
  Blocks = 1
  Workers = {w1, w2, w3}
  None = None
  MaxInputs = 3
  MaxHistory = 3
  MaxEpoch = 1
INVARIANTS
  TypeOK
  LoadedIsCurrent
  ScansLandWhereTheyBelong
  OnlyWantedScansRun
PROPERTIES
  EveryScanEnds
  AbandonedScansStop
  SomeScreenShows
CHECK_DEADLOCK FALSE
