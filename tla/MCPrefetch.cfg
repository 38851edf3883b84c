SPECIFICATION FairLayerSpec
CONSTANTS
  r1 = r1
  r2 = r2
  b1 = b1
  NoBody = NoBody
  Readers <- MCReaders
  Bodies <- MCBodies
  solver_count = 2
  Capacity = 1
  Records = 3
  PREFETCH_COUNT = 2
  batch_size = 2
CHECK_DEADLOCK FALSE
INVARIANT BatchesGoRound
PROPERTIES
  ForwardInOrder
  LayerDestroyed
  ForwardReturns
