CONSTANTS
  Solvers = {0, 1, 2, 3}
  Trees <- MCTrees
  max_iter = 2
  iter_size = 2
  test_interval = 2
  test_iter = 1
  snapshot_interval = 2
  test_initialization = TRUE
  snapshot_after_train = TRUE
  SIGHUP_action_ = "SNAPSHOT"
  SIGINT_action_ = "STOP"
  MaxSignals = 1
  MaxCrashes = 1
SPECIFICATION MCSpec
INVARIANTS TreeSpans QueueOrder InStep SavedAtEnd
PROPERTIES EarlyExitIsFinal ImplementsTraining RunReturns
