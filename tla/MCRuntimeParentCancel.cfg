SPECIFICATION FairSpec
CONSTANTS
  Fibers = {f1}
  f1 = f1
  NoFiber = NoFiber
  NumWorkers = 1
  FiberCaps = {0}
  ResultCapacity = 1
  ParentCancellable = TRUE
  MaxEpochs = 1
  MaxResets = 0
PROPERTY
  CancelledMeansStopped
CHECK_DEADLOCK FALSE
