SPECIFICATION GroupSpec
CONSTANTS
  Fibers = {f1, f2}
  f1 = f1
  f2 = f2
  NoFiber = NoFiber
  NumWorkers = 2
  FiberCaps = {0}
  ResultCapacity = 2
  ParentCancellable = FALSE
  MaxEpochs = 1
  MaxResets = 0
  StopOverlaps = TRUE
SYMMETRY FiberSymmetry
PROPERTY
  WaitMeansFinished
CHECK_DEADLOCK FALSE
