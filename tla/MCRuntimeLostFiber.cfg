SPECIFICATION Spec
CONSTANTS
  Fibers = {f1}
  f1 = f1
  NoFiber = NoFiber
  NumWorkers = 1
  FiberCaps = {0}
  ResultCapacity = 1
  ParentCancellable = FALSE
  MaxEpochs = 2
  MaxResets = 0
INVARIANT
  SuccessIsOwned
CHECK_DEADLOCK FALSE
