SPECIFICATION OneRunSpec
CONSTANTS
  Fibers = {f1, f2}
  f1 = f1
  f2 = f2
  NoFiber = NoFiber
  NumWorkers = 2
  FiberCaps = {0}
  ResultCapacity = 1
  ParentCancellable = FALSE
  MaxEpochs = 1
  MaxResets = 0
INVARIANTS
  SuccessIsOwned
PROPERTIES
  AdmittedCompletes
  LifecycleReturns
CHECK_DEADLOCK FALSE
