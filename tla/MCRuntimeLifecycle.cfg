SPECIFICATION Spec
CONSTANTS
  Fibers = {f1, f2}
  f1 = f1
  f2 = f2
  NoFiber = NoFiber
  NumWorkers = 1
  FiberCaps = {0, 1}
  ResultCapacity = 1
  ParentCancellable = TRUE
  MaxEpochs = 2
  MaxResets = 1
SYMMETRY FiberSymmetry
INVARIANTS
  IInv
  CountExact
  StoppedIsQuiet
  ReapedNeverRuns
  SlotsExact
  CapHolds
CHECK_DEADLOCK FALSE
