SPECIFICATION ProgressSpec
CONSTANTS
  f1 = f1
  f2 = f2
  p1 = p1
  p2 = p2
  p3 = p3
  Fibers = {f1, f2}
  NumWorkers = 1
  Timeouts = {1, 2}
  MaxHistory = 2
  PrioFibers = {p1, p2, p3}
  Priorities = {1, 3}
  AgeEvery = 2
  AgeCap = 3
  StealFibers = {p1, p2}
  StealWorkers = 2
INVARIANTS
  HistoryKept
PROPERTIES
  PatientSuspicion
  StuckIsReported
  QueuedGetsTurn
