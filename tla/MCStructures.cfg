SPECIFICATION StructureSpec
CONSTANTS
  f1 = f1
  f2 = f2
  f3 = f3
  f4 = f4
  s1 = s1
  s2 = s2
  m1 = m1
  m2 = m2
  e1 = e1
  e2 = e2
  e3 = e3
  SchedFibers = {f1, f2, f3, f4}
  CompletedMax = 2
  CompletedTarget = 1
  MaxMarks = 2
  Priorities = {1, 2}
  NewPriorities = {3}
  AgeEvery = 2
  AgeCap = 3
  MaxAway = 2
  StealFibers = {s1, s2}
  NumWorkers = 3
  Fibers = {m1, m2}
  histogramBounds <- Bounds
  Durations = {0, 2, 4}
  maxCompletedTracked = 1
  Events = {e1, e2, e3}
  NoEvent = NoEvent
  Capacity = 4
SYMMETRY Interchangeable
INVARIANTS
  
  LifetimeExact
  DriftBounded
  IndexIsPosition
  
PROPERTIES
  PolicyKept
  IsEventLog
