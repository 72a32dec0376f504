SPECIFICATION SyncSpec
CONSTANTS
  Fibers = {f1, f2, f3, f4}
  ChannelFibers = {f1, f2, f3}
  f1 = f1
  f2 = f2
  f3 = f3
  f4 = f4
  NoFiber = NoFiber
  PermitCounts = {0, 2}
  MaxSignals = 3
  MaxInt = 3
  MaxDelta = 3
  MaxMeetings = 2
  Capacities = {0, 1}
  MaxSends = 3
INVARIANTS
  NobodyForgotten
  OwnershipExact
  ValuesExact
PROPERTIES
  HandedOverInOrder
  ReturnMeansZero
  IsBoundedFifo
  WaitersSucceed
  CloseReleases
CHECK_DEADLOCK FALSE
