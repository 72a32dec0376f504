\* A reader whose writer gave up.
SPECIFICATION SyncSpec
CONSTANTS
  Fibers = {f1, f2, f3}
  ChannelFibers = {f1}
  f1 = f1
  f2 = f2
  f3 = f3
  NoFiber = NoFiber
  PermitCounts = {0, 2}
  MaxSignals = 4
  MaxInt = 4
  MaxDelta = 3
  MaxMeetings = 2
  Capacities = {0, 1}
  MaxSends = 1
INVARIANT ReaderWaitsForWriter
CHECK_DEADLOCK FALSE
