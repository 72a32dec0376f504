SPECIFICATION MCSpec
CONSTANTS
  Conns = {c1, c2}
  c1 = c1
  c2 = c2
  MaxClients = 2
  SendBuffer = 1
  ShutdownTimesOut = TRUE
  Clients = {a, b}
  a = a
  b = b
  Operator = a
  Runtimes = {main, r1, r2}
  main = main
  r1 = r1
  r2 = r2
  Main = main
  Fibers = {f1, f2}
  f1 = f1
  f2 = f2
  NoFiber = NoFiber
  NoRuntime = NoRuntime
  Shutdowner = Shutdowner
  Nobody = Nobody
  MaxFibers = 1
  MaxCommands = 3
INVARIANTS
  SlotsKept
  ServerTypeOK
  ReplacedIsStopped
PROPERTIES
  BroadcastProceeds
  ShutdownEnds
  CommandsAnswered
  CountersCatchUp
CHECK_DEADLOCK FALSE
