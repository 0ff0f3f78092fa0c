CONSTANTS
  Queues = {in, out}
  InOrder = {in}
  UserEvents = {u1}
  MaxCommands = 3
  MaxList = 1
  NoQueue = NoQueue
SPECIFICATION Spec
INVARIANTS
  TypeOK
  RunsAfter
  FailureSpreads
PROPERTIES
  HopelessForever
  CallReturns
CHECK_DEADLOCK FALSE
