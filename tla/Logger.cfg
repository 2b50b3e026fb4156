SPECIFICATION FairSpec
CONSTANTS
  Callers = {t1, t2}
  writer = writer
  max_size = 2
  MaxCalls = 2
CHECK_DEADLOCK FALSE
INVARIANTS
  TypeOK
  InCallOrder
  LateBounded
PROPERTIES
  LogSafety
  QueuedIsWritten
  LogReturns
