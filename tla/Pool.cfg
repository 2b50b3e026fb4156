SPECIFICATION FairSpec
CONSTANTS
  thread_nums = 4
  MaxConns = 3
CHECK_DEADLOCK FALSE
INVARIANTS
  TypeOK
  LoopsLive
  Balanced
PROPERTY PoolStarts
