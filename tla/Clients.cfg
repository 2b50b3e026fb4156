SPECIFICATION FairSpec
CONSTANTS
  Threads = {t1, t2}
  observed = t1
  REQUESTS_PER_THREAD = 3
  TLV_HEADER_LENGTH = 1
  Sizes = {0, 2}
CHECK_DEADLOCK FALSE
INVARIANTS
  TypeOK
  CountsOwnAnswers
  SocketsClosed
  TotalIsComplete
PROPERTY TestEnds
