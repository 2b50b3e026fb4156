SPECIFICATION FairSpec
CONSTANTS
  TLV_HEADER_LENGTH = 2
  MAX_TLV_LENGTH = 2
  Lengths = {0, 1, 3}
  MaxMessages = 3
  SendSpace = 4
  SendApis = {"Send2"}
CHECK_DEADLOCK FALSE
INVARIANT AnsweredAtRest
PROPERTIES
  EveryMessageAnswered
  EndCloses
  HalfCloseAnswered
