SPECIFICATION FairSpec
CONSTANTS
  TLV_HEADER_LENGTH = 2
  MAX_TLV_LENGTH = 2
  Lengths = {0, 1}
  MaxMessages = 2
  SendSpace = 2
  SendApis = {"Send"}
CHECK_DEADLOCK FALSE
PROPERTY ReceivedMessageHandled
