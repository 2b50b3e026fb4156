SPECIFICATION Spec
CONSTANTS
  TLV_HEADER_LENGTH = 2
  MAX_TLV_LENGTH = 2
  Lengths = {0, 2, 3}
  MaxMessages = 3
  SendSpace = 3
  SendApis = {"Send", "Send2", "SendWithTwoSysCall"}
CHECK_DEADLOCK FALSE
INVARIANTS
  TypeOK
  EchoInOrder
  InStep
PROPERTY ImplementsEcho
