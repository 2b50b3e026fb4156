SPECIFICATION Spec
CONSTANTS
  Bytes = {a, b}
  Nul = Nul
  DEFAULT_INIT_SIZE = 2
  Messages <- MCMessages
  MaxLen = 3
  MaxIndex = 6
SYMMETRY Symmetry
INVARIANT IndicesOK
PROPERTY IsByteQueue
