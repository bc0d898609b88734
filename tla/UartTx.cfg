SPECIFICATION FairSpec
CONSTANTS
  TxBuf = 3
  FifoSize = 2
  MaxBytes = 9
INVARIANTS
  InOrder
PROPERTIES
  WriteReturns
  ImplementsChannel
CHECK_DEADLOCK FALSE
