SPECIFICATION MCSpec
CONSTANTS
  x = x
  y = y
  f = f
  g = g
  Ids <- TwoIds
  TX_EMPTY = TX_EMPTY
  QueueLen = 3
  Filters = {0, 1}
  Frames <- TwoFrames
  FifoDepth = 2
INVARIANTS
  SlotAgrees
  FilterReceives
  StateReported
PROPERTIES
  QueueDrains
