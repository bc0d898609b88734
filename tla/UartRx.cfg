SPECIFICATION Spec
CONSTANTS
  b1 = b1
  b2 = b2
  i1 = i1
  i2 = i2
  Nil = Nil
  Bufs <- TwoBufs
  Irqs <- TwoIrqs
  RxBuf = 2
  MaxSent = 4
  MaxRead = 2
SYMMETRY Symmetry
INVARIANTS
  NoUseAfterFree
  NothingLost
