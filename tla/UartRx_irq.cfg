SPECIFICATION Spec
CONSTANTS
  b1 = b1
  b2 = b2
  i1 = i1
  i2 = i2
  Nil = Nil
  Bufs <- TwoBufs
  Irqs <- TwoIrqs
  RxBuf = 1
  MaxSent = 2
  MaxRead = 1
SYMMETRY Symmetry
INVARIANTS
  IrqNeedsNoReference
