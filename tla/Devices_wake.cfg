SPECIFICATION MCSpec
CONSTANTS
  u1 = u1
  u2 = u2
  u3 = u3
  UsbCallers <- Callers3
  NoThread = NoThread
  Offsets <- FewOffsets
  MaxLate = 3
  MaxAhead = 3
  None = None
  Half = 2
  RingSize = 4
  Chunk = 2
  MaxStream = 5
  MaxLen = 2
  Depth = 2
  MaxUntold = 3
  Main = Main
  th1 = th1
  th2 = th2
  o1 = o1
  o2 = o2
  Nobody = Nobody
  Threads <- ThreeThreads
  Objs <- TwoObjs
INVARIANTS
  NoStaleMatch
