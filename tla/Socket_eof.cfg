SPECIFICATION MCSpec
CONSTANTS
  o1 = o1
  o2 = o2
  th1 = th1
  th2 = th2
  None = None
  Objs <- TwoObjs
  Threads <- TwoThreads
  Environments <- TwoReaders
  NFds = 2
  Polls = 1
  s1 = s1
  s2 = s2
  s3 = s3
  Nil = Nil
  Socks <- ThreeSocks
  Divisor = 2
  Wrap = 5
  MaxOps = 2
PROPERTIES
  EveryRecvReturns
