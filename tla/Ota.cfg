SPECIFICATION FairSpec
CONSTANTS
  s1 = s1
  s2 = s2
  main = main
  aux = aux
  Sessions <- TwoSessions
  Threads <- TwoThreads
  Main = main
  NoSession = NoSession
  ImageLen = 2
  BufLen = 1
  ReadLen = 1
  Settings <- OneTrouble
INVARIANTS
  NoUseAfterFree
  RunningIsActive
  BytesInOrder
PROPERTIES
  CallReturns
CHECK_DEADLOCK FALSE
