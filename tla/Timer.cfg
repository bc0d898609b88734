SPECIFICATION MCSpec
CONSTANTS
  t1 = t1
  t2 = t2
  t3 = t3
  h1 = h1
  h2 = h2
  a1 = a1
  a2 = a2
  a3 = a3
  f1 = f1
  f2 = f2
  Nil = Nil
  Timers <- ThreeTimers
  Pool <- TwoIds
  NoPin = NoPin
  PwmPins <- ThreePins
  NChannels = 2
  Freqs = {1, 3, 1000, 2000000}
  NoHandler = NoHandler
  Handlers <- TwoHandlers
SYMMETRY Symmetry
INVARIANTS
  SlotsAgree
  RunningIsRooted
  WholeUpdate
  DutyKept
  PadAgrees
  LiveHandler
