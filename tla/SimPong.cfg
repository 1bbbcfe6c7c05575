CONSTANTS
  b1 = b1
  b2 = b2
  t1 = t1
  t2 = t2
  t3 = t3
  Balls = {b1, b2}
  NoBall = NoBall
  Threads = {t1, t2, t3}
  NThreads = 2
  Width = 2
  Height = 3
  NSticky = 2
  NHoles = 1
  SpuriousWakeups = TRUE
SPECIFICATION Spec
SYMMETRY Symmetry
INVARIANTS
  BallsPartitioned
  ThreadsCounted
  MovesOnlyFreeBalls
  StopsOnlyAsleep
PROPERTIES
  KnocksNotify
