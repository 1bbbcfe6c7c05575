CONSTANTS
  b1 = b1
  b2 = b2
  t1 = t1
  t2 = t2
  Balls = {b1, b2}
  NoBall = NoBall
  Threads = {t1, t2}
  NThreads = 2
  Width = 2
  Height = 3
  NSticky = 1
  NHoles = 1
  SpuriousWakeups = FALSE
SPECIFICATION MirrorFairSpec
PROPERTIES
  ReserveServed
  NotifyWakes
