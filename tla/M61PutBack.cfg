SPECIFICATION Spec
CONSTANTS
  Slots = {1, 2, 3}
  Span = 5
  Wrap = 72
  UintMax = 7
  Sites = {s1, s2, s3, s4}
  Counters = {1, 2}
  NoSite = noSite
  HeapCalls = 4
  HhCalls = 0
PROPERTIES PutBackCaught
CHECK_DEADLOCK FALSE
