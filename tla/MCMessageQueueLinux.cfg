CONSTANTS
  Senders = {s1, s2}
  Reader = reader
  NULL = NULL
  Capacity = 2
  MaxPosts = 2
  CriticalWorks = FALSE
SPECIFICATION Spec
INVARIANTS RacyRingInBounds
CHECK_DEADLOCK FALSE
