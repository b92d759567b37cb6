CONSTANTS
  Senders = {s1, s2}
  Reader = reader
  NULL = NULL
  Capacity = 2
  MaxPosts = 3
  CriticalWorks = TRUE
SPECIFICATION FairSpec
INVARIANTS WokenTaskFindsMessage SemaphoreMatchesRing QueueInv
PROPERTIES ImplementsFifo AcceptedIsHandled
CHECK_DEADLOCK FALSE
