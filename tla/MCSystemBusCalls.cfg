CONSTANTS
  c1 = c1
  c2 = c2
  srv = srv
  Bus = bus
  NULL = NULL
  GARBAGE = GARBAGE
  PENDING = PENDING
  Workers = {c1, c2, srv}
  LogService = srv
  Registered = {c1, c2, srv}
  PoolSize = 5
  QueueSize = 4
  SeqLimit = 3
  Ops <- CallOps
  Budget <- CallBudget
  Windows = {"test"}
  PendingIsSeen = TRUE
SPECIFICATION FairSpec
INVARIANTS TypeOK Ample WakeupHasReply PayloadFreedOnce
PROPERTIES ImplementsRemoteCall CallsComplete
