CONSTANTS
  c1 = c1
  c2 = c2
  srv = srv
  Bus = bus
  NULL = NULL
  GARBAGE = GARBAGE
  PENDING = PENDING
  Workers = {c1, c2, srv}
  LogService = srv
  Registered = {c2, srv}
  PoolSize = 5
  QueueSize = 3
  SeqLimit = 4
  Ops <- SignalOps
  Budget <- SignalBudget
  Windows = {}
  PendingIsSeen = TRUE
SPECIFICATION FairSpec
INVARIANTS PoolAccounting SignalsInOrder
PROPERTIES SignalsArrive
