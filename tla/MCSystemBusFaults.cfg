CONSTANTS
  c1 = c1
  c2 = c2
  srv = srv
  Bus = bus
  NULL = NULL
  GARBAGE = GARBAGE
  PENDING = PENDING
  Workers = {c1, c2, srv}
  LogService = srv
  Registered = {c2, srv}
  PoolSize = 2
  QueueSize = 1
  SeqLimit = 3
  Ops <- FaultOps
  Budget <- FaultBudget
  Windows = {"seq_ret", "test"}
  PendingIsSeen = FALSE
SPECIFICATION Spec
INVARIANTS PoolAccounting
CHECK_DEADLOCK FALSE
