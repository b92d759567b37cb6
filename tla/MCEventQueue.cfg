SPECIFICATION Spec
CONSTANTS
  NULL = NULL
  Types = {x, y}
  Heap = {a1, a2}
  MaxTimers = 2
  KernelTimers = 2
  QueueSize = 1
  Chains <- MCChains
  MaxAdds = 3
INVARIANTS
  TypeOK
  MaskMatchesList
  TimerAccounting
  TimeoutsReachTheirEvent
PROPERTIES
  TimedEventsFire
  PeriodicEventsRepeat
CHECK_DEADLOCK FALSE
