SPECIFICATION Spec
CONSTANTS
  NULL = NULL
  Bus = Bus
  user_space = user_space
  log = log
  Preload <- MCPreload
  Priority <- MCPriority
  SegmentMajorMax = 7
INVARIANTS
  TypeOK
  LaunchedIntoRunningBus
  StrictPortDoesNotRace
PROPERTY
  EverySegmentLaunches
CHECK_DEADLOCK FALSE
