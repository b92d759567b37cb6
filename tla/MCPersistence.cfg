SPECIFICATION Spec
CONSTANTS
  Erased = Erased
  Torn = Torn
  Mixed = Mixed
  Sector4 = 2
  Sector5 = 3
  HeadSlots = 3
  Guard = 2
  MaxLen = 3
INVARIANTS
  TypeOK
  WholeHeadBeforeWrap
  OnlyTail
  LatestBeforeWrap
