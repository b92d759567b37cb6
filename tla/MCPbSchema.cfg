SPECIFICATION Spec
CONSTANTS
  NULL = NULL
  GroupBits = 3
  Half = 8
  Word = 16
  BitposWrap = 64
  Huge = 100000
  MethodMax = 2
  LenSpace = 4
  SizesFit = TRUE
  Methods <- MCMethods
  Numbers <- MCNumbers
  Texts <- MCTexts
  Structs <- MCStructs
  Words <- MCWords
INVARIANTS
  ArgumentsArrive
  FreedOnce
  RoomSuffices
  StructArrives
  NumbersFit
