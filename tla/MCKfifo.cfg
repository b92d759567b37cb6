SPECIFICATION Spec
CONSTANTS
  Data = {0, 1}
  Size = 2
  Word = 8
  MaxLen = 3
INVARIANTS
  TypeOK
  NeverOverrun
  CopiesAgree
PROPERTIES
  ImplementsBytes
