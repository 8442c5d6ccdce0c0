CONSTANTS
  Insertion = 3
  Ninther = 5
  Parts = 4
  IntBits = 10
  Fraction = 8
  Arrays <- MCArrays
  Texts <- MCTexts
  Requests <- MCRequests
  Strings <- MCStrings
  Prints <- MCPrints
SPECIFICATION MCSpec
INVARIANTS
  SortsRight
  StringsRight
  FormatsRight
PROPERTY RoutinesEnd
CHECK_DEADLOCK FALSE
