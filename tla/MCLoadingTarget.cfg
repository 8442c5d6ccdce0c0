CONSTANTS
  ByteBits = 6
  HeaderBytes = 2
  MaxImage = 64
  MaxBss = 8
  ProgramStack = 32
  Files <- MCFiles
SPECIFICATION Spec
PROPERTY TargetsChecked
CHECK_DEADLOCK FALSE
