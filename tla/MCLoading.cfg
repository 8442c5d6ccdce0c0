CONSTANTS
  ByteBits = 6
  HeaderBytes = 2
  MaxImage = 64
  MaxBss = 8
  ProgramStack = 32
  Files <- MCFiles
SPECIFICATION FairSpec
INVARIANTS
  TypeOK
  SameImage
  AcceptAlike
PROPERTY LoadingEnds
CHECK_DEADLOCK FALSE
