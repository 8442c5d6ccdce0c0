CONSTANTS
  ByteBits = 2
  MemSize = 128
  StackSize = 160
  OpSlots = 4
  NArgs = 1
  NSysArgs = 2
  MaxCallLevel = 2
  HostReplies = {5}
  Garbage = {9}
  Programs <- MCPrograms
  HostArgs <- MCHostArgs
  HostWrites <- MCHostWrites
  FloatResult <- MCFloatResult
  FloatHolds <- MCFloatHolds
SPECIFICATION Spec
INVARIANTS
  TypeOK
  CacheCoherent
  ResultsRight
PROPERTY OuterUntouched
CHECK_DEADLOCK FALSE
