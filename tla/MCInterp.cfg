CONSTANTS
  ByteBits = 2
  MemSize = 128
  StackSize = 96
  OpSlots = 16
  NArgs = 1
  NSysArgs = 2
  MaxCallLevel = 2
  HostReplies = {0, 5}
  Garbage = {9}
  Programs <- MCPrograms
  HostArgs <- MCHostArgs
  HostWrites <- MCHostWrites
  FloatResult <- MCFloatResult
  FloatHolds <- MCFloatHolds
SPECIFICATION FairSpec
INVARIANTS
  OperandDiscipline
  PendingIntact
  CompiledRunsClean
  ResultsRight
PROPERTIES
  CallsComplete
  ImplementsQvm
CHECK_DEADLOCK FALSE
