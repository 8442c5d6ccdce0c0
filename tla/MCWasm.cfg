CONSTANTS
  ByteBits = 2
  MemSize = 128
  StackSize = 96
  NArgs = 1
  MaxSlots = 16
  MaxCallLevel = 2
  HostReplies = {0, 5}
  Programs <- MCPrograms
  HostArgs <- MCHostArgs
  HostWrites <- MCHostWrites
  Answers <- MCAnswers
  FloatResult <- MCFloatResult
  FloatHolds <- MCFloatHolds
SPECIFICATION FairRun
INVARIANTS
  ModuleValidates
  DispatchRight
  ReturnsRight
PROPERTIES
  ImplementsQvm
  CallsComplete
CHECK_DEADLOCK FALSE
