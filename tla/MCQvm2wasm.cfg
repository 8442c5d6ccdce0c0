CONSTANTS
  ByteBits = 3
  GroupBits = 5
  InitialCap = 2
  Sections <- MCSections
  Bodies <- MCBodies
  DataSection <- MCDataSection
  MaxVmArgs = 2
  MaxOut = 9
  QPath = 8
  Results = {0, 3}
  CommandLines <- MCCommandLines
  ScarceLines <- MCScarceLines
SPECIFICATION MCSpec
INVARIANTS
  ReturnsClean
  ArgumentsReachVmMain
  ExitTells
  NamesBeside
  CompleteWithMemory
  RoundTrip
CHECK_DEADLOCK FALSE
