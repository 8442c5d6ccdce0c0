CONSTANTS
  ByteBits = 2
  MemSize = 8
  MaxCalls = 2
  Memories <- MCMemories
  Calls <- MCCalls
SPECIFICATION Spec
INVARIANT HostsAgree
PROPERTY NativeServesProper
CHECK_DEADLOCK FALSE
