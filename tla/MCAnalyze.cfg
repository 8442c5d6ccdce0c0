CONSTANTS
  MCLen = 4
  MaxSlots = 2
  Programs <- MCPrograms
SPECIFICATION FairSpec
INVARIANTS
  TypeOK
  NoFalseRejection
  AnalysisSound
  EmissionReady
PROPERTY Terminates
CHECK_DEADLOCK FALSE
