SPECIFICATION Spec
CONSTANTS
  Radix = 4
  ByteBits = 2
  StackSize = 12
  MaxFrames = 4
  MaxCalls = 3
  NonDetNumbers = {0, 1, 2, 3}
  Unknown = {0, 1, 2, 3}
  Modules <- MCModules
  Programs <- MCPrograms
INVARIANTS
  TypeOK
  LoadedAccepted
  LoadedMeansLLVM
  AllocasApart
  WellTyped
  AcceptedRuns
CHECK_DEADLOCK FALSE
