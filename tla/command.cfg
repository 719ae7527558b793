SPECIFICATION Spec
CONSTANTS
  Loc <- MCLoc
  NbProc = 2
  Start1 = 1
  CFG <- MCCFG
  MaxEdges = 3
  Word = {"current", "prev", "x"}
  MaxLines = 5
  MaxNumber = 4
  Loaders = {"LLVM", "mmc"}
INVARIANTS
  TypeOK
  StepsAreMoves
  PrevUndoes
  CrashIsMisuse
  ExitTellsVerdict
CHECK_DEADLOCK FALSE
