SPECIFICATION Spec
CONSTANTS
  Location <- MCLocation
  Func <- MCFunc
  Value <- MCValue
  Zero = 0
  Truthy = {1}
  Cell = {}
  Beyond = {}
  Unmapped = {}
  NbCpu = 1
  NoReg = NoReg
  Programs <- MCPrograms
  MaxVars = 5
  MaxDepth = 2
INVARIANTS
  TypeOK
  PathExact
  AnswersReal
  UndefinedIsUnsetCpu
CHECK_DEADLOCK FALSE
