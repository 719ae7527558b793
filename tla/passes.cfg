SPECIFICATION Spec
CONSTANTS
  Func <- MCFunc
  Value <- MCValue
  Functions <- MCFunctions
  Sources <- MCSources
  Truthy = {1}
  MaxCalls = 3
  MaxUnroll = 2
  MaxInline = 2
  MaxEdges = 6
INVARIANTS
  TypeOK
  ListsAgree
  SameRuns
  UnrolledAcyclic
  UndefinedOnlyWhere
CHECK_DEADLOCK FALSE
