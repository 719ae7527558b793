SPECIFICATION FairSpec
CONSTANTS
  State <- MCState
  Hash <- MCHash
  Reject = Reject
  Raise = Raise
  Programs <- AllPrograms
  Starts = {1, 2}
  Goals = {{}, {3}}
  MaxSearches = 2
INVARIANTS
  TypeOK
  FoundIsReachable
  NotFoundIsUnreachable
  CountsReachable
  NoDoubleWork
PROPERTIES
  ImplementsOracle
  Terminates
CHECK_DEADLOCK FALSE
