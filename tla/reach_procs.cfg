\* Every two-process program, also those where a process without outgoing
\* edges precedes one that has some.
SPECIFICATION Spec
CONSTANTS
  State <- MCState
  Hash <- MCHash
  Reject = Reject
  Raise = Raise
  Programs <- GappedPrograms
  Starts = {1}
  Goals = {{3}}
  MaxSearches = 1
INVARIANTS
  NotFoundExcludesGoal
CHECK_DEADLOCK FALSE
