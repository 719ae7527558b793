SPECIFICATION Spec
CONSTANTS
  State <- DetourState
  Hash <- DetourState
  Reject = Reject
  Raise = Raise
  Programs <- DetourPrograms
  Starts = {1}
  Goals = {{3, 4}}
  MaxSearches = 1
PROPERTIES
  BFSFindsNearest
CHECK_DEADLOCK FALSE
