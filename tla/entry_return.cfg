SPECIFICATION Spec
CONSTANTS
  Location <- MCLocation
  Func <- MCFunc
  Value <- MCValue
  Zero = 0
  Truthy <- MCTruthy
  Cell = {1}
  Beyond = {2}
  Unmapped = {3}
  NbCpu = 1
  NoReg = NoReg
  Programs <- MCPrograms
  MaxDepth = 5
INVARIANTS
  EntryReturnHandled
CHECK_DEADLOCK FALSE
