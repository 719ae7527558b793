SPECIFICATION Spec
CONSTANTS
  Base <- MCBase
  MaxSize = 3
  Byte <- MCByte
  Zero = 0
  OffSpan = 4
  BaseSpan = 3
  Layouts <- MCLayouts
  WordSizes <- MCWords
  AggrSize = 3
  MaxBlocks = 2
INVARIANTS
  TypeOK
  HashCovers
  EnginesAgree
PROPERTIES
  ImplementsByteStore
CHECK_DEADLOCK FALSE
