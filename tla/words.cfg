SPECIFICATION Spec
CONSTANTS
  BitWidth <- MCBitWidth
  Fields <- MCFields
  Operands <- MCOperands
INVARIANTS
  TypeOK
  EnginesAgree
  PointersSurvive
CHECK_DEADLOCK FALSE
