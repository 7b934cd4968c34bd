SPECIFICATION Spec
CONSTANTS
  x = x
  y = y
  r = r
  Reg <- MCReg
  Operand <- MCOperand
  Other = 7
  Parameters <- MCParameters
  BitsPerChar = 4
INVARIANTS
  TypeOK
  ProductRight
  StackOrder
  FailureCostsSigns
PROPERTY
  CallEnds
CHECK_DEADLOCK FALSE
