SPECIFICATION Spec
CONSTANTS
  x = x
  y = y
  z = z
  w = w
  Null = Null
  Reg <- MCReg
  Calls <- MCCalls
  LaterCalls <- MCLaterCalls
  BitsPerChar = 3
  Leftover = 77
  JunkLimb = {0, 1}
INVARIANTS
  TypeOK
  DivisionRight
  PowersRight
  GcdRight
  PointersRestored
  PrimalityRight
  RandomRight
  OthersUntouched
PROPERTY
  CallEnds
CHECK_DEADLOCK FALSE
