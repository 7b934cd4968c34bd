SPECIFICATION Spec
CONSTANTS
  Power <- CappedPower
  MaxBase = 31
  MaxLines = 30
INVARIANT Frontier
INVARIANT LimitKept
PROPERTY Enumerates
CHECK_DEADLOCK FALSE
