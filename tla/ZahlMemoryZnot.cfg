SPECIFICATION SpecWithZnot
CONSTANTS
  Block = {b1, b2}
  User = {u1, u2}
  Dedicated = {}
  Local = {}
  NoBlock = NoBlock
  MaxClass = 0
  PoolInit = 2
  StackInit = 1
SYMMETRY Symmetric
INVARIANT UsedFits
CHECK_DEADLOCK FALSE
