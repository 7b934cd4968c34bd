SPECIFICATION Spec
CONSTANTS
  Block = {b1, b2, b3}
  User = {u1, u2, u3}
  Dedicated = {}
  Local = {}
  NoBlock = NoBlock
  MaxClass = 0
  PoolInit = 2
  StackInit = 1
SYMMETRY Symmetric
INVARIANT UnsetupReleasesAll
CHECK_DEADLOCK FALSE
