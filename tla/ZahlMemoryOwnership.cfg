SPECIFICATION Spec
CONSTANTS
  Block = {b1, b2, b3}
  User = {}
  Dedicated = {d1}
  Local = {l1}
  NoBlock = NoBlock
  MaxClass = 2
  PoolInit = 2
  StackInit = 1
SYMMETRY Symmetric
INVARIANT ExclusiveOwnership
INVARIANT SoundCapacity
INVARIANT UsedFits
PROPERTY LostByFailureOnly
PROPERTY BlocksChangeHands
CHECK_DEADLOCK FALSE
