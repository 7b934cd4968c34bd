SPECIFICATION FairSpec
CONSTANTS
  Block = {b1, b2, b3}
  User = {u1}
  Dedicated = {}
  Local = {l1, l2}
  NoBlock = NoBlock
  MaxClass = 0
  PoolInit = 2
  StackInit = 1
INVARIANT TypeOK
INVARIANT ExclusiveOwnership
INVARIANT WithinArrays
PROPERTY LostByFailureOnly
PROPERTY FailureReachesHandler
CHECK_DEADLOCK FALSE
