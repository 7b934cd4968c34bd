SPECIFICATION Spec
CONSTANTS
  x = x
  y = y
  result = result
  Reg <- MCReg
  Kept <- MCKept
  BitsPerChar = 1
  Group = 4
  SmallCopy = 20
  MaxLimbs = 8
  Counts <- GroupCounts
SYMMETRY Symmetry
INVARIANTS
  BitsDocumented
