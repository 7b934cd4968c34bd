SPECIFICATION Spec
CONSTANTS
  x = x
  y = y
  result = result
  Reg <- MCReg
  Kept <- MCKept
  BitsPerChar = 1
  Group = 4
  SmallCopy = 20
  MaxLimbs = 24
  Counts <- WideCounts
SYMMETRY Symmetry
INVARIANTS
  SumsDocumented
