SPECIFICATION Spec
CONSTANTS
  x = x
  y = y
  result = result
  Reg <- MCReg
  Kept <- MCKept
  BitsPerChar = 2
  Group = 4
  SmallCopy = 20
  MaxLimbs = 5
  Counts <- ShortCounts
SYMMETRY Symmetry
INVARIANTS
  TypeOK
  ComparisonRight
  SumsRight
  DifferencesRight
  ShiftsRight
  BitsRight
