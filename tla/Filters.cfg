SPECIFICATION Spec
CONSTANTS
  Runs <- MCRuns
  GroupDigits = 2
  WordBits = 6
  Bufsiz = 6
  ResultCap = 4
  Spare = 1
INVARIANTS
  TypeOK
  LinesInOrder
  WithinLine
  TextRight
  AnswersRight
  ProductChecked
PROPERTY
  ProgramEnds
CHECK_DEADLOCK FALSE
