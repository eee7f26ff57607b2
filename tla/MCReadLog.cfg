SPECIFICATION Spec
CONSTANTS
  MaxLines = 11
  MaxDots = 3
INVARIANTS
  LinesInOrder
  NestingIsDots
CHECK_DEADLOCK FALSE
