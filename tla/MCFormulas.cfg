SPECIFICATION Spec
CONSTANTS
  Blocks <- MCBlocks
  MaxBlocks = 3
  MaxPages = 2
INVARIANTS OwnExpression RefusedForBreaks
PROPERTIES MovedOnce StepsRunOut
