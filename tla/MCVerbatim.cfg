SPECIFICATION VerbatimSpec
CONSTANTS
  Characters <- SomeChars
  MaxLen = 4
INVARIANTS InertInTeX UnambiguousSurvive
CHECK_DEADLOCK FALSE
