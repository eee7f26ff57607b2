SPECIFICATION VerbatimSpec
CONSTANTS
  Characters <- FewChars
  MaxLen = 3
INVARIANTS EveryFormulaSurvives
CHECK_DEADLOCK FALSE
