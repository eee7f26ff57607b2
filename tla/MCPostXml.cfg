SPECIFICATION Spec
CONSTANT Documents <- MCDocuments
INVARIANTS
  ReadingOrderKept
  MarksHoldWhatFollows
  ParagraphsAreApart
  ParsNestOnlyAroundSections
