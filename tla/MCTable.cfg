SPECIFICATION TabularSpec
CONSTANTS
  Tabulars <- MCTabulars
  Tables <- NoTables
INVARIANTS
  LinesKept
  OnlyEmptyCellsRemoved
  LayoutKept
CHECK_DEADLOCK FALSE
