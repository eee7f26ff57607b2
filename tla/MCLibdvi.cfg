SPECIFICATION Spec
CONSTANTS
  Files <- MCFiles
  Characters = {0, 32, 200}
  FontNumbers = {0, 1, 7}
  Moves = {1, 3}
  BUFFER_SIZE = 1
INVARIANTS
  TypeOK
  BufferOfLastText
  SpacesBetweenGlyphs
  FirstFileWins
PROPERTY ImplementsMachine
CHECK_DEADLOCK FALSE
