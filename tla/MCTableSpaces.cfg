SPECIFICATION Spec
CONSTANTS
  Tables <- SpaceTables
INVARIANT SpacesAreNoContent
CHECK_DEADLOCK FALSE
