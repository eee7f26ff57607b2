SPECIFICATION Spec
CONSTANTS
  Names = {a, b}
  Leaves = {"text", "empty", "special", "unreadable"}
  MaxNodes = 5
INVARIANTS
  TypeOK
  StackMatchesTree
  ClosedByOwnName
  DocumentOrderKept
  LostOnlyAtTheEnd
  BalancedRebuilt
PROPERTIES
  Terminates
  ImplementsTagPairing
