SPECIFICATION Spec
CONSTANTS
  Scripts <- MCScripts
  Registry <- MCRegistry
  Nodes <- MCNodes
  Children <- MCChildren
  Above <- MCAbove
  STACK_SIZE = 1
INVARIANTS
  TypeOK
  StackShape
  WorkInDocument
  EachPassOnce
PROPERTY Terminates
