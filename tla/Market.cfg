CONSTANTS
  ConnsNum = 3
  MaxTraders = 2
  Scripts <- MCScripts
SPECIFICATION FairSpec
INVARIANTS
  BoundToOpen
  InOrder
PROPERTIES
  Drained
CHECK_DEADLOCK FALSE
