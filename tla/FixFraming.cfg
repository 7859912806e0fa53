CONSTANTS
  Capacity = 62
  MaxMessage = 25
  Texts = {0, 2}
  Kinds = {"cut", "sum", "long", "short", "type", "tag"}
  Cuts = {3, 7, 12, 15, 20}
  MaxSent = 3
  MaxBroken = 1
SPECIFICATION Spec
INVARIANTS
  TypeOK
  OnlySent
  AllArrived
  NeverStuck
CHECK_DEADLOCK FALSE
