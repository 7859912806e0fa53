CONSTANTS
  Levels = {l1, l2}
  BooksNum = 2
  FeedsNum = 1
  MaxSent = 4
SPECIFICATION Spec
SYMMETRY LevelSymmetry
INVARIANTS
  TypeOK
  UpToDate
  NoEmptyLevels
  OnlySubscribingFails
CHECK_DEADLOCK FALSE
