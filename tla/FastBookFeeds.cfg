CONSTANTS
  Levels = {l1, l2}
  BooksNum = 1
  FeedsNum = 2
  MaxSent = 4
SPECIFICATION Spec
SYMMETRY LevelSymmetry
INVARIANTS
  
  SomeFeedIsRead
CHECK_DEADLOCK FALSE
