CONSTANTS
  MaxLevel = 3
  MaxOrders = 3
  MaxSize = 3
SPECIFICATION FairSpec
INVARIANTS
  TypeOK
  Uncrossed
  BoundsHold
  ListsExact
  SweepInv
  TradesInLimits
  Conserved
PROPERTIES
  MatchEnds
  ImplementsPriceTime
