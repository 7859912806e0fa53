CONSTANTS
  HeartBtInt = 10
  Interval = 13
  AnswerWithin = 1
  Recovery = 3
  MaxUnread = 2
  Programs = {"forts", "fix_client"}
SPECIFICATION FairSpec
INVARIANTS
  TypeOK
  LiveKept
  HeartbeatsKept
PROPERTIES
  ClosedLeft
CHECK_DEADLOCK FALSE
