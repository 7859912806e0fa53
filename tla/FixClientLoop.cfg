CONSTANTS
  HeartBtInt = 15
  Interval = 16
  AnswerWithin = 1
  Recovery = 0
  MaxUnread = 2
  Programs = {"fix_client"}
SPECIFICATION Spec
INVARIANTS
  ClientLiveKept
CHECK_DEADLOCK FALSE
