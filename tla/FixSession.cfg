CONSTANTS
  Client = Client
  Server = Server
  Dialects = {TRUE, FALSE}
  FarSeqNo = 20
  MaxOwn = 4
  MaxSeq = 10
  MaxFailed = 2
  MaxResets = 1
SPECIFICATION FairSpec
INVARIANTS
  TypeOK
  InStep
  NeverAhead
  Accounted
  DeliveredOrSkipped
PROPERTIES
  ExpectedNeverFalls
  NothingAfterFarJump
  StopEnds
  TestsAnswered
CHECK_DEADLOCK FALSE
