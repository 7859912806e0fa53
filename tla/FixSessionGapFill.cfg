CONSTANTS
  Client = Client
  Server = Server
  Dialects = {FALSE}
  FarSeqNo = 20
  MaxOwn = 4
  MaxSeq = 8
  MaxFailed = 1
  MaxResets = 0
SPECIFICATION Spec
INVARIANTS
  GapFillAdvances
CHECK_DEADLOCK FALSE
