CONSTANTS
  Bits = 2
  MaxBytes = 3
  MaxString = 5
  MaxDelta = 4
  MaxPmap = 2
  Families = {"copied lengths"}
  ResetFamilies = {}
  Templates <- MCTemplates
  Values <- MCValues
  MaxElements = 4
  Tid = 1
  Preamble = 0
  OmitsTid = FALSE
  MaxSent = 3
SPECIFICATION Spec
INVARIANTS
  AsSent
CHECK_DEADLOCK FALSE
