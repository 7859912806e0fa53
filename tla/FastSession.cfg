CONSTANTS
  Bits = 2
  MaxBytes = 3
  MaxString = 5
  MaxDelta = 4
  MaxPmap = 2
  Families = {"numbers", "strings", "string deltas", "decimals", "sequences",
              "reset numbers", "reset strings", "reset wholes"}
  ResetFamilies = {"reset numbers", "reset strings", "reset wholes"}
  Templates <- MCTemplates
  Values <- MCValues
  MaxElements = 4
  Tid = 1
  Preamble = 1
  OmitsTid = TRUE
  MaxSent = 3
SPECIFICATION Spec
INVARIANTS
  AsSent
  AllArrived
  InStep
CHECK_DEADLOCK FALSE
