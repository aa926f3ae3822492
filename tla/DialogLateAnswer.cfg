CONSTANTS
  Dlgs = {d1}
  Workers = {w1, w2}
  Tmr = Tmr
  DbMode = "NONE"
  DbFails = FALSE
  Max1xx = 0
  Max2xx = 2
  MaxReq = 1
  MaxLeak = 0
  MaxMi = 0
  MaxBoots = 0
SPECIFICATION FairSpec
PROPERTY ByeIsFinal
\* A run ends when the bounds are used up, or at a use of freed memory.
CHECK_DEADLOCK FALSE
