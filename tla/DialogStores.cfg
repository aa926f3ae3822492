CONSTANTS
  Dlgs = {d1}
  Workers = {w1}
  Tmr = Tmr
  DbMode = "REALTIME"
  DbFails = TRUE
  Max1xx = 1
  Max2xx = 1
  MaxReq = 2
  MaxLeak = 0
  MaxMi = 0
  MaxBoots = 1
SPECIFICATION MCFairSpec
INVARIANTS NothingForgotten
PROPERTY DialogsEnd
\* A run ends when the bounds are used up, or at a use of freed memory.
CHECK_DEADLOCK FALSE
