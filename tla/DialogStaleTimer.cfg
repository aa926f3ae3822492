CONSTANTS
  Dlgs = {d1}
  Workers = {w1}
  Tmr = Tmr
  DbMode = "NONE"
  DbFails = FALSE
  Max1xx = 0
  Max2xx = 1
  MaxReq = 2
  MaxLeak = 0
  MaxMi = 0
  MaxBoots = 0
SPECIFICATION Spec
INVARIANTS TimerLinksSafe
\* A run ends when the bounds are used up, or at a use of freed memory.
CHECK_DEADLOCK FALSE
