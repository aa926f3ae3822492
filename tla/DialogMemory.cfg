CONSTANTS
  Dlgs = {d1}
  Workers = {w1, w2}
  Tmr = Tmr
  DbMode = "NONE"
  DbFails = FALSE
  Max1xx = 1
  Max2xx = 2
  MaxReq = 2
  MaxLeak = 1
  MaxMi = 0
  MaxBoots = 0
SPECIFICATION MCSpec
INVARIANTS TypeOK RefExact  StatExact TimerArmed
SYMMETRY Symmetry
\* A run ends when the bounds are used up, or at a use of freed memory.
CHECK_DEADLOCK FALSE
