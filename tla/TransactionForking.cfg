CONSTANTS
  w1 = w1
  w2 = w2
  Workers = {w1, w2}
  MaxBranches = 2
  Kinds <- Proxied
  Codes = {180, 200, 486}
  OnFailure = {"relay", "reply"}
  Failover = TRUE
  MaxReplies = 2
  MaxRetrans = 0
  MaxCancels = 0
SYMMETRY Symmetry
SPECIFICATION MCSpec
INVARIANTS  RefCounted WinnerStored 
 
\* A run ends when the bounds are used up.
CHECK_DEADLOCK FALSE
