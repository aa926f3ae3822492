CONSTANTS
  w1 = w1
  w2 = w2
  Workers = {w1, w2}
  MaxBranches = 2
  Kinds <- Proxied
  Codes = {180, 486}
  OnFailure = {}
  Failover = FALSE
  MaxReplies = 1
  MaxRetrans = 0
  MaxCancels = 0

SPECIFICATION FairSpec

PROPERTY Completes
\* A run ends when the bounds are used up.
CHECK_DEADLOCK FALSE
