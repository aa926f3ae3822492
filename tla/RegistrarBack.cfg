CONSTANTS
  Uris = {u1, u2}
  CallIds = {a, b}
  Qs = {1}
  DbMode = "WRITE_BACK"
  MatchingMode = "CONTACT_CALLID"
  DescTimeOrder = FALSE
  DbFails = {"insert", "update"}
  Lifetimes = {1}
  MemFlags = {FALSE}
  Early = FALSE
  MaxContacts = 1
  MaxCseq = 2
  MaxLen = 2
  MaxReg = 3
  MaxNow = 12
  MaxBoots = 1
SPECIFICATION FairSpec
INVARIANTS TypeOK StateTruthful RowsOwned
PROPERTY CaughtUp
\* A run ends when the bounds are used up.
CHECK_DEADLOCK FALSE
