CONSTANTS
  Uris = {u1, u2}
  CallIds = {a}
  Qs = {1}
  DbMode = "WRITE_THROUGH"
  MatchingMode = "CONTACT_ONLY"
  DescTimeOrder = FALSE
  DbFails = {"insert"}
  Lifetimes = {1}
  MemFlags = {FALSE}
  Early = FALSE
  MaxContacts = 0
  MaxCseq = 2
  MaxLen = 1
  MaxReg = 3
  MaxNow = 12
  MaxBoots = 0
SPECIFICATION Spec
INVARIANTS StateTruthful
\* A run ends when the bounds are used up.
CHECK_DEADLOCK FALSE
