CONSTANTS
  Uris = {u1, u2}
  CallIds = {a, b}
  Qs = {1, 2}
  DbMode = "WRITE_THROUGH"
  MatchingMode = "CONTACT_ONLY"
  DescTimeOrder = FALSE
  DbFails = {}
  Lifetimes = {1}
  MemFlags = {FALSE}
  Early = FALSE
  MaxContacts = 0
  MaxCseq = 2
  MaxLen = 2
  MaxReg = 2
  MaxNow = 12
  MaxBoots = 1
SPECIFICATION Spec
INVARIANTS ContactsDistinct
 
\* A run ends when the bounds are used up.
CHECK_DEADLOCK FALSE
