CONSTANTS
  w1 = w1
  w2 = w2
  c1 = c1
  s1 = s1
  a1 = a1
  a2 = a2
SPECIFICATION FairSpec
INVARIANTS BlacklistSound
PROPERTIES TransactionsEnd TcpBadEnds BlacklistExpires SiloAnsweredLeave SubscriptionsEnd
\* A run ends when the bounds are used up.
CHECK_DEADLOCK FALSE
