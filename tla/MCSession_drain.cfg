\* One limited and metered session that may be kicked at any time, while
\* policies arrive.
CONSTANTS
  s1 = s1
  s2 = s2
  u1 = u1
  Sessions = {s1}
  Users = {u1}
  UserOf <- OneUser
  Metered = {s1}
  LimitValues = {1}
  DefaultLimited = TRUE
  Orders = {"kick", "revoke", "bandwidth"}
  MaxBytes = 2
  MaxLimiter = 3
SPECIFICATION FairSpec
INVARIANT ActiveCountExact
PROPERTY SessionDrains
CHECK_DEADLOCK FALSE
