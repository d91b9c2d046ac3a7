\* One metered session: its two relays share the user's quota.
CONSTANTS
  s1 = s1
  s2 = s2
  u1 = u1
  Sessions = {s1}
  Users = {u1}
  UserOf <- OneUser
  Metered = {s1}
  LimitValues = {1, 2}
  DefaultLimited = TRUE
  Orders = {"reset", "quota"}
  MaxBytes = 2
  MaxLimiter = 2
SPECIFICATION Spec
INVARIANTS TypeOK QuotaRespected ForwardedWithinQuota RelayLossless BytesSentNeverOvercounts
PROPERTY NothingForwardedAfterClose
CHECK_DEADLOCK FALSE
