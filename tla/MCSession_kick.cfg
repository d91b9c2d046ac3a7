\* A session without a limiter is kicked while both peers are idle.
CONSTANTS
  s1 = s1
  s2 = s2
  u1 = u1
  Sessions = {s1}
  Users = {u1}
  UserOf <- OneUser
  Metered = {s1}
  LimitValues = {1}
  DefaultLimited = FALSE
  Orders = {"kick"}
  MaxBytes = 1
  MaxLimiter = 2
SPECIFICATION FairSpec
PROPERTY KickCutsSession
CHECK_DEADLOCK FALSE
