\* Two concurrent queries for one name, a race of two remote upstreams, a
\* rerouting, a flush and a clock.
CONSTANTS
  q1 = q1
  q2 = q2
  n1 = n1
  l1 = l1
  l2 = l2
  r1 = r1
  r2 = r2
  f1 = f1
  Queries = {q1, q2}
  Names = {n1}
  NameOf <- MCNameOf
  Local = {l1}
  Remote = {r1, r2}
  Fallback = {f1}
  Outbounds = {"direct", "proxy"}
  DirectName = "direct"
  IsDirect <- MCIsDirect
  TTLs = {0}
  NoAnswer <- NoAnswerTTL
  MinTTL = 1
  MaxTTL = 2
  DefaultTTL = 2
  MaxTime = 1
  MaxReroutes = 1
  MaxFlushes = 1
SPECIFICATION Spec
INVARIANTS RepliesMatchQuestions ServedWithinTTL GroupFollowsRule
INVARIANTS FailsOnlyIfAllFail RaceNeverHangs
CHECK_DEADLOCK FALSE
