\* Stop from another goroutine and on a shutdown command, in any order, two
\* configurations, two lists of policies, an outage.
CONSTANTS
  Stoppers = {"signal", "command"}
  MaxVersions = 2
  MaxPolicies = 2
  MaxOutages = 1
SPECIFICATION ControlFairSpec
INVARIANT StopCleansUp
PROPERTIES LoopReturns PoliciesReachNode
CHECK_DEADLOCK FALSE
