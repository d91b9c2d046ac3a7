\* Two nodes, a target behind one of them or without a way, a target behind
\* both, PROXY headers, half a minute (six ticks) to settle.
CONSTANTS
  c1 = c1
  c2 = c2
  o1 = o1
  o2 = o2
  t1 = t1
  t2 = t2
  Clients = {c1, c2}
  ProxyProtocol = TRUE
  Serve = FALSE
  Outbounds = {o1, o2}
  Direct = {}
  TargetList <- TwoTargets
  Routings <- TwoRoutings
  Latencies = {50, 1500}
  Budgets <- ClientsOrChanges
  MaxReloads = 1
  SettleTicks = 6
SPECIFICATION FairSpec
INVARIANTS FailoverBound PicksFastest
PROPERTY ClientsHandled
