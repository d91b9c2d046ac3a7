\* Two updates at any time, also overlapping each other and Agent.Start.
CONSTANTS
  c0 = c0
  c1 = c1
  c2 = c2
  k1 = k1
  k2 = k2
  k3 = k3
  t1 = t1
  t2 = t2
  Configs = {c0, c1, c2}
  InitialConfig = c0
  Names = {"a", "b", "default"}
  DefaultName = "default"
  Groups = {"g", "h"}
  Targets = {t1, t2}
  OutboundsOf <- MCOutboundsOf
  GroupOf <- MCGroupOf
  RulesOf <- MCRulesOf
  Keys = {k1, k2, k3}
  KindOf <- MCKindOf
  PortOf <- MCPortOf
  Settings = {"x", "y"}
  InboundsOf <- MCInboundsOf
  MaxUpdates = 2
SPECIFICATION FairSpec
INVARIANTS TypeOK RoutesByName HandlersAccounted SerialReloadsSettle
PROPERTY StopTerminates
CHECK_DEADLOCK FALSE
