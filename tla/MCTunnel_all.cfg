\* Chains of no, one and two hops, with and without padding, a target of the
\* longest length an entry holds, one cell of payload each way.
CONSTANTS
  EntryCells = 2
  Settings <- AllChains
  TargetLengths = {30}
  PadLengths = {0, 1}
  MaxCells = 1
  MaxHeartbeats = 1
SPECIFICATION FairSpec
INVARIANT TunnelFaithful
PROPERTIES ActsAsConnection TargetReached TunnelDrains
CHECK_DEADLOCK FALSE
