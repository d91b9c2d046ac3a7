\* One Write of seven chunks over three connections; three chunks fill the
\* window and two the output channel.
CONSTANTS
  First = 13
  Second = 0
  Ends <- MCEnds
  ChunkSize = 2
  SizeMod = 4
  Conns = 3
  MaxWindow = 6
  OutCap = 2
  MaxRead = 3
SPECIFICATION FairSpec
INVARIANTS BufferAccounting QuietMeansRead
PROPERTIES ImplementsStream AllDelivered
CHECK_DEADLOCK FALSE
