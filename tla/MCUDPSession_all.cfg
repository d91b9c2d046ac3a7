\* Two readers that share a key, two packets, a reply; the cleanup may end.
CONSTANTS
  r1 = r1
  r2 = r2
  k1 = k1
  k2 = k2
  NoReader = NoReader
  NoKey = NoKey
  Readers = {r1, r2}
  Keys = {k1}
  Shared = TRUE
  KeysOf <- MCKeysOf
  Closable = {r1}
  OnNewSession = TRUE
  MaxPackets = 2
  MaxSessions = 2
  MaxReplies = 1
SPECIFICATION FairSpec
INVARIANT DialledOnce
PROPERTIES ReplacedOnlyInGap PacketsHandled IdleRemoved
CHECK_DEADLOCK FALSE
