SPECIFICATION FairSpec

CONSTANTS
  big = big
  small = small
  empty = empty
  EmptyName = EmptyName
  NoRequest = NoRequest
  SubpacketMaxSize = 2
  SubpacketPerAck = 3
  MaxPosition = 8
  EventQueueCap = 4
  MaxZrposRetries = 2
  Byte <- MCByte
  Name <- MCName
  Content <- MCContent
  Files <- Small
  AlreadyHas <- HasNothing
  Manual = TRUE
  Declinable <- MCName
  EagerFinish = TRUE
  Damageable <- Subpackets
  MaxDamage = 0
  MaxTimeouts = 0
  MaxAborts = 0
  BufferLen = 0
  OverlappedIo = TRUE

PROPERTY FinishHonoured

\* A session that is over, or stuck after an unrecoverable fault, stops.
CHECK_DEADLOCK FALSE
