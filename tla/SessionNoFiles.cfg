SPECIFICATION FairSpec

CONSTANTS
  big = big
  small = small
  empty = empty
  EmptyName = EmptyName
  NoRequest = NoRequest
  SubpacketMaxSize = 2
  SubpacketPerAck = 3
  MaxPosition = 8
  EventQueueCap = 4
  MaxZrposRetries = 2
  Byte <- MCByte
  Name <- MCName
  Content <- MCContent
  Files <- NoFiles
  AlreadyHas <- HasNothing
  Manual = FALSE
  Declinable <- NoneOfThem
  EagerFinish = TRUE
  Damageable <- Subpackets
  MaxDamage = 0
  MaxTimeouts = 0
  MaxAborts = 0
  BufferLen = 0
  OverlappedIo = TRUE

PROPERTY SuccessIsMutual

\* A session that is over, or stuck after an unrecoverable fault, stops.
CHECK_DEADLOCK FALSE
