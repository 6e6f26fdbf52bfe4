SPECIFICATION PatientSpec

CONSTANTS
  big = big
  small = small
  empty = empty
  EmptyName = EmptyName
  NoRequest = NoRequest
  SubpacketMaxSize = 2
  SubpacketPerAck = 3
  MaxPosition = 8
  EventQueueCap = 4
  MaxZrposRetries = 2
  Byte <- MCByte
  Name <- MCName
  Content <- MCContent
  Files <- SmallBigEmpty
  AlreadyHas <- HasSome
  Manual = TRUE
  Declinable <- NotTheLast
  EagerFinish = TRUE
  Damageable <- Repairable
  MaxDamage = 2
  MaxTimeouts = 2
  MaxAborts = 0
  BufferLen = 4
  OverlappedIo = TRUE

INVARIANT NeverStuck

PROPERTIES
  Completes
  TransfersEveryFile

\* A session that is over, or stuck after an unrecoverable fault, stops.
CHECK_DEADLOCK FALSE
