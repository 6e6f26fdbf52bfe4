SPECIFICATION Spec

CONSTANTS
  big = big
  small = small
  empty = empty
  EmptyName = EmptyName
  NoRequest = NoRequest
  SubpacketMaxSize = 2
  SubpacketPerAck = 3
  MaxPosition = 8
  EventQueueCap = 4
  MaxZrposRetries = 1
  Byte <- MCByte
  Name <- MCName
  Content <- MCContent
  Files <- SmallBigEmpty
  AlreadyHas <- HasSome
  Manual = TRUE
  Declinable <- MCName
  EagerFinish = TRUE
  Damageable <- Everything
  MaxDamage = 2
  MaxTimeouts = 2
  MaxAborts = 1
  BufferLen = 0
  OverlappedIo = TRUE

INVARIANTS
  SessionInv
  DiskIsPrefix
  CompletedIsWhole
  InStep

PROPERTIES
  SenderCompletionSound
  SessionCompletionSound
  DeclinedUntouched
  TransfersFiles

\* A session that is over, or stuck after an unrecoverable fault, stops.
CHECK_DEADLOCK FALSE
