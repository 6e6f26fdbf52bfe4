SPECIFICATION FlowSpec

CONSTANTS
  byte = byte
  name = name
  EmptyName = EmptyName
  SubpacketMaxSize = 2
  EventQueueCap = 3
  MaxZrposRetries = 2
  MaxPosition = 3
  BufferLen = 2
  OverlappedIo = FALSE
  Byte <- MCByte
  Name <- MCName
  IncomingData <- MCIncomingData
  IncomingSize <- MCIncomingSize
  ResumeOffset <- MCResumeOffset
  Incoming <- MCIncoming

PROPERTY AbortIsFinal
