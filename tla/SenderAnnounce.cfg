SPECIFICATION FlowSpec

CONSTANTS
  byte = byte
  name = name
  EmptyName = EmptyName
  NoRequest = NoRequest
  SubpacketMaxSize = 2
  SubpacketPerAck = 2
  MaxPosition = 6
  Byte <- MCByte
  Name <- MCName
  Chunk <- MCChunk
  FileSize <- MCFileSize
  Window <- MCWindow
  Incoming <- MCIncoming

INVARIANT AnnouncesAName
