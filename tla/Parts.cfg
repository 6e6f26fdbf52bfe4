SPECIFICATION Spec

CONSTANTS
  \* Wire and Codec
  Byte = {}
  Name = {}
  EmptyName = EmptyName
  Crc16 <- Crc16Bytes
  Crc32 <- Crc32Bytes
  \* ByteStream
  Script <- MCScript
  SubpacketMaxSize = 5
  MaxDamage = 2
  Replacement = {0, 17, 24, 42, 66, 107}
  \* CrcStream
  MessageBytes = {0, 24, 129, 255}
  MessageLength = 4
  \* OutgoingBuffer
  PayloadMax = 24
  MaxHeaderEscaped = 35
  NameCap = 12
  SizeDigits = 10
  \* FileInfo
  MaxPosition = 225
  StringCap = 3
  Text = {0, 32, 50, 54, 120}
  MaxLength = 6
  FileNames <- MCFileNames
  \* EventQueue
  Capacity = 4
  NoEvent = NoEvent
  Event = {fileStart, fileComplete, sessionComplete, aborted}

INVARIANTS
  ReadersTypeOK
  FoundIsSent
  HeadersFound
  AcceptedIsSent
  StaysInStep
  StrayIsNoHeader
  IsTheStandardChecksum
  DamageShows
  WhatIsQueuedFits
  OffsetInBuffer
  ReadsWhatIsAnnounced
  ReadsWhatWasWritten

PROPERTY IsFifo

\* A script, a message and a payload come to an end.
CHECK_DEADLOCK FALSE
