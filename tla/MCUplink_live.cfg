CONSTANTS
  SeqSpace = 32
  Window = 8
  MsgSize <- NoDownMessages
  WriteInit = 8
  WriteMin = 8
  WriteMax = 10
  CtrlSize = 3
  MaxReads = 12
  ReaderMayFail = FALSE
  UpSize <- LongMessages
  TxBufSize = 40
  FragCap = 8
  MsgCap = 3
  ReadInit = 8
  ReadMemSize = 12
  PktBufSize = 17
  EpcSize = 10

SPECIFICATION FairSpec

PROPERTIES
  EverySendCalledBack

CHECK_DEADLOCK FALSE
