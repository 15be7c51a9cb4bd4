CONSTANTS
  SeqSpace = 10
  Window = 5
  MsgSize <- LivenessMessages
  MsgBufSize = 20
  MsgInfoSize = 3
  FragBufSize = 64
  FragHeader = 2
  WriteInit = 20
  WriteMin = 20
  WriteMax = 20
  CtrlSize = 3
  MaxReads = 0
  ReaderMayFail = FALSE
  AckQueueCap = 3
  EpcCap = 2

SPECIFICATION FairSpec

PROPERTIES
  EverySendResolves

CHECK_DEADLOCK FALSE
