CONSTANTS
  SeqSpace = 8
  Window = 4
  MsgSize <- WrapMessages
  MsgBufSize = 20
  MsgInfoSize = 3
  FragBufSize = 64
  FragHeader = 2
  WriteInit = 9
  WriteMin = 9
  WriteMax = 9
  CtrlSize = 3
  MaxReads = 0
  ReaderMayFail = FALSE
  AckQueueCap = 3
  EpcCap = 2

SPECIFICATION Spec

INVARIANTS
  AssembledMeansDelivered

CHECK_DEADLOCK FALSE
