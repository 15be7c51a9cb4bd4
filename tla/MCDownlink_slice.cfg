CONSTANTS
  SeqSpace = 16
  Window = 6
  MsgSize <- LongMessage
  MsgBufSize = 20
  MsgInfoSize = 3
  FragBufSize = 64
  FragHeader = 2
  WriteInit = 12
  WriteMin = 12
  WriteMax = 12
  CtrlSize = 3
  MaxReads = 0
  ReaderMayFail = FALSE
  AckQueueCap = 3
  EpcCap = 2

SPECIFICATION Spec

INVARIANTS
  OngoingMeansInFlight

CHECK_DEADLOCK FALSE
