CONSTANTS
  SeqSpace = 16
  Window = 7
  MsgSize <- NoDownMessages
  WriteInit = 8
  WriteMin = 8
  WriteMax = 10
  CtrlSize = 3
  MaxReads = 6
  ReaderMayFail = TRUE
  UpSize <- UpMessages
  TxBufSize = 14
  FragCap = 8
  MsgCap = 2
  ReadInit = 8
  ReadMemSize = 12
  PktBufSize = 12
  EpcSize = 4

SPECIFICATION Spec

INVARIANTS
  TypeOK
  AckedWithinReceived
  ReadsBalanced

PROPERTIES
  UplinkNumbersAdvance
  
  PumpKeepsPackets

CHECK_DEADLOCK FALSE
