CONSTANTS
  SeqSpace = 8
  Window = 4
  MsgSize <- NoDownMessages
  WriteInit = 8
  WriteMin = 8
  WriteMax = 10
  CtrlSize = 3
  MaxReads = 8
  ReaderMayFail = TRUE
  PktBufSize = 16
  EpcSize = 10
  MaxRestarts = 2
  MaxSends = 1

SPECIFICATION FairSpec

INVARIANTS
  TypeOK
  OpenedTogether
  NeverReopened

PROPERTIES
  EventuallyOpened

CHECK_DEADLOCK FALSE
