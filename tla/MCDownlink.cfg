CONSTANTS
  SeqSpace = 16
  Window = 5
  MsgSize <- SafetyMessages
  MsgBufSize = 20
  MsgInfoSize = 3
  FragBufSize = 64
  FragHeader = 2
  WriteInit = 10
  WriteMin = 10
  WriteMax = 12
  CtrlSize = 3
  MaxReads = 1
  ReaderMayFail = TRUE
  AckQueueCap = 3
  EpcCap = 2

SPECIFICATION Spec

INVARIANTS
  TypeOK
  FragmentsTile
  ReceiverWithinSent
  AckedMeansResolved
  AssembledMeansDelivered
  FragmentsDisjoint
  AccessSpecGuarded

PROPERTIES
  NoOverlappingAccessSpecs
  SeqNumbersAdvance
  ImplementsStream

CHECK_DEADLOCK FALSE
