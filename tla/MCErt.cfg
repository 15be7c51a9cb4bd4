CONSTANTS
  Path = {p, q}
  RealFds = 3
  TableSize = 2
  EBADF = 9
  EIO = 5
  MaxCalls = 4
  HeapSize = 3
  MayFail = TRUE

SPECIFICATION FairSpec

INVARIANTS
  TypeOK
  OneAwait
  ClosuresFreed
  FdsReachTheirFiles

PROPERTIES
  AwaitedResult
  LostAwait
  AwaitEnds

CHECK_DEADLOCK FALSE
