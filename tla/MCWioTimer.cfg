CONSTANTS
  Timer = {t1, t2}
  None = None
  WordSpace = 2
  MaxTime = 2
  TicksPerCall = 1

SPECIFICATION FairSpec

INVARIANTS
  TypeOK
  ListSound

PROPERTIES
  FiresOnTime
  ClearedStaysUnused
  LostNeverFires
  WaitReturns

CHECK_DEADLOCK FALSE
