CONSTANTS
  Item = {a, b}
  NoItem = none
  Capacity = 3

SPECIFICATION Spec

INVARIANTS
  TypeOK
  CursorsAgree
  PeekAgrees

PROPERTY ImplementsFifo
