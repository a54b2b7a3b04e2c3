SPECIFICATION Spec
CONSTANTS
  t1 = t1
  t2 = t2
  t3 = t3
  a = a
  b = b
  none = none
  Threads <- MCThreads
  Items <- MCItems
  NoItem <- none
  uQueueSize = 2
INVARIANTS
  TypeOK
  SlotsAccounted
PROPERTY ImplementsQueue
SYMMETRY MCSymmetry
