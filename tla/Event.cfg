SPECIFICATION FairSpec
CONSTANTS
  t1 = t1
  t2 = t2
  t3 = t3
  Waiters <- MCWaiters
  Kinds <- MCKinds
  bSet = TRUE
INVARIANTS
  AutomaticWakesOne
PROPERTIES
  ImplementsEvent
  SetIsPassed
