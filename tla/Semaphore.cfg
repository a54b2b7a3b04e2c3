SPECIFICATION FairSpec
CONSTANTS
  t1 = t1
  t2 = t2
  t3 = t3
  Takers <- MCTakers
  maxCount = 2
  uInitCount = 3
  Modulus = 8
INVARIANT NoSleeperWithTokens
PROPERTIES
  ImplementsSemaphore
  TokensAreTaken
