CONSTANTS
  w1 = w1
  w2 = w2
  t1 = t1
  k1 = k1
  k2 = k2
  NULL = NULL
  Nobody = Nobody
  Workers <- MCWorkers
  Threads <- MCThreads
  Tokens <- MCTokens
SPECIFICATION FairSpec
INVARIANT TypeOK
INVARIANT RefreshTruthful
INVARIANT LatestToken
INVARIANT FailureTold
PROPERTY CallbackInvoked
