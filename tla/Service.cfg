CONSTANTS
  t1 = t1
  t2 = t2
  i1 = i1
  Threads <- MCThreads
  Items <- MCItems
  CallsOf <- MCCallsOf
  MaxLimited = 1
SPECIFICATION FairSpec
INVARIANT TypeOK
INVARIANT ItemMeansExecuted
INVARIANT AtMostOnce
INVARIANT ErrorMeansFailure
INVARIANT RetryKeepsSignature
PROPERTY CallsReturn
