CONSTANTS
  t1 = t1
  t2 = t2
  i1 = i1
  Threads <- MCOneThread
  Items <- MCItems
  CallsOf <- MCCallsOf
  MaxLimited = 1
SPECIFICATION Spec
INVARIANT SignedOnce
