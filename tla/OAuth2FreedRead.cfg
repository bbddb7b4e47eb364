CONSTANTS
  t1 = t1
  t2 = t2
  a1 = a1
  a2 = a2
  r1 = r1
  r2 = r2
  NULL = NULL
  Nobody = Nobody
  Empty = Empty
  Threads <- MCThreads
  AccessTokens <- MCAccessTokens
  RefreshTokens <- MCRefreshTokens
  SetTokens <- MCNoSetTokens
SPECIFICATION Spec
INVARIANT NoFreedRead
