------------------------- MODULE MCOAuth2Authorizer -------------------------
EXTENDS OAuth2Authorizer
CONSTANTS t1, t2, a1, a2, r1, r2
MCThreads == {t1, t2}
MCAccessTokens == {a1}
MCRefreshTokens == {r1, r2}
MCSetTokens == {r1, r2}
MCSetTokensOrNull == {r1, NULL}
MCNoSetTokens == {}
=============================================================================
