CONSTANTS
    r1 = r1
    r2 = r2
    t1 = t1
    t2 = t2
    m1 = m1
    m2 = m2
    m3 = m3
    Reqs = {r1, r2}
    Tokens = {t1, t2}
    Methods = {m1, m2, m3}
    ScopeMap <- MCScopeMap
    SkipMethods = {m3}
    Enabled = TRUE
    CacheTTL = 1
    TokenScopes <- MCTokenScopes
    TokenExpiry <- MCTokenExpiry
    SizeThreshold = 1
    MaxTime = 2
SPECIFICATION Spec
INVARIANT
    HandlerTokenUnexpired
