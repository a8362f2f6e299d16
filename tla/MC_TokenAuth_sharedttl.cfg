\* The validation path with two instances of equal CacheTTL.
CONSTANTS
    r1 = r1
    r2 = r2
    t1 = t1
    t2 = t2
    m1 = m1
    m2 = m2
    Reqs <- MCReqs
    Tokens <- MCTokens
    Mws <- MCMws
    CacheTTLOf <- MCMixedCacheTTLOf
    RequiredOf <- MCRequiredOf
    AuthEnabled = TRUE
    TokenScopes <- MCTokenScopes
    SizeThreshold <- MCSizeThreshold
    MaxTime <- MCMaxTime
SPECIFICATION Spec
INVARIANT AdmissionBackedByRecentValidation
