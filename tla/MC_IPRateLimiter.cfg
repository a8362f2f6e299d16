CONSTANTS
    p1 = p1
    p2 = p2
    a1 = a1
    a2 = a2
    Procs <- MCProcs
    IPs <- MCIPs
    Burst <- MCBurst
    Rate <- MCRate
    TTL <- MCTTL
    MaxTime <- MCMaxTime
SPECIFICATION Spec
INVARIANT TypeOK
PROPERTY StopEndsCleanupLoop
