---------------------------- MODULE MC_TokenAuth ----------------------------
(* Two requests, two tokens, two middleware instances sharing the cache.  *)
EXTENDS TokenAuth

CONSTANTS r1, r2, t1, t2, m1, m2

MCReqs == {r1, r2}
MCTokens == {t1, t2}
MCMws == {m1, m2}

\* Both instances keep entries one minute.
MCCacheTTLOf == [m \in MCMws |-> 1]

\* m1 leaves CacheTTL unset (5 minutes); m2 sets one minute.
MCMixedCacheTTLOf == [m \in MCMws |-> IF m = m1 THEN 0 ELSE 1]

\* m1 requires notifications:send; m2 requires nothing.
MCRequiredOf == [m \in MCMws |-> IF m = m1 THEN <<"notifications", "send">> ELSE NoScope]

\* t1 holds notifications:*; t2 holds only notifications:read.
MCTokenScopes == [t \in MCTokens |-> IF t = t1 THEN {<<"notifications", "*">>}
                                               ELSE {<<"notifications", "read">>}]
MCSizeThreshold == 1
MCMaxTime == 2
=============================================================================
