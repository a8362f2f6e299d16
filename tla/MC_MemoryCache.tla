--------------------------- MODULE MC_MemoryCache ---------------------------
(* Two full keys, counters up to MaxVal, DefaultTTL, ttl arguments -1, 0  *)
(* and 1, two Keys patterns; the cfgs give MaxVal, DefaultTTL and MaxTime. *)
EXTENDS MemoryCacheImpl

CONSTANTS k1, k2

MCKeys == {k1, k2}
MCTTLs == {-1, 0, 1}
MCMatches == [p \in {"p1", "all"} |-> IF p = "p1" THEN {k1} ELSE {k1, k2}]
=============================================================================
