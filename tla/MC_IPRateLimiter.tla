-------------------------- MODULE MC_IPRateLimiter --------------------------
(* Small instances of IPRateLimiter for TLC.                               *)
EXTENDS IPRateLimiter, TLC

CONSTANTS p1, p2, a1, a2

\* Two handlers, so that two first requests of one IP can race.
MCProcs == {p1, p2}
\* Two clients, so that cleanup can remove one entry and keep the other.
MCIPs == {a1, a2}
\* The OTP middleware's burst of 1, refilled by one token per time unit.
MCBurst == 1
MCRate == 1
\* Entries idle for more than one unit are stale; three units let one go stale.
MCTTL == 1
MCMaxTime == 3

MCSymmetry == Permutations(MCProcs) \cup Permutations(MCIPs)
=============================================================================
