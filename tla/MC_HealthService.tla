--------------------------- MODULE MC_HealthService ---------------------------
(* Small instances of HealthService for TLC.                               *)
EXTENDS HealthService

CONSTANTS pg, rd, fn, nf

\* A Postgres checker without a pinger, a Redis checker with one, a custom
\* function, and a CustomChecker without a function.
MCKind == (pg :> "nilPinger") @@ (rd :> "ping") @@ (fn :> "func") @@ (nf :> "nilFunc")
=============================================================================
