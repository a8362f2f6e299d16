------------------------- MODULE MC_ShutdownManager -------------------------
(* Two hooks; the signal goroutine, one trigger call and one              *)
(* GracefulShutdown as callers of shutdown.                               *)
EXTENDS ShutdownManagerImpl

CONSTANTS h1, h2
=============================================================================
