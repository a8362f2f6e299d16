------------------------- MODULE ShutdownManagerImpl -------------------------
(***************************************************************************)
(* The shutdown manager implements the promise of HookShutdown.  Every    *)
(* caller of shutdown (the signal goroutine, each trigger call, each      *)
(* GracefulShutdown) is a caller of the abstract manager.  A caller that  *)
(* has not copied the hooks yet is waiting, in the loop it is running,    *)
(* stuck in a hook that never returns it is stuck, after close(m.done) it *)
(* is finished.  started, signal.Notify, sigChan, the health flag, Wait   *)
(* and the loop index are hidden: the steps that only change them are     *)
(* stuttering steps.                                                      *)
(***************************************************************************)
EXTENDS ShutdownManager

\* The phase of a caller in the abstract manager.
PhaseOf(pc) ==
    CASE pc = "loop" -> "running"
      [] pc = "hung" -> "stuck"
      [] pc = "done" -> "finished"
      [] OTHER       -> "waiting"

Hooks == INSTANCE HookShutdown WITH
             Callers <- Procs,
             registered <- hooks,
             runner <- [p \in Procs |-> [phase |-> PhaseOf(proc[p].pc),
                                         snap |-> proc[p].snap, ran |-> proc[p].ran]],
             closed <- doneClosed

(* The manager behaves as HookShutdown: each caller of shutdown runs the  *)
(* hooks registered when it copied them, last registered first, each      *)
(* once, whatever each returns; done is closed only by a caller that has  *)
(* run all of them; and a caller runs nothing before its copy.            *)
HookShutdownSpec == Hooks!Spec
=============================================================================
