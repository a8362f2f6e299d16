----------------------------- MODULE HookShutdown -----------------------------
(***************************************************************************)
(* What a shutdown manager promises, without signals, triggers or health: *)
(* hooks are registered once each, in order; a caller of shutdown takes a *)
(* snapshot of the registered hooks, runs them from the last registered   *)
(* to the first, each once, whatever each returns, and only then marks    *)
(* shutdown done.  A hook may never return, and its caller is then stuck. *)
(* Hooks registered after a caller's snapshot are not run by that caller. *)
(***************************************************************************)
EXTENDS Naturals, Sequences, SequencesExt

CONSTANTS
    HookNames,  \* the hooks
    Callers     \* the callers of shutdown

VARIABLES
    registered, \* the hooks, in registration order
    runner,     \* per caller: its phase, its snapshot, the hooks it ran
    closed      \* shutdown is done

hvars == <<registered, runner, closed>>

Phases == {"waiting", "running", "stuck", "finished"}

TypeOK ==
    /\ registered \in Seq(HookNames)
    /\ runner \in [Callers -> [phase : Phases, snap : Seq(HookNames), ran : Seq(HookNames)]]
    /\ closed \in BOOLEAN

Init ==
    /\ registered = << >>
    /\ runner = [c \in Callers |-> [phase |-> "waiting", snap |-> << >>, ran |-> << >>]]
    /\ closed = FALSE

Register(h) ==
    /\ h \notin Range(registered)
    /\ registered' = Append(registered, h)
    /\ UNCHANGED <<runner, closed>>

\* A caller takes its snapshot of the registered hooks.
Begin(c) ==
    /\ runner[c].phase = "waiting"
    /\ runner' = [runner EXCEPT ![c] = [phase |-> "running", snap |-> registered,
                                        ran |-> << >>]]
    /\ UNCHANGED <<registered, closed>>

\* A caller runs the last hook of its snapshot it has not run yet; the hook
\* returns, or never does.
RunNext(c) ==
    LET r == runner[c]
    IN  /\ r.phase = "running"
        /\ Len(r.ran) < Len(r.snap)
        /\ \E ph \in {"running", "stuck"} :
              runner' = [runner EXCEPT ![c] =
                           [phase |-> ph, snap |-> r.snap,
                            ran |-> Append(r.ran, r.snap[Len(r.snap) - Len(r.ran)])]]
        /\ UNCHANGED <<registered, closed>>

\* A caller that has run its whole snapshot marks shutdown done.
Finish(c) ==
    /\ runner[c].phase = "running"
    /\ Len(runner[c].ran) = Len(runner[c].snap)
    /\ runner' = [runner EXCEPT ![c].phase = "finished"]
    /\ closed' = TRUE
    /\ UNCHANGED registered

Next ==
    \/ \E h \in HookNames : Register(h)
    \/ \E c \in Callers : Begin(c) \/ RunNext(c) \/ Finish(c)

Spec == Init /\ [][Next]_hvars
=============================================================================
