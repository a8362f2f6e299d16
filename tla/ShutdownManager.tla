--------------------------- MODULE ShutdownManager ---------------------------
(***************************************************************************)
(* The graceful-shutdown manager of src/shutdown/shutdown.go.             *)
(*                                                                         *)
(* A Manager holds the registered hooks, a started flag and the channel   *)
(* done.  Start (once) subscribes to the OS signals, spawns a goroutine   *)
(* that calls shutdown on the first signal, and returns a trigger that    *)
(* calls shutdown too; HealthAwareManager.GracefulShutdown calls it       *)
(* directly.  shutdown copies the hooks under the read lock, runs them    *)
(* last-registered first (an error is skipped), and closes done.          *)
(*                                                                         *)
(* Every caller of shutdown is a process of its own: "signal" is the      *)
(* signal goroutine, each t \in Triggers one call of the returned         *)
(* trigger, each g \in Graceful one GracefulShutdown.  A hook is a name;  *)
(* a hook call returns nil, returns an error, or, when HookMayHang, never *)
(* returns because it ignores its context.                                *)
(***************************************************************************)
EXTENDS Naturals, Sequences, SequencesExt

CONSTANTS
    HookNames,    \* the hooks an application registers
    Triggers,     \* calls of the trigger function Start returns
    Graceful,     \* calls of HealthAwareManager.GracefulShutdown
    HookMayHang   \* a hook may ignore the timeout context and never return

ASSUME ShutdownAssumption ==
    /\ IsFiniteSet(HookNames)
    /\ "signal" \notin Triggers \cup Graceful
    /\ Triggers \cap Graceful = {}
    /\ HookMayHang \in BOOLEAN

Procs == {"signal"} \cup Triggers \cup Graceful

\* Where a caller of shutdown is: not spawned yet / waiting on sigChan or
\* for its caller, about to copy the hooks, in the loop, stuck in a hook
\* that never returns, finished.
PCs == {"absent", "idle", "sleep", "copy", "loop", "hung", "done"}

VARIABLES
    hooks,      \* m.hooks, in registration order
    started,    \* m.started
    notified,   \* signal.Notify(sigChan, ...) has run
    startPC,    \* main's call of Start: "call", "claimed", "returned"
    sigChan,    \* signals buffered in sigChan (capacity 1)
    proc,       \* per caller: pc, snapshot of hooks, loop index, hooks run
    doneClosed, \* close(m.done) has run
    healthy,    \* HealthAwareManager.isHealthy
    waited,     \* main's Wait() has returned
    killed,     \* a signal nobody subscribed to ended the process
    panicked,   \* a second close(m.done) panicked and ended the process
    sigAfterStart \* auxiliary: a signal arrived after Start had returned

vars == <<hooks, started, notified, startPC, sigChan, proc, doneClosed,
          healthy, waited, killed, panicked, sigAfterStart>>

Proc == [pc : PCs, snap : Seq(HookNames), i : Nat, ran : Seq(HookNames)]

\* Type invariant.
TypeOK ==
    /\ hooks \in Seq(HookNames)
    /\ started \in BOOLEAN /\ notified \in BOOLEAN /\ doneClosed \in BOOLEAN
    /\ healthy \in BOOLEAN /\ waited \in BOOLEAN /\ killed \in BOOLEAN
    /\ panicked \in BOOLEAN /\ sigAfterStart \in BOOLEAN
    /\ startPC \in {"call", "claimed", "returned"}
    /\ sigChan \in 0..1
    /\ proc \in [Procs -> Proc]

\* NewManager / NewHealthAwareManager: no hooks, healthy, not started.
Init ==
    /\ hooks = <<>>
    /\ started = FALSE
    /\ notified = FALSE
    /\ startPC = "call"
    /\ sigChan = 0
    /\ proc = [p \in Procs |->
                 [pc |-> IF p = "signal" THEN "absent" ELSE "idle",
                  snap |-> <<>>, i |-> 0, ran |-> <<>>]]
    /\ doneClosed = FALSE
    /\ healthy = TRUE
    /\ waited = FALSE
    /\ killed = FALSE
    /\ panicked = FALSE
    /\ sigAfterStart = FALSE

\* AddHook: append under the write lock; each hook is registered once.
AddHook(h) ==
    /\ h \notin Range(hooks)
    /\ hooks' = Append(hooks, h)
    /\ UNCHANGED <<started, notified, startPC, sigChan, proc, doneClosed,
                   healthy, waited, killed, panicked, sigAfterStart>>

\* Start, first lock section: claim the manager, or return a no-op trigger.
StartClaim ==
    /\ startPC = "call"
    /\ IF started
       THEN /\ startPC' = "returned"
            /\ UNCHANGED started
       ELSE /\ started' = TRUE
            /\ startPC' = "claimed"
    /\ UNCHANGED <<hooks, notified, sigChan, proc, doneClosed, healthy,
                   waited, killed, panicked, sigAfterStart>>

\* Mutant: Start without signal.Notify.
StartListenNoNotify ==
    /\ startPC = "claimed"
    /\ startPC' = "returned"
    /\ proc' = [proc EXCEPT !["signal"].pc = "idle"]
    /\ UNCHANGED <<hooks, started, notified, sigChan, doneClosed, healthy,
                   waited, killed, panicked, sigAfterStart>>

\* Start, after the unlock: signal.Notify, spawn the signal goroutine,
\* return the trigger.
StartListen ==
    /\ startPC = "claimed"
    /\ notified' = TRUE
    /\ startPC' = "returned"
    /\ proc' = [proc EXCEPT !["signal"].pc = "idle"]
    /\ UNCHANGED <<hooks, started, sigChan, doneClosed, healthy, waited,
                   killed, panicked, sigAfterStart>>

\* Mutant: every signal queued, as if the channel had no capacity bound.
SignalQueued ==
    /\ IF notified
       THEN /\ sigChan' = sigChan + 1
            /\ UNCHANGED killed
       ELSE /\ killed' = TRUE
            /\ UNCHANGED sigChan
    /\ sigAfterStart' = (sigAfterStart \/ startPC = "returned")
    /\ UNCHANGED <<hooks, started, notified, startPC, proc, doneClosed,
                   healthy, waited, panicked>>

\* The OS delivers SIGINT or SIGTERM: into sigChan if subscribed (dropped
\* when the buffer is full), otherwise the default action ends the process.
Signal ==
    /\ IF notified
       THEN /\ sigChan' = 1
            /\ UNCHANGED killed
       ELSE /\ killed' = TRUE
            /\ UNCHANGED sigChan
    /\ sigAfterStart' = (sigAfterStart \/ startPC = "returned")
    /\ UNCHANGED <<hooks, started, notified, startPC, proc, doneClosed,
                   healthy, waited, panicked>>

\* The signal goroutine receives from sigChan and calls shutdown.
SignalReceived ==
    /\ proc["signal"].pc = "idle"
    /\ sigChan = 1
    /\ sigChan' = 0
    /\ proc' = [proc EXCEPT !["signal"].pc = "copy"]
    /\ UNCHANGED <<hooks, started, notified, startPC, doneClosed, healthy,
                   waited, killed, panicked, sigAfterStart>>

\* The application calls the trigger Start returned.
CallTrigger(t) ==
    /\ startPC = "returned"
    /\ proc[t].pc = "idle"
    /\ proc' = [proc EXCEPT ![t].pc = "copy"]
    /\ UNCHANGED <<hooks, started, notified, startPC, sigChan, doneClosed,
                   healthy, waited, killed, panicked, sigAfterStart>>

\* GracefulShutdown: SetHealthy(false), then sleep preShutdownDelay.
MarkUnhealthy(g) ==
    /\ proc[g].pc = "idle"
    /\ healthy' = FALSE
    /\ proc' = [proc EXCEPT ![g].pc = "sleep"]
    /\ UNCHANGED <<hooks, started, notified, startPC, sigChan, doneClosed,
                   waited, killed, panicked, sigAfterStart>>

\* GracefulShutdown: the sleep ends and shutdown is called.
DelayElapsed(g) ==
    /\ proc[g].pc = "sleep"
    /\ proc' = [proc EXCEPT ![g].pc = "copy"]
    /\ UNCHANGED <<hooks, started, notified, startPC, sigChan, doneClosed,
                   healthy, waited, killed, panicked, sigAfterStart>>

\* shutdown: copy the hooks under the read lock; the loop starts at the end.
CopyHooks(p) ==
    /\ proc[p].pc = "copy"
    /\ proc' = [proc EXCEPT ![p] = [pc |-> "loop", snap |-> hooks,
                                    i |-> Len(hooks), ran |-> @.ran]]
    /\ UNCHANGED <<hooks, started, notified, startPC, sigChan, doneClosed,
                   healthy, waited, killed, panicked, sigAfterStart>>

\* The outcomes of a hook call.
Outcomes == {"ok", "err"} \cup (IF HookMayHang THEN {"hang"} ELSE {})

\* Mutant: a hook error ends the loop (break instead of continue).
RunHookBreak(p) ==
    /\ proc[p].pc = "loop"
    /\ proc[p].i > 0
    /\ \E out \in Outcomes :
         proc' = [proc EXCEPT
                    ![p] = [pc |-> IF out = "hang" THEN "hung" ELSE "loop",
                            snap |-> @.snap,
                            i |-> IF out = "err" THEN 0 ELSE @.i - 1,
                            ran |-> Append(@.ran, @.snap[@.i])]]
    /\ UNCHANGED <<hooks, started, notified, startPC, sigChan, doneClosed,
                   healthy, waited, killed, panicked, sigAfterStart>>

\* shutdown: call hooks[i] with the timeout context; go on whatever it returns.
RunHook(p) ==
    /\ proc[p].pc = "loop"
    /\ proc[p].i > 0
    /\ \E out \in Outcomes :
         proc' = [proc EXCEPT
                    ![p] = [pc |-> IF out = "hang" THEN "hung" ELSE "loop",
                            snap |-> @.snap,
                            i |-> @.i - 1,
                            ran |-> Append(@.ran, @.snap[@.i])]]
    /\ UNCHANGED <<hooks, started, notified, startPC, sigChan, doneClosed,
                   healthy, waited, killed, panicked, sigAfterStart>>

\* shutdown: close(m.done) after the loop; a second close panics.
CloseDone(p) ==
    /\ proc[p].pc = "loop"
    /\ proc[p].i = 0
    /\ proc' = [proc EXCEPT ![p].pc = "done"]
    /\ IF doneClosed
       THEN /\ panicked' = TRUE
            /\ UNCHANGED doneClosed
       ELSE /\ doneClosed' = TRUE
            /\ UNCHANGED panicked
    /\ UNCHANGED <<hooks, started, notified, startPC, sigChan, healthy,
                   waited, killed, sigAfterStart>>

\* main's Wait(): <-m.done.
Wait ==
    /\ ~waited
    /\ doneClosed
    /\ waited' = TRUE
    /\ UNCHANGED <<hooks, started, notified, startPC, sigChan, proc,
                   doneClosed, healthy, killed, panicked, sigAfterStart>>

\* The steps of the shutdown callers, which the Go scheduler runs.
ProcStep(p) == (p = "signal" /\ SignalReceived) \/ CopyHooks(p) \/ RunHook(p) \/ CloseDone(p)

\* A panic or an unhandled signal ends the process.
Next ==
    /\ ~panicked /\ ~killed
    /\ \/ \E h \in HookNames : AddHook(h)
       \/ StartClaim \/ StartListen \/ Signal \/ Wait
       \/ \E t \in Triggers : CallTrigger(t)
       \/ \E g \in Graceful : MarkUnhealthy(g) \/ DelayElapsed(g)
       \/ \E p \in Procs : ProcStep(p)

\* Goroutines that can run eventually do; the sleep ends; main's Start
\* returns.  The application's calls and the OS's signals are not fair.
Spec ==
    /\ Init /\ [][Next]_vars
    /\ \A p \in Procs : WF_vars(~panicked /\ ~killed /\ ProcStep(p))
    /\ \A g \in Graceful : WF_vars(~panicked /\ ~killed /\ DelayElapsed(g))
    /\ WF_vars(~panicked /\ ~killed /\ (StartClaim \/ StartListen))

(***************************************************************************)
(* Properties.                                                            *)
(***************************************************************************)

\* A SIGINT or SIGTERM arriving after Start has returned leads to done
\* being closed, so Wait returns (while the process lives).
SignalAfterStartShutsDown == sigAfterStart ~> doneClosed

\* shutdown may run more than once (trigger and signal, or a trigger called
\* twice) without ending the process: done is never closed twice.
NoDoubleClose == ~panicked
=============================================================================
