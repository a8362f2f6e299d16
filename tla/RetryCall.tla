------------------------------ MODULE RetryCall ------------------------------
(***************************************************************************)
(* What a call through the retry engine promises its caller, without the  *)
(* loop, the timer or the error bookkeeping: the call invokes the         *)
(* downstream service at most Budget times; it returns success on the     *)
(* first OK, the error itself on the first code that is not retryable,    *)
(* the distinguished unavailable error once Budget attempts have all      *)
(* failed retryably, and a cancellation only when the caller cancelled,   *)
(* between two attempts.                                                  *)
(***************************************************************************)
EXTENDS Naturals, Sequences

CONSTANTS
    Codes,      \* the status codes an attempt may end with, "OK" included
    Retryable,  \* the codes worth another attempt
    Budget      \* the most attempts a call makes

VARIABLES
    history,    \* the codes of the attempts made, in order
    outcome,    \* "none" while the call runs, then what it returned
    cancelled   \* the caller has cancelled (or its deadline passed)

avars == <<history, outcome, cancelled>>

Init ==
    /\ history = << >>
    /\ outcome = "none"
    /\ cancelled = FALSE

\* What an attempt that ends with code makes of the call.
Verdict(code, n) ==
    CASE code = "OK"                                 -> "success"
      [] code # "OK" /\ code \notin Retryable        -> "terminal"
      [] code # "OK" /\ code \in Retryable /\ n = Budget -> "unavailable"
      [] OTHER                                       -> "none"

\* One more attempt while the call runs and the budget lasts.
Invoke ==
    /\ outcome = "none"
    /\ Len(history) < Budget
    /\ \E code \in Codes :
          /\ history' = Append(history, code)
          /\ outcome' = Verdict(code, Len(history) + 1)
    /\ UNCHANGED cancelled

\* Between attempts, a cancelled call returns the cancellation.
GiveUp ==
    /\ outcome = "none"
    /\ cancelled
    /\ Len(history) >= 1
    /\ outcome' = "cancelled"
    /\ UNCHANGED <<history, cancelled>>

\* The caller cancels a running call.
Cancel ==
    /\ outcome = "none"
    /\ ~cancelled
    /\ cancelled' = TRUE
    /\ UNCHANGED <<history, outcome>>

Next == Invoke \/ GiveUp \/ Cancel

SafetySpec == Init /\ [][Next]_avars
=============================================================================
