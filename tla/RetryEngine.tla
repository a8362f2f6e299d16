----------------------------- MODULE RetryEngine -----------------------------
(***************************************************************************)
(* One logical unary call through the retry interceptor of the RPC client *)
(* (src/grpcclient/client.go, createRetryInterceptor), with the policy    *)
(* NewClient installs and the backoff of calculateBackoff/pow.            *)
(*                                                                         *)
(* The loop runs attempt = 0 .. MaxRetries.  Before every attempt but the *)
(* first it waits in a select between ctx.Done() and time.After(delay);   *)
(* each attempt calls the invoker, whose status code decides: OK returns, *)
(* a code outside the retryable set returns that error, a retryable code  *)
(* goes round again, and leaving the loop returns the service-unavailable *)
(* error wrapping the last error.  The caller's context may be cancelled  *)
(* (or reach its deadline) at any moment: that is the environment action. *)
(*                                                                         *)
(* Status codes are strings; the float backoff factor is an integer here. *)
(***************************************************************************)
EXTENDS Integers, Sequences

CONSTANTS
    Codes,                 \* status codes the invoker may return, "OK" included
    ConfiguredMaxRetries,  \* Config.RetryConfig.MaxRetries as passed to NewClient
    ConfiguredRetryable,   \* Config.RetryConfig.RetryableCodes
    InitialDelay,          \* RetryConfig.InitialDelay, in time units
    MaxDelay,              \* RetryConfig.MaxDelay
    BackoffFactor          \* RetryConfig.BackoffFactor, as an integer

\* The codes a cancelled context makes the invoker return (status.FromContextError).
CtxCodes == {"Canceled", "DeadlineExceeded"}

\* The lastErr of the code before any attempt has failed.
NoError == "nil"

ASSUME CodesAssumption ==
    /\ "OK" \in Codes
    /\ CtxCodes \subseteq Codes
    /\ NoError \notin Codes
    /\ ConfiguredRetryable \subseteq Codes \ {"OK"}
ASSUME PolicyAssumption ==
    /\ ConfiguredMaxRetries \in Nat
    /\ InitialDelay \in Nat \ {0}
    /\ MaxDelay \in Nat /\ MaxDelay >= InitialDelay
    /\ BackoffFactor \in Nat \ {0}

(***************************************************************************)
(* DefaultRetryConfig and the substitution in NewClient: a configuration  *)
(* whose MaxRetries is 0 is replaced as a whole by the default one.       *)
(***************************************************************************)
DefaultRetryConfig ==
    [maxRetries |-> 3, initialDelay |-> 500, maxDelay |-> 5000, backoffFactor |-> 2,
     retryable |-> {"Unavailable", "ResourceExhausted", "DeadlineExceeded", "Internal"}
                   \cap Codes]

RetryConfig ==
    IF ConfiguredMaxRetries = 0
    THEN DefaultRetryConfig
    ELSE [maxRetries |-> ConfiguredMaxRetries, initialDelay |-> InitialDelay,
          maxDelay |-> MaxDelay, backoffFactor |-> BackoffFactor,
          retryable |-> ConfiguredRetryable]

MaxRetries == RetryConfig.maxRetries

\* shouldRetryCode: membership in the configured list.
Retryable == RetryConfig.retryable

\* pow: the loop multiplying base by itself exp times.
pow[exp \in Nat] == IF exp = 0 THEN 1 ELSE RetryConfig.backoffFactor * pow[exp - 1]

\* Mutant: the exponent off by one (factor^attempt).
calculateBackoffExpOffByOne(attempt) ==
    LET delay == RetryConfig.initialDelay * pow[attempt]
    IN  IF delay > RetryConfig.maxDelay THEN RetryConfig.maxDelay ELSE delay

\* calculateBackoff: initialDelay * factor^(attempt-1), clamped to maxDelay.
calculateBackoff(attempt) ==
    LET delay == RetryConfig.initialDelay * pow[attempt - 1]
    IN  IF delay > RetryConfig.maxDelay THEN RetryConfig.maxDelay ELSE delay

\* The delays the loop can wait: one per retry.
DelayValues == {calculateBackoff(n) : n \in 1..MaxRetries}

VARIABLES
    attempt,      \* the loop variable
    pc,           \* "invoke": about to call the invoker; "wait": in the select; "done"
    lastErr,      \* the loop's lastErr
    result,       \* what the interceptor returned, "none" while it runs
    ctxErr,       \* ctx.Err(): "none" until the context is cancelled or times out
    history,      \* auxiliary: the codes the invoker returned, in order
    afterCancel,  \* auxiliary: attempts started while ctx was already done
    waitFromDone, \* auxiliary: the current select began with ctx already done
    waited        \* auxiliary: the delays of the waits begun, in order

vars == <<attempt, pc, lastErr, result, ctxErr, history, afterCancel, waitFromDone, waited>>

Results == {"none", "success", "terminal", "unavailable", "cancelled"}

TypeOK ==
    /\ attempt \in 0..MaxRetries
    /\ pc \in {"invoke", "wait", "done"}
    /\ lastErr \in Codes \cup {NoError}
    /\ result \in Results
    /\ ctxErr \in CtxCodes \cup {"none"}
    /\ history \in Seq(Codes)
    /\ afterCancel \in Nat
    /\ waitFromDone \in BOOLEAN
    /\ waited \in Seq(DelayValues)

Init ==
    /\ attempt = 0
    /\ pc = "invoke"
    /\ lastErr = NoError
    /\ result = "none"
    /\ ctxErr = "none"
    /\ history = << >>
    /\ afterCancel = 0
    /\ waitFromDone = FALSE
    /\ waited = << >>

\* The invoker's answer: with the context done it fails with the context's code.
InvokerCodes == IF ctxErr = "none" THEN Codes ELSE {ctxErr}

(***************************************************************************)
(* One attempt: invoker(ctx, ...) and the decision on its error.  The four *)
(* outcomes are the branches of the loop body and the loop's exit.        *)
(***************************************************************************)
Succeed(code) ==
    /\ code = "OK"
    /\ pc' = "done" /\ result' = "success"
    /\ UNCHANGED <<attempt, lastErr, waitFromDone, waited>>

\* Mutant: shouldRetryCode's answer inverted.
NotRetryableInverted(code) ==
    /\ code # "OK" /\ code \in Retryable
    /\ lastErr' = code
    /\ pc' = "done" /\ result' = "terminal"
    /\ UNCHANGED <<attempt, waitFromDone, waited>>

NotRetryable(code) ==
    /\ code # "OK" /\ code \notin Retryable
    /\ lastErr' = code
    /\ pc' = "done" /\ result' = "terminal"
    /\ UNCHANGED <<attempt, waitFromDone, waited>>

\* Mutant: the budget test dropped from the loop condition.
RetryLaterUnbounded(code) ==
    /\ code \in Retryable
    /\ lastErr' = code
    /\ attempt' = attempt + 1
    /\ pc' = "wait"
    /\ waitFromDone' = (ctxErr # "none")
    /\ waited' = Append(waited, calculateBackoff(attempt + 1))
    /\ UNCHANGED result

\* A retryable failure with budget left: the next iteration begins with the wait.
RetryLater(code) ==
    /\ code \in Retryable /\ attempt < MaxRetries
    /\ lastErr' = code
    /\ attempt' = attempt + 1
    /\ pc' = "wait"
    /\ waitFromDone' = (ctxErr # "none")
    /\ waited' = Append(waited, calculateBackoff(attempt + 1))
    /\ UNCHANGED result

\* Mutant: the loop bound written attempt < MaxRetries.
ExhaustedEarly(code) ==
    /\ code \in Retryable /\ attempt = MaxRetries - 1
    /\ lastErr' = code
    /\ pc' = "done" /\ result' = "unavailable"
    /\ UNCHANGED <<attempt, waitFromDone, waited>>

\* A retryable failure on the last attempt: NewServiceUnavailableError(lastErr).
Exhausted(code) ==
    /\ code \in Retryable /\ attempt = MaxRetries
    /\ lastErr' = code
    /\ pc' = "done" /\ result' = "unavailable"
    /\ UNCHANGED <<attempt, waitFromDone, waited>>

Attempt ==
    /\ pc = "invoke"
    /\ afterCancel' = IF ctxErr # "none" THEN afterCancel + 1 ELSE afterCancel
    /\ \E code \in InvokerCodes :
          /\ history' = Append(history, code)
          /\ \/ Succeed(code) \/ NotRetryable(code)
             \/ RetryLater(code) \/ Exhausted(code)
    /\ UNCHANGED ctxErr

(***************************************************************************)
(* The select.  time.After(delay) may fire while ctx.Done() is ready only  *)
(* if the context was cancelled during the wait: both channels are then   *)
(* ready and Go picks either.  A context already done when the select     *)
(* starts wins, the delay being positive.                                 *)
(***************************************************************************)
\* Mutant: a blocking time.Sleep(delay) instead of the select.
TimerFiresSleep ==
    /\ pc = "wait"
    /\ pc' = "invoke"
    /\ UNCHANGED <<attempt, lastErr, result, ctxErr, history, afterCancel, waitFromDone, waited>>

TimerFires ==
    /\ pc = "wait"
    /\ ~waitFromDone
    /\ pc' = "invoke"
    /\ UNCHANGED <<attempt, lastErr, result, ctxErr, history, afterCancel, waitFromDone, waited>>

CtxDone ==
    /\ pc = "wait"
    /\ ctxErr # "none"
    /\ pc' = "done" /\ result' = "cancelled"
    /\ UNCHANGED <<attempt, lastErr, ctxErr, history, afterCancel, waitFromDone, waited>>

\* Environment: the caller cancels the context or its deadline passes.
Cancel ==
    /\ ctxErr = "none" /\ pc # "done"
    /\ \E cause \in CtxCodes : ctxErr' = cause
    /\ UNCHANGED <<attempt, pc, lastErr, result, history, afterCancel, waitFromDone, waited>>

Next == Attempt \/ TimerFires \/ CtxDone \/ Cancel

\* No fairness: the invoker may block forever, so the interceptor need not
\* return, and only safety is checked.
Spec == Init /\ [][Next]_vars

-----------------------------------------------------------------------------
(***************************************************************************)
(* Properties                                                              *)
(***************************************************************************)

(* The distinguished service-unavailable error is returned only after the *)
(* whole budget of MaxRetries + 1 attempts was spent, every one of them   *)
(* failing with a retryable code, and it wraps the error of the last one  *)
(* (createRetryInterceptor's loop exit and NewServiceUnavailableError).   *)
ExhaustionOnlyAfterFullBudget ==
    result = "unavailable" =>
        /\ Len(history) = MaxRetries + 1
        /\ \A i \in 1..Len(history) : history[i] \in Retryable
        /\ lastErr = history[Len(history)]

(* A call that returns success or its own error stops at the first attempt *)
(* that did not fail retryably: every earlier attempt failed with a       *)
(* retryable code, and an error returned as such is the last attempt's    *)
(* non-retryable code (the two early returns of the loop body).           *)
ReturnedOutcomeIsFirstFinal ==
    result \in {"success", "terminal"} =>
        /\ Len(history) >= 1
        /\ \A i \in 1..Len(history) - 1 : history[i] \in Retryable
        /\ result = "success" => history[Len(history)] = "OK"
        /\ result = "terminal" => /\ lastErr = history[Len(history)]
                                  /\ lastErr \notin Retryable \cup {"OK"}

(* Cancellation is honoured at the next wait: once the context is done,   *)
(* the interceptor starts at most one more attempt (the one whose select  *)
(* raced the cancellation) and never reports a cancellation it did not    *)
(* see (the select on ctx.Done() before each retry).                      *)
PromptCancellation ==
    /\ afterCancel <= 1
    /\ result = "cancelled" => ctxErr # "none"

(* The waits between attempts follow the backoff schedule: the first is  *)
(* exactly the initial delay, each is at most the maximum delay, and they *)
(* never decrease (calculateBackoff and pow).                             *)
BackoffSchedule ==
    /\ Len(waited) >= 1 => waited[1] = RetryConfig.initialDelay
    /\ \A i \in 1..Len(waited) : waited[i] <= RetryConfig.maxDelay
    /\ \A i \in 1..Len(waited) - 1 : waited[i] <= waited[i + 1]

(* The number of attempts honours the configured budget: at most         *)
(* MaxRetries + 1 invocations for the MaxRetries the caller configured    *)
(* (spec, section 8, "Retry budget respected").                           *)
AttemptsWithinConfiguredBudget ==
    Len(history) <= ConfiguredMaxRetries + 1

=============================================================================
