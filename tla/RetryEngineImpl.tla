--------------------------- MODULE RetryEngineImpl ---------------------------
(***************************************************************************)
(* The retry interceptor implements the promise of RetryCall.  The        *)
(* refinement mapping keeps the codes the invoker returned and the result *)
(* of the interceptor, reads the caller's cancellation from ctx.Err(),    *)
(* and sets the budget to the effective MaxRetries + 1 attempts.  The     *)
(* waits of the select (TimerFires) and the interceptor's own lastErr,    *)
(* attempt and pc are hidden: a timer firing is a stuttering step.        *)
(***************************************************************************)
EXTENDS RetryEngine

Call == INSTANCE RetryCall WITH
            Codes <- Codes,
            Retryable <- Retryable,
            Budget <- MaxRetries + 1,
            history <- history,
            outcome <- result,
            cancelled <- (ctxErr # "none")

(* The interceptor, with every policy NewClient installs, behaves as the  *)
(* abstract call: at most MaxRetries + 1 attempts, the outcome decided by *)
(* the first non-retryable code or the exhausted budget, and a           *)
(* cancellation only after the caller cancelled.  That every call returns *)
(* is not claimed: an invoker that never returns blocks the interceptor.  *)
CallSafety == Call!SafetySpec
=============================================================================
