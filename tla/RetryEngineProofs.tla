-------------------------- MODULE RetryEngineProofs --------------------------
(***************************************************************************)
(* Proofs about RetryEngine for every value of its constants: the type    *)
(* invariant, that the service-unavailable error is returned only after   *)
(* the whole budget of retryable failures, and that the interceptor       *)
(* implements the abstract call of RetryCall.                             *)
(***************************************************************************)
EXTENDS RetryEngineImpl, SequenceTheorems, TLAPS

(***************************************************************************)
(* The inductive invariant.  While the loop runs, every attempt made so   *)
(* far failed retryably and there has been one per completed iteration    *)
(* (Len(history) = attempt); in the wait, lastErr is the last of them.    *)
(* ExhaustionOnlyAfterFullBudget alone is not inductive: it says nothing  *)
(* of the running loop, from which the exit step reaches "unavailable".   *)
(***************************************************************************)
Running ==
    pc \in {"invoke", "wait"} =>
        /\ result = "none"
        /\ Len(history) = attempt
        /\ \A i \in 1..Len(history) : history[i] \in Retryable
        /\ pc = "wait" => attempt >= 1 /\ lastErr = history[Len(history)]

IInv ==
    /\ TypeOK
    /\ Running
    /\ ExhaustionOnlyAfterFullBudget
    /\ ReturnedOutcomeIsFirstFinal

\* The effective policy: the loop bound is a natural and OK is never retried.
LEMMA RetryConfigFacts ==
    /\ MaxRetries \in Nat
    /\ Retryable \subseteq Codes \ {"OK"}
BY CodesAssumption, PolicyAssumption
   DEF MaxRetries, Retryable, RetryConfig, DefaultRetryConfig

\* The invoker only returns codes of Codes.
LEMMA InvokerCodesType ==
    ASSUME TypeOK PROVE InvokerCodes \subseteq Codes
BY CodesAssumption DEF TypeOK, InvokerCodes, CtxCodes

\* The initial state is well typed.
LEMMA TypeInit == Init => TypeOK
<1>1. Init => TypeOK
  <2> SUFFICES ASSUME Init PROVE TypeOK
    OBVIOUS
  <2>1. history \in Seq(Codes) /\ waited \in Seq(DelayValues)
    BY EmptySeq DEF Init
  <2>2. attempt \in 0..MaxRetries
    BY RetryConfigFacts DEF Init
  <2>. QED
    BY <2>1, <2>2 DEF Init, TypeOK, Results, NoError
<1>. QED
  BY <1>1

\* Every step, stuttering included, keeps the state well typed.
LEMMA TypeStep == TypeOK /\ [Next]_vars => TypeOK'
<1>2. TypeOK /\ [Next]_vars => TypeOK'
  <2> SUFFICES ASSUME TypeOK, [Next]_vars PROVE TypeOK'
    OBVIOUS
  <2>0. MaxRetries \in Nat /\ Retryable \subseteq Codes
    BY RetryConfigFacts
  <2>1. CASE Attempt
    <3>1. PICK code \in InvokerCodes :
              /\ history' = Append(history, code)
              /\ \/ Succeed(code) \/ NotRetryable(code)
                 \/ RetryLater(code) \/ Exhausted(code)
      BY <2>1 DEF Attempt
    <3>2. code \in Codes
      BY InvokerCodesType
    <3>3. history' \in Seq(Codes) /\ afterCancel' \in Nat /\ ctxErr' = ctxErr
      BY <2>1, <3>1, <3>2, AppendProperties DEF Attempt, TypeOK
    <3>4. CASE RetryLater(code)
      <4>1. attempt + 1 \in 1..MaxRetries
        BY <3>4, <2>0 DEF RetryLater, TypeOK
      <4>2. calculateBackoff(attempt + 1) \in DelayValues
        BY <4>1 DEF DelayValues
      <4>3. waited' \in Seq(DelayValues)
        BY <3>4, <4>2, AppendProperties DEF RetryLater, TypeOK
      <4>. QED
        BY <3>3, <3>4, <4>1, <4>3, <3>2 DEF RetryLater, TypeOK
    <3>5. CASE Succeed(code) \/ NotRetryable(code) \/ Exhausted(code)
      BY <3>3, <3>5, <3>2 DEF Succeed, NotRetryable, Exhausted, TypeOK, Results
    <3>. QED
      BY <3>1, <3>4, <3>5
  <2>2. CASE TimerFires
    BY <2>2 DEF TimerFires, TypeOK
  <2>3. CASE CtxDone
    BY <2>3 DEF CtxDone, TypeOK, Results
  <2>4. CASE Cancel
    BY <2>4 DEF Cancel, TypeOK
  <2>5. CASE UNCHANGED vars
    BY <2>5 DEF vars, TypeOK
  <2>. QED
    BY <2>1, <2>2, <2>3, <2>4, <2>5 DEF Next
<1>. QED
  BY <1>2

(* Type correctness of the retry interceptor's state. *)
THEOREM TypeCorrect == Spec => []TypeOK
BY TypeInit, TypeStep, PTL DEF Spec

-----------------------------------------------------------------------------
\* Init establishes the inductive invariant: no attempt yet, nothing returned.
LEMMA IInvInit == Init => IInv
<1> SUFFICES ASSUME Init PROVE IInv
  OBVIOUS
<1>1. TypeOK
  BY TypeInit
<1>2. Len(history) = 0 /\ attempt = 0
  BY EmptySeq DEF Init
<1>. QED
  BY <1>1, <1>2 DEF Init, IInv, Running, ExhaustionOnlyAfterFullBudget,
                    ReturnedOutcomeIsFirstFinal

\* Every step keeps the inductive invariant.
LEMMA IInvStep == IInv /\ [Next]_vars => IInv'
<1> SUFFICES ASSUME IInv, [Next]_vars PROVE IInv'
  OBVIOUS
<1>0. TypeOK /\ TypeOK' /\ MaxRetries \in Nat
  BY TypeStep, RetryConfigFacts DEF IInv
<1>1. CASE Attempt
  <2>1. PICK code \in InvokerCodes :
            /\ history' = Append(history, code)
            /\ \/ Succeed(code) \/ NotRetryable(code)
               \/ RetryLater(code) \/ Exhausted(code)
    BY <1>1 DEF Attempt
  <2>2. /\ code \in Codes
        /\ Len(history') = Len(history) + 1
        /\ \A i \in 1..Len(history) : history'[i] = history[i]
        /\ history'[Len(history) + 1] = code
    BY <1>0, <2>1, InvokerCodesType, AppendProperties DEF TypeOK
  <2>3. /\ result = "none"
        /\ Len(history) = attempt
        /\ \A i \in 1..Len(history) : history[i] \in Retryable
    BY <1>1 DEF Attempt, IInv, Running
  <2>4. CASE Succeed(code) \/ NotRetryable(code)
    <3>1. /\ Len(history') >= 1
          /\ \A i \in 1..Len(history') - 1 : history'[i] \in Retryable
          /\ history'[Len(history')] = code
      BY <1>0, <2>2, <2>3 DEF TypeOK
    <3>2. ReturnedOutcomeIsFirstFinal'
      BY <2>4, <3>1, RetryConfigFacts
         DEF Succeed, NotRetryable, ReturnedOutcomeIsFirstFinal
    <3>. QED
      BY <1>0, <2>4, <3>2
         DEF Succeed, NotRetryable, IInv, Running, ExhaustionOnlyAfterFullBudget
  <2>5. CASE RetryLater(code)
    <3>1. \A i \in 1..Len(history') : history'[i] \in Retryable
      BY <1>0, <2>2, <2>3, <2>5 DEF RetryLater, TypeOK
    <3>2. Len(history') = attempt' /\ attempt' >= 1 /\ lastErr' = history'[Len(history')]
      BY <1>0, <2>2, <2>3, <2>5 DEF RetryLater, TypeOK
    <3>. QED
      BY <2>3, <2>5, <3>1, <3>2, <1>0
         DEF RetryLater, IInv, Running, ExhaustionOnlyAfterFullBudget,
             ReturnedOutcomeIsFirstFinal
  <2>6. CASE Exhausted(code)
    <3>1. \A i \in 1..Len(history') : history'[i] \in Retryable
      BY <1>0, <2>2, <2>3, <2>6 DEF Exhausted, TypeOK
    <3>2. Len(history') = MaxRetries + 1 /\ lastErr' = history'[Len(history')]
      BY <1>0, <2>2, <2>3, <2>6 DEF Exhausted, TypeOK
    <3>. QED
      BY <2>6, <3>1, <3>2, <1>0
         DEF Exhausted, IInv, Running, ExhaustionOnlyAfterFullBudget,
             ReturnedOutcomeIsFirstFinal
  <2>. QED
    BY <2>1, <2>4, <2>5, <2>6
<1>2. CASE TimerFires
  BY <1>0, <1>2 DEF TimerFires, IInv, Running, ExhaustionOnlyAfterFullBudget,
                     ReturnedOutcomeIsFirstFinal, TypeOK
<1>3. CASE CtxDone
  BY <1>0, <1>3 DEF CtxDone, IInv, Running, ExhaustionOnlyAfterFullBudget,
                     ReturnedOutcomeIsFirstFinal, TypeOK
<1>4. CASE Cancel
  BY <1>0, <1>4 DEF Cancel, IInv, Running, ExhaustionOnlyAfterFullBudget,
                     ReturnedOutcomeIsFirstFinal, TypeOK
<1>5. CASE UNCHANGED vars
  BY <1>0, <1>5 DEF vars, IInv, Running, ExhaustionOnlyAfterFullBudget,
                     ReturnedOutcomeIsFirstFinal
<1>. QED
  BY <1>1, <1>2, <1>3, <1>4, <1>5 DEF Next

(* The service-unavailable error is returned only after MaxRetries + 1    *)
(* attempts that all failed retryably, and it wraps the last one's error: *)
(* for every policy, every code set and every cancellation.               *)
THEOREM ExhaustionAfterFullBudget == Spec => []ExhaustionOnlyAfterFullBudget
<1>1. IInv => ExhaustionOnlyAfterFullBudget
  BY DEF IInv
<1>. QED
  BY IInvInit, IInvStep, <1>1, PTL DEF Spec

(* A call that returns success or its own error stopped at its first      *)
(* attempt that did not fail retryably, and the error it returns is that  *)
(* attempt's non-retryable code: for every policy and code set.           *)
THEOREM OutcomeIsFirstFinal == Spec => []ReturnedOutcomeIsFirstFinal
<1>1. IInv => ReturnedOutcomeIsFirstFinal
  BY DEF IInv
<1>. QED
  BY IInvInit, IInvStep, <1>1, PTL DEF Spec
-----------------------------------------------------------------------------
\* The initial state of the interceptor is an initial state of the call.
LEMMA RefinementInit == Init => Call!Init
BY DEF Init, Call!Init

\* Every step of the interceptor is a step of the abstract call or leaves
\* the mapped state alone: an attempt is Invoke, the select's ctx.Done()
\* case is GiveUp, a cancellation is Cancel, a timer firing stutters.
LEMMA RefinementStep == IInv /\ [Next]_vars => [Call!Next]_Call!avars
<1> SUFFICES ASSUME IInv, [Next]_vars PROVE [Call!Next]_Call!avars
  OBVIOUS
<1>0. /\ TypeOK /\ MaxRetries \in Nat
      /\ Retryable \subseteq Codes \ {"OK"}
  BY RetryConfigFacts DEF IInv
<1>1. CASE Attempt
  <2>1. PICK code \in InvokerCodes :
            /\ history' = Append(history, code)
            /\ \/ Succeed(code) \/ NotRetryable(code)
               \/ RetryLater(code) \/ Exhausted(code)
    BY <1>1 DEF Attempt
  <2>2. /\ code \in Codes
        /\ result = "none"
        /\ Len(history) = attempt
        /\ attempt \in 0..MaxRetries
        /\ ctxErr' = ctxErr
    BY <1>0, <1>1, InvokerCodesType DEF Attempt, IInv, Running, TypeOK
  <2>3. result' = Call!Verdict(code, Len(history) + 1)
    <3>1. CASE Succeed(code)
      BY <3>1 DEF Succeed, Call!Verdict
    <3>2. CASE NotRetryable(code)
      BY <3>2 DEF NotRetryable, Call!Verdict
    <3>3. CASE RetryLater(code)
      BY <1>0, <2>2, <3>3 DEF RetryLater, Call!Verdict
    <3>4. CASE Exhausted(code)
      BY <1>0, <2>2, <3>4 DEF Exhausted, Call!Verdict
    <3>. QED
      BY <2>1, <3>1, <3>2, <3>3, <3>4
  <2>4. Call!Invoke
    BY <1>0, <2>1, <2>2, <2>3 DEF Call!Invoke
  <2>. QED
    BY <2>4 DEF Call!Next
<1>2. CASE TimerFires
  BY <1>2 DEF TimerFires, Call!avars
<1>3. CASE CtxDone
  <2>1. result = "none" /\ Len(history) = attempt /\ attempt >= 1
    BY <1>3 DEF CtxDone, IInv, Running
  <2>2. Call!GiveUp
    BY <1>3, <2>1 DEF CtxDone, Call!GiveUp
  <2>. QED
    BY <2>2 DEF Call!Next
<1>4. CASE Cancel
  <2>1. result = "none"
    BY <1>0, <1>4 DEF Cancel, IInv, Running, TypeOK
  <2>2. Call!Cancel
    BY <1>4, <2>1 DEF Cancel, Call!Cancel, CtxCodes
  <2>. QED
    BY <2>2 DEF Call!Next
<1>5. CASE UNCHANGED vars
  BY <1>5 DEF vars, Call!avars
<1>. QED
  BY <1>1, <1>2, <1>3, <1>4, <1>5 DEF Next

(* The retry interceptor implements the abstract call (CallSafety): for  *)
(* every policy NewClient installs and every code set, the              *)
(* codes it sees and the result it returns are those of a call that       *)
(* attempts at most MaxRetries + 1 times, returns success or the error on *)
(* the first OK or non-retryable code, the unavailable error only when    *)
(* the budget is spent, and a cancellation only after the caller's.       *)
THEOREM Refinement == Spec => CallSafety
<1>1. Spec => []IInv
  BY IInvInit, IInvStep, PTL DEF Spec
<1>. QED
  BY <1>1, RefinementInit, RefinementStep, PTL DEF Spec, CallSafety, Call!SafetySpec
-----------------------------------------------------------------------------
(***************************************************************************)
(* Prompt cancellation.  PromptCancellation is not inductive: it does not *)
(* say where the loop is after the attempt it allows.  What keeps a       *)
(* second attempt from starting is that the attempt made with the context *)
(* already done ends the loop or enters a select that began with ctx done *)
(* (waitFromDone), and in that select the timer cannot win.               *)
(***************************************************************************)
CancelInv ==
    /\ afterCancel \in {0, 1}
    /\ ctxErr = "none" => afterCancel = 0 /\ ~waitFromDone
    /\ afterCancel = 1 => \/ pc = "done"
                          \/ pc = "wait" /\ waitFromDone
    /\ result = "cancelled" => ctxErr # "none"

LEMMA CancelInit == Init => CancelInv
BY DEF Init, CancelInv

LEMMA CancelStep == TypeOK /\ CancelInv /\ [Next]_vars => CancelInv'
<1> SUFFICES ASSUME TypeOK, CancelInv, [Next]_vars PROVE CancelInv'
  OBVIOUS
<1>1. CASE Attempt
  <2>0. afterCancel = 0 /\ pc = "invoke" /\ ctxErr' = ctxErr
    BY <1>1 DEF Attempt, CancelInv
  <2>1. PICK code \in InvokerCodes :
            \/ Succeed(code) \/ NotRetryable(code)
            \/ RetryLater(code) \/ Exhausted(code)
    BY <1>1 DEF Attempt
  <2>2. CASE ctxErr = "none"
    <3>1. afterCancel' = 0 /\ ~waitFromDone
      BY <1>1, <2>0, <2>2 DEF Attempt, CancelInv
    <3>2. ~waitFromDone' /\ result' # "cancelled"
      <4>1. result # "cancelled"
        BY <2>2 DEF CancelInv
      <4>2. CASE RetryLater(code)
        <5>1. waitFromDone' = FALSE
          BY <2>2, <4>2, Zenon DEF RetryLater
        <5>. QED
          BY <4>1, <4>2, <5>1 DEF RetryLater
      <4>3. CASE Succeed(code) \/ NotRetryable(code) \/ Exhausted(code)
        BY <3>1, <4>3 DEF Succeed, NotRetryable, Exhausted
      <4>. QED
        BY <2>1, <4>2, <4>3
    <3>. QED
      BY <2>0, <2>2, <3>1, <3>2 DEF CancelInv
  <2>3. CASE ctxErr # "none"
    <3>1. afterCancel' = 1 /\ code = ctxErr /\ ctxErr \in CtxCodes
      BY <1>1, <2>0, <2>3 DEF Attempt, InvokerCodes, TypeOK
    <3>2. ~Succeed(code)
      BY <3>1 DEF Succeed, CtxCodes
    <3>3. \/ pc' = "done" /\ result' # "cancelled"
          \/ pc' = "wait" /\ waitFromDone' /\ result' = result
      BY <2>1, <2>3, <3>2 DEF NotRetryable, RetryLater, Exhausted
    <3>4. result # "cancelled" \/ ctxErr # "none"
      BY <2>3
    <3>. QED
      BY <2>0, <2>3, <3>1, <3>3 DEF CancelInv
  <2>. QED
    BY <2>2, <2>3
<1>2. CASE TimerFires
  BY <1>2 DEF TimerFires, CancelInv
<1>3. CASE CtxDone
  BY <1>3 DEF CtxDone, CancelInv
<1>4. CASE Cancel
  <2>1. ctxErr' \in CtxCodes /\ afterCancel = 0 /\ ~waitFromDone /\ result # "cancelled"
    BY <1>4 DEF Cancel, CancelInv
  <2>. QED
    BY <1>4, <2>1 DEF Cancel, CancelInv, CtxCodes
<1>5. CASE UNCHANGED vars
  BY <1>5 DEF vars, CancelInv
<1>. QED
  BY <1>1, <1>2, <1>3, <1>4, <1>5 DEF Next

(* Once the context is done, the interceptor starts at most one more     *)
(* attempt and reports a cancellation only if the context is done: for   *)
(* every policy, every code set and every moment of cancellation.        *)
THEOREM CancellationIsPrompt == Spec => []PromptCancellation
<1>1. TypeOK /\ CancelInv => PromptCancellation
  BY DEF CancelInv, PromptCancellation
<1>2. TypeOK /\ CancelInv /\ [Next]_vars => TypeOK' /\ CancelInv'
  BY TypeStep, CancelStep
<1>. QED
  BY <1>1, <1>2, TypeInit, CancelInit, PTL DEF Spec

=============================================================================
