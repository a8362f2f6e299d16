------------------------- MODULE HealthServiceProofs -------------------------
(***************************************************************************)
(* Proofs about the readiness check of src/health/health.go.  The answer  *)
(* property speaks only of answers, but an answer is built from the       *)
(* results and the shared allHealthy of a call whose goroutines have all  *)
(* returned.  The inductive invariant says what those hold while the call *)
(* runs: a result is "none" exactly for a goroutine still pending, and    *)
(* allHealthy is TRUE exactly when no returned check reported an error.   *)
(***************************************************************************)
EXTENDS HealthService, SequenceTheorems, TLAPS

\* While call c runs, its results line up with its copy of the checkers,
\* the pending goroutines are those that have not written a result, and
\* allHealthy has been cleared exactly by the checks that failed.
RunningCall(c) ==
    pc[c] = "run" =>
        /\ Len(results[c]) = Len(snap[c])
        /\ \A i \in 1..Len(snap[c]) : results[c][i] = "none" <=> i \in pending[c]
        /\ allHealthy[c] <=> \A i \in 1..Len(snap[c]) : results[c][i] # "unhealthy"

\* An idle call has no goroutine left: wg.Wait returned before it answered.
IdleCall(c) == pc[c] = "idle" => pending[c] = {}

IInv ==
    /\ TypeOK
    /\ \A c \in Calls : IdleCall(c)
    /\ \A c \in Calls : RunningCall(c)
    /\ AnswerIsConjunctionOfChecks

-----------------------------------------------------------------------------

LEMMA IInvInit == Init => IInv
<1> SUFFICES ASSUME Init PROVE IInv
  OBVIOUS
<1>1. << >> \in Seq(Checkers) /\ << >> \in Seq(Statuses)
  BY EmptySeq
<1>2. NoAnswer \in Answers
  BY <1>1 DEF NoAnswer, Answers, Statuses
<1>3. TypeOK
  BY <1>1, <1>2 DEF Init, TypeOK
<1>. QED
  BY <1>3 DEF Init, IInv, IdleCall, RunningCall, AnswerIsConjunctionOfChecks

\* A check reports nil or an error, never "none".
LEMMA CheckOutcomesReported ==
    ASSUME NEW k, NEW d
    PROVE  CheckOutcomes(k, d) \subseteq {"healthy", "unhealthy"}
BY DEF CheckOutcomes

LEMMA IInvStep == IInv /\ [Next]_vars => IInv'
<1> SUFFICES ASSUME IInv, [Next]_vars PROVE IInv'
  OBVIOUS
<1>0. /\ TypeOK
      /\ \A c \in Calls : IdleCall(c)
      /\ \A c \in Calls : RunningCall(c)
      /\ AnswerIsConjunctionOfChecks
  BY DEF IInv
<1>1. ASSUME NEW ch \in Checkers, RegisterChecker(ch) PROVE IInv'
  <2>1. checkers' \in Seq(Checkers)
    BY <1>0, <1>1, AppendProperties DEF RegisterChecker, TypeOK
  <2>. QED
    BY <1>0, <1>1, <2>1
       DEF RegisterChecker, IInv, TypeOK, IdleCall, RunningCall,
           AnswerIsConjunctionOfChecks
<1>2. ASSUME NEW c \in Calls, Timeout(c) PROVE IInv'
  <2>1. TypeOK'
    BY <1>0, <1>2 DEF Timeout, TypeOK
  <2>2. \A d \in Calls : RunningCall(d)'
    BY <1>0, <1>2 DEF Timeout, RunningCall
  <2>3. AnswerIsConjunctionOfChecks'
    BY <1>0, <1>2 DEF Timeout, AnswerIsConjunctionOfChecks
  <2>20. \A d \in Calls : IdleCall(d)'
    BY <1>0, <1>2 DEF Timeout, IdleCall
  <2>. QED
    BY <2>1, <2>2, <2>3, <2>20 DEF IInv
<1>3. ASSUME NEW c \in Calls, StartReadiness(c), checkers = << >> PROVE IInv'
  <2> DEFINE empty == [status |-> "healthy", ok |-> TRUE, checks |-> << >>]
  <2>1. /\ answer' = [answer EXCEPT ![c] = empty]
        /\ answer'[c] = empty
        /\ \A d \in Calls \ {c} : answer'[d] = answer[d]
        /\ snap' = [snap EXCEPT ![c] = << >>]
        /\ expired' = [expired EXCEPT ![c] = FALSE]
        /\ UNCHANGED <<checkers, pc, pending, results, allHealthy>>
    BY <1>0, <1>3 DEF StartReadiness, TypeOK
  <2>2. << >> \in Seq(Statuses) /\ << >> \in Seq(Checkers)
    BY EmptySeq
  <2>6. empty \in Answers /\ Len(<< >>) = 0
    BY <2>2 DEF Answers, Statuses
  <2>3. TypeOK'
    <3>1. answer' \in [Calls -> Answers]
      BY <1>0, <2>1, <2>6 DEF TypeOK
    <3>2. snap' \in [Calls -> Seq(Checkers)] /\ expired' \in [Calls -> BOOLEAN]
      BY <1>0, <2>1, <2>2 DEF TypeOK
    <3>3. \A d \in Calls : pending'[d] \subseteq 1..Len(snap'[d])
      <4>1. pending[c] = {}
        BY <1>0, <1>3 DEF StartReadiness, IdleCall
      <4>. QED
        BY <1>0, <2>1, <4>1 DEF TypeOK
    <3>. QED
      BY <1>0, <2>1, <3>1, <3>2, <3>3 DEF TypeOK
  <2>4. \A d \in Calls : RunningCall(d)'
    BY <1>0, <1>3, <2>1 DEF StartReadiness, RunningCall
  <2>5. AnswerIsConjunctionOfChecks'
    BY <1>0, <2>1, <2>6 DEF AnswerIsConjunctionOfChecks
  <2>20. \A d \in Calls : IdleCall(d)'
    BY <1>0, <2>1 DEF IdleCall
  <2>. QED
    BY <2>3, <2>4, <2>5, <2>20 DEF IInv
<1>4. ASSUME NEW c \in Calls, StartReadiness(c), checkers # << >> PROVE IInv'
  <2> DEFINE n == Len(checkers)
             fresh == [i \in 1..n |-> "none"]
  <2>1. n \in Nat
    BY <1>0, LenProperties DEF TypeOK
  <2>2. fresh \in Seq(Statuses) /\ Len(fresh) = n
    BY <2>1 DEF Statuses
  <2>3. /\ pc' = [pc EXCEPT ![c] = "run"]
        /\ snap' = [snap EXCEPT ![c] = checkers]
        /\ pending' = [pending EXCEPT ![c] = 1..n]
        /\ results' = [results EXCEPT ![c] = fresh]
        /\ allHealthy' = [allHealthy EXCEPT ![c] = TRUE]
        /\ UNCHANGED <<checkers, answer>>
    BY <1>4 DEF StartReadiness
  <2>4. TypeOK'
    BY <1>0, <1>4, <2>1, <2>2, <2>3 DEF StartReadiness, TypeOK
  <2>5. RunningCall(c)'
    BY <1>0, <2>2, <2>3 DEF RunningCall, TypeOK
  <2>6. \A d \in Calls \ {c} : RunningCall(d)'
    BY <1>0, <2>3 DEF RunningCall, TypeOK
  <2>7. AnswerIsConjunctionOfChecks'
    BY <1>0, <2>3 DEF AnswerIsConjunctionOfChecks
  <2>20. \A d \in Calls : IdleCall(d)'
    BY <1>0, <2>3 DEF IdleCall, TypeOK
  <2>. QED
    BY <2>4, <2>5, <2>6, <2>7, <2>20 DEF IInv
<1>5. ASSUME NEW c \in Calls, Answer(c) PROVE IInv'
  <2> DEFINE res == results[c]
             a == [status |-> IF allHealthy[c] THEN "healthy" ELSE "unhealthy",
                   ok |-> allHealthy[c], checks |-> res]
  <2>1. /\ pc[c] = "run" /\ pending[c] = {}
        /\ answer' = [answer EXCEPT ![c] = a]
        /\ pc' = [pc EXCEPT ![c] = "idle"]
        /\ UNCHANGED <<checkers, snap, pending, results, allHealthy, expired>>
    BY <1>5 DEF Answer
  <2>2. /\ res \in Seq(Statuses) /\ Len(res) = Len(snap[c])
        /\ \A i \in 1..Len(res) : res[i] # "none"
        /\ allHealthy[c] <=> \A i \in 1..Len(res) : res[i] # "unhealthy"
    BY <1>0, <2>1 DEF RunningCall, TypeOK
  <2>3. \A i \in 1..Len(res) : res[i] \in {"healthy", "unhealthy"}
    BY <2>2, ElementOfSeq DEF Statuses
  <2>4. a \in Answers
    BY <1>0, <2>2 DEF TypeOK, Answers, Statuses
  <2>5. TypeOK'
    BY <1>0, <2>1, <2>4 DEF TypeOK
  <2>6. \A d \in Calls : RunningCall(d)'
    BY <1>0, <2>1 DEF RunningCall, TypeOK
  <2>7. /\ \A i \in 1..Len(a.checks) : a.checks[i] # "none"
        /\ a.ok <=> \A i \in 1..Len(a.checks) : a.checks[i] = "healthy"
        /\ a.status = IF a.ok THEN "healthy" ELSE "unhealthy"
    BY <2>2, <2>3
  <2>8. AnswerIsConjunctionOfChecks'
    BY <1>0, <2>1, <2>7 DEF AnswerIsConjunctionOfChecks, TypeOK
  <2>20. \A d \in Calls : IdleCall(d)'
    BY <1>0, <2>1 DEF IdleCall, TypeOK
  <2>. QED
    BY <2>5, <2>6, <2>8, <2>20 DEF IInv
<1>6. ASSUME NEW c \in Calls, NEW i \in 1..Len(snap[c]), CheckReturns(c, i)
      PROVE IInv'
  <2>1. PICK st \in CheckOutcomes(Kind[snap[c][i]], expired[c]) :
            /\ results' = [results EXCEPT ![c][i] = st]
            /\ allHealthy' = IF st = "unhealthy"
                             THEN [allHealthy EXCEPT ![c] = FALSE]
                             ELSE allHealthy
    BY <1>6 DEF CheckReturns
  <2>2. st \in {"healthy", "unhealthy"}
    BY <2>1, CheckOutcomesReported
  <2> DEFINE res == results[c]
             res2 == [res EXCEPT ![i] = st]
  <2>3. /\ pc[c] = "run" /\ i \in pending[c]
        /\ pending' = [pending EXCEPT ![c] = @ \ {i}]
        /\ UNCHANGED <<checkers, pc, snap, expired, answer>>
    BY <1>6 DEF CheckReturns
  <2>4. /\ res \in Seq(Statuses) /\ Len(res) = Len(snap[c])
        /\ \A j \in 1..Len(snap[c]) : res[j] = "none" <=> j \in pending[c]
        /\ allHealthy[c] <=> \A j \in 1..Len(snap[c]) : res[j] # "unhealthy"
    BY <1>0, <2>3 DEF RunningCall, TypeOK
  <2>5. /\ res2 \in Seq(Statuses) /\ Len(res2) = Len(res)
        /\ \A j \in 1..Len(res) : res2[j] = IF j = i THEN st ELSE res[j]
    BY <2>2, <2>4, ExceptSeq DEF Statuses
  <2>6. results' = [results EXCEPT ![c] = res2]
    BY <1>0, <2>1 DEF TypeOK
  <2>7. TypeOK'
    BY <1>0, <2>1, <2>2, <2>3, <2>5, <2>6 DEF TypeOK
  <2>8. RunningCall(c)'
    <3>1. \A j \in 1..Len(snap[c]) : res2[j] = "none" <=> j \in pending[c] \ {i}
      BY <2>2, <2>4, <2>5
    <3>2. allHealthy'[c] <=> \A j \in 1..Len(snap[c]) : res2[j] # "unhealthy"
      <4>1. res[i] = "none"
        BY <2>3, <2>4
      <4>. QED
        BY <1>0, <2>1, <2>4, <2>5, <4>1 DEF TypeOK
    <3>. QED
      BY <1>0, <2>3, <2>4, <2>5, <2>6, <3>1, <3>2 DEF RunningCall, TypeOK
  <2>9. \A d \in Calls \ {c} : RunningCall(d)'
    BY <1>0, <2>1, <2>3, <2>6 DEF RunningCall, TypeOK
  <2>10. AnswerIsConjunctionOfChecks'
    BY <1>0, <2>3 DEF AnswerIsConjunctionOfChecks
  <2>20. \A d \in Calls : IdleCall(d)'
    BY <1>0, <2>3 DEF IdleCall, TypeOK
  <2>. QED
    BY <2>7, <2>8, <2>9, <2>10, <2>20 DEF IInv
<1>7. CASE UNCHANGED vars
  BY <1>0, <1>7
     DEF vars, IInv, TypeOK, IdleCall, RunningCall, AnswerIsConjunctionOfChecks
<1>. QED
  BY <1>1, <1>2, <1>3, <1>4, <1>5, <1>6, <1>7 DEF Next

-----------------------------------------------------------------------------

(* Every reachable state of the health service is well typed, for any     *)
(* checkers of any kinds and any number of concurrent readiness calls.    *)
THEOREM TypeCorrect == Spec => []TypeOK
<1>1. IInv => TypeOK
  BY DEF IInv
<1>. QED
  BY <1>1, IInvInit, IInvStep, PTL DEF Spec

(* Whatever order the check goroutines of CheckReadiness return in, and  *)
(* whatever checkers are registered meanwhile, every answer reports each *)
(* copied check and is healthy exactly when none of them failed: the     *)
(* unsynchronised writes of allHealthy = false never lose an error.      *)
THEOREM AnswerIsConjunction == Spec => []AnswerIsConjunctionOfChecks
<1>1. IInv => AnswerIsConjunctionOfChecks
  BY DEF IInv
<1>. QED
  BY <1>1, IInvInit, IInvStep, PTL DEF Spec

=============================================================================
