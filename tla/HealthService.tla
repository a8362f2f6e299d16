---------------------------- MODULE HealthService ----------------------------
(***************************************************************************)
(* The readiness check of src/health/health.go.  RegisterChecker appends  *)
(* to h.checkers under the write lock.  CheckReadiness copies the list    *)
(* under the read lock; with no checker it answers healthy at once,       *)
(* otherwise it derives a context with h.timeout, starts one goroutine    *)
(* per checker, each writing results[idx] and clearing the shared         *)
(* allHealthy on an error, waits for all of them (wg.Wait) and answers.   *)
(*                                                                         *)
(* A checker is a name with a kind: a Postgres or Redis checker without a *)
(* pinger ("nilPinger", always an error), a CustomChecker without a       *)
(* function ("nilFunc", always nil), a pinger ("ping", which honours the  *)
(* context) or a custom function ("func", which may ignore it when        *)
(* FuncMayIgnoreCtx).  Each c \in Calls is one caller of CheckReadiness,  *)
(* which may call it again after an answer.                               *)
(***************************************************************************)
EXTENDS Naturals, Sequences, SequencesExt

CONSTANTS
    Checkers,          \* the checkers an application may register
    Kind,              \* the kind of each checker, see above
    Calls,             \* concurrent callers of CheckReadiness
    FuncMayIgnoreCtx   \* a custom check function may ignore its context

Kinds == {"nilPinger", "nilFunc", "ping", "func"}

ASSUME HealthAssumption ==
    /\ Kind \in [Checkers -> Kinds]
    /\ FuncMayIgnoreCtx \in BOOLEAN

\* A check's status: not reported yet, StatusHealthy, StatusUnhealthy.
Statuses == {"none", "healthy", "unhealthy"}

NoAnswer == [status |-> "none", ok |-> FALSE, checks |-> << >>]

\* What CheckReadiness returns: a status, the boolean and the results.
Answers == [status : Statuses, ok : BOOLEAN, checks : Seq(Statuses)]

VARIABLES
    checkers,    \* h.checkers, in registration order
    pc,          \* per call: "idle", or "run" (goroutines started)
    snap,        \* per call: its copy of h.checkers
    pending,     \* per call: indices whose goroutine has not returned
    results,     \* per call: results[idx].Status
    allHealthy,  \* per call: the shared flag the goroutines clear
    expired,     \* per call: the WithTimeout context is done
    answer       \* per call: its last answer (status, ok, checks)

vars == <<checkers, pc, snap, pending, results, allHealthy, expired, answer>>

\* Type invariant.
TypeOK ==
    /\ checkers \in Seq(Checkers)
    /\ pc \in [Calls -> {"idle", "run"}]
    /\ snap \in [Calls -> Seq(Checkers)]
    /\ pending \in [Calls -> SUBSET Nat]
    /\ \A c \in Calls : pending[c] \subseteq 1..Len(snap[c])
    /\ results \in [Calls -> Seq(Statuses)]
    /\ allHealthy \in [Calls -> BOOLEAN]
    /\ expired \in [Calls -> BOOLEAN]
    /\ answer \in [Calls -> Answers]

\* NewHealthService: no checkers.
Init ==
    /\ checkers = << >>
    /\ pc = [c \in Calls |-> "idle"]
    /\ snap = [c \in Calls |-> << >>]
    /\ pending = [c \in Calls |-> {}]
    /\ results = [c \in Calls |-> << >>]
    /\ allHealthy = [c \in Calls |-> TRUE]
    /\ expired = [c \in Calls |-> FALSE]
    /\ answer = [c \in Calls |-> NoAnswer]

\* RegisterChecker; the model registers each checker once.
RegisterChecker(ch) ==
    /\ ch \notin Range(checkers)
    /\ checkers' = Append(checkers, ch)
    /\ UNCHANGED <<pc, snap, pending, results, allHealthy, expired, answer>>

\* Mutant: the indices of the goroutines counted from 0 to len.
StartReadinessOffByOne(c) ==
    /\ pc[c] = "idle"
    /\ snap' = [snap EXCEPT ![c] = checkers]
    /\ IF checkers = << >>
       THEN /\ answer' = [answer EXCEPT ![c] =
                            [status |-> "healthy", ok |-> TRUE, checks |-> << >>]]
            /\ UNCHANGED <<pc, pending, results, allHealthy>>
       ELSE /\ pc' = [pc EXCEPT ![c] = "run"]
            /\ pending' = [pending EXCEPT ![c] = 0..Len(checkers)]
            /\ results' = [results EXCEPT ![c] = [i \in 1..Len(checkers) |-> "none"]]
            /\ allHealthy' = [allHealthy EXCEPT ![c] = TRUE]
            /\ UNCHANGED answer
    /\ expired' = [expired EXCEPT ![c] = FALSE]
    /\ UNCHANGED checkers

\* CheckReadiness up to wg.Wait: copy under the read lock; with no checker
\* answer healthy with an empty list; otherwise reset the results, set
\* allHealthy and start one goroutine per checker.
StartReadiness(c) ==
    /\ pc[c] = "idle"
    /\ snap' = [snap EXCEPT ![c] = checkers]
    /\ IF checkers = << >>
       THEN /\ answer' = [answer EXCEPT ![c] =
                            [status |-> "healthy", ok |-> TRUE, checks |-> << >>]]
            /\ UNCHANGED <<pc, pending, results, allHealthy>>
       ELSE /\ pc' = [pc EXCEPT ![c] = "run"]
            /\ pending' = [pending EXCEPT ![c] = 1..Len(checkers)]
            /\ results' = [results EXCEPT ![c] = [i \in 1..Len(checkers) |-> "none"]]
            /\ allHealthy' = [allHealthy EXCEPT ![c] = TRUE]
            /\ UNCHANGED answer
    /\ expired' = [expired EXCEPT ![c] = FALSE]
    /\ UNCHANGED checkers

\* Mutant: PingContext replaced by a ping without the context.
HonoursCtxNone(k) == k \in {"nilPinger", "nilFunc"}

\* The checks that return once their context is done: the nil ones at
\* once, PingContext, and a custom function unless it may ignore ctx.
HonoursCtx(k) == k \in {"nilPinger", "nilFunc", "ping"} \/ (k = "func" /\ ~FuncMayIgnoreCtx)

\* What Check can return: the nil checkers are fixed; a ping or function
\* returns nil or an error, and only an error once the context is done.
CheckOutcomes(k, done) ==
    CASE k = "nilPinger" -> {"unhealthy"}
      [] k = "nilFunc"   -> {"healthy"}
      [] done /\ HonoursCtx(k) -> {"unhealthy"}
      [] OTHER           -> {"healthy", "unhealthy"}

\* Mutant: each goroutine writes its own outcome into allHealthy.
CheckReturnsOverwrite(c, i) ==
    /\ pc[c] = "run" /\ i \in pending[c]
    /\ \E st \in CheckOutcomes(Kind[snap[c][i]], expired[c]) :
         /\ results' = [results EXCEPT ![c][i] = st]
         /\ allHealthy' = [allHealthy EXCEPT ![c] = (st = "healthy")]
    /\ pending' = [pending EXCEPT ![c] = @ \ {i}]
    /\ UNCHANGED <<checkers, pc, snap, expired, answer>>

\* The goroutine for index i: c.Check(ctx), then results[idx] and, on an
\* error, allHealthy = false (a racy write, but every writer writes false).
CheckReturns(c, i) ==
    /\ pc[c] = "run" /\ i \in pending[c]
    /\ \E st \in CheckOutcomes(Kind[snap[c][i]], expired[c]) :
         /\ results' = [results EXCEPT ![c][i] = st]
         /\ allHealthy' = IF st = "unhealthy"
                          THEN [allHealthy EXCEPT ![c] = FALSE]
                          ELSE allHealthy
    /\ pending' = [pending EXCEPT ![c] = @ \ {i}]
    /\ UNCHANGED <<checkers, pc, snap, expired, answer>>

\* The context of context.WithTimeout(ctx, h.timeout) is done.
Timeout(c) ==
    /\ pc[c] = "run" /\ ~expired[c]
    /\ expired' = [expired EXCEPT ![c] = TRUE]
    /\ UNCHANGED <<checkers, pc, snap, pending, results, allHealthy, answer>>

\* wg.Wait returns; the answer is built from allHealthy and results.
Answer(c) ==
    /\ pc[c] = "run" /\ pending[c] = {}
    /\ answer' = [answer EXCEPT ![c] =
                    [status |-> IF allHealthy[c] THEN "healthy" ELSE "unhealthy",
                     ok |-> allHealthy[c], checks |-> results[c]]]
    /\ pc' = [pc EXCEPT ![c] = "idle"]
    /\ UNCHANGED <<checkers, snap, pending, results, allHealthy, expired>>

Next ==
    \/ \E ch \in Checkers : RegisterChecker(ch)
    \/ \E c \in Calls :
          \/ StartReadiness(c) \/ Timeout(c) \/ Answer(c)
          \/ \E i \in 1..Len(snap[c]) : CheckReturns(c, i)

\* The timer of WithTimeout fires; the goroutines run; a check that
\* honours its context returns once it is done; wg.Wait returns.
Spec ==
    /\ Init /\ [][Next]_vars
    /\ \A c \in Calls :
          /\ WF_vars(Timeout(c))
          /\ WF_vars(Answer(c))
          /\ \A i \in 1..Cardinality(Checkers) :
                WF_vars(CheckReturns(c, i) /\ HonoursCtx(Kind[snap[c][i]]))

-----------------------------------------------------------------------------
(* Properties *)

(* An answer of CheckReadiness reports every checker it copied, and it  *)
(* is healthy exactly when each of those checks returned nil: the       *)
(* goroutines' racy writes to allHealthy never lose an error.           *)
AnswerIsConjunctionOfChecks ==
    \A c \in Calls :
        answer[c] # NoAnswer =>
            /\ \A i \in 1..Len(answer[c].checks) : answer[c].checks[i] # "none"
            /\ answer[c].ok <=> \A i \in 1..Len(answer[c].checks) :
                                 answer[c].checks[i] = "healthy"
            /\ answer[c].status = IF answer[c].ok THEN "healthy" ELSE "unhealthy"

(* A readiness probe always gets an answer: once CheckReadiness has     *)
(* started its goroutines it returns, bounded by h.timeout as long as   *)
(* every check honours its context.                                     *)
ReadinessAnswers == \A c \in Calls : pc[c] = "run" ~> pc[c] = "idle"
=============================================================================
