---------------------------- MODULE GrpcAuthProofs ----------------------------
(***************************************************************************)
(* Proofs about the service-token interceptor of                          *)
(* src/grpc/auth_interceptor.go.  A call reaches its handler either from  *)
(* a cache hit or from a fresh valid answer.  The freshness of a hit      *)
(* rests on what set wrote: every entry in grpcTokenCache was stored at  *)
(* an instant no later than now and expires exactly TTL after it, which  *)
(* get's expiry test then turns into a bound on the validation's age.    *)
(***************************************************************************)
EXTENDS GrpcAuth, TLAPS

\* The records a decision can be.
Verdicts == [kind : Kinds, answeredAt : Times \cup {-1},
             method : Methods, token : Tokens \cup {NoHeader}]

\* Every cached validation was stored by set at or before now, with
\* expiresAt = time.Now().Add(ttl) at that instant.
CacheFresh ==
    \A t \in Tokens :
        cache[t] # NoEntry =>
            /\ cache[t].answeredAt <= now
            /\ cache[t].expiresAt = cache[t].answeredAt + TTL

IInv ==
    /\ TypeOK
    /\ CacheFresh
    /\ HandlerBackedByRecentValidation

-----------------------------------------------------------------------------

\* TTL is a positive number of minutes.
LEMMA TTLFacts == TTL \in Nat
BY GrpcAuthAssumption DEF TTL

\* What Decide writes: a decision record for call r and nothing else; a
\* record of kind "handler" carries the method, token and validation
\* instant it was given.
LEMMA DecideFacts ==
    ASSUME TypeOK, NEW r \in Reqs, NEW m \in Methods,
           NEW h \in Tokens \cup {NoHeader}, NEW kind \in Kinds,
           NEW a \in Times \cup {-1}, Decide(r, m, h, kind, a)
    PROVE  /\ verdict' \in [Reqs -> Verdicts]
           /\ \A q \in Reqs \ {r} : verdict'[q] = verdict[q]
           /\ verdict'[r].kind = "handler" =>
                 /\ kind = "handler"
                 /\ verdict'[r] = [kind |-> kind, answeredAt |-> a,
                                   method |-> m, token |-> h]
<1>1. NoVerdict \in Verdicts
  BY GrpcAuthAssumption DEF NoVerdict, Verdicts, Kinds, Times
<1>2. [NoVerdict EXCEPT !.kind = kind] \in Verdicts
  BY <1>1 DEF Verdicts, NoVerdict
<1>3. [NoVerdict EXCEPT !.kind = kind].kind = kind
  BY DEF NoVerdict
<1>4. verdict \in [Reqs -> Verdicts]
  BY DEF TypeOK, Verdicts
<1>. QED
  BY <1>2, <1>3, <1>4 DEF Decide, Verdicts

\* The cache after set(t, TTL): every entry is the one set wrote for t,
\* an entry that was there before, or NoEntry (the size-triggered sweep).
LEMMA SetFacts ==
    ASSUME TypeOK, CacheFresh, NEW t \in Tokens
    PROVE  /\ set(t, TTL) \in [Tokens -> Entries \cup {NoEntry}]
           /\ \A k \in Tokens :
                 set(t, TTL)[k] # NoEntry =>
                    /\ set(t, TTL)[k].answeredAt <= now
                    /\ set(t, TTL)[k].expiresAt = set(t, TTL)[k].answeredAt + TTL
<1> DEFINE e == [expiresAt |-> now + TTL, answeredAt |-> now]
           c == [cache EXCEPT ![t] = e]
           swept == [k \in Tokens |-> IF c[k] # NoEntry /\ now > c[k].expiresAt
                                      THEN NoEntry ELSE c[k]]
<1>1. e \in Entries
  BY TTLFacts DEF TypeOK, Entries, Times
<1>2. /\ c \in [Tokens -> Entries \cup {NoEntry}]
      /\ \A k \in Tokens : c[k] # NoEntry =>
            c[k].answeredAt <= now /\ c[k].expiresAt = c[k].answeredAt + TTL
  <2>1. c \in [Tokens -> Entries \cup {NoEntry}]
    BY <1>1 DEF TypeOK
  <2>2. c[t].answeredAt <= now /\ c[t].expiresAt = c[t].answeredAt + TTL
    <3>1. c[t] = e
      BY DEF TypeOK
    <3>2. now \in Nat
      BY DEF TypeOK, Times
    <3>. QED
      BY <3>1, <3>2, TTLFacts
  <2>3. ASSUME NEW k \in Tokens \ {t}, c[k] # NoEntry
        PROVE  c[k].answeredAt <= now /\ c[k].expiresAt = c[k].answeredAt + TTL
    BY <2>3 DEF TypeOK, CacheFresh
  <2>. QED
    BY <2>1, <2>2, <2>3
<1>3. /\ swept \in [Tokens -> Entries \cup {NoEntry}]
      /\ \A k \in Tokens : swept[k] \in {NoEntry, c[k]}
  BY <1>2
<1>4. set(t, TTL) = c \/ set(t, TTL) = swept
  BY DEF set
<1>. QED
  BY <1>2, <1>3, <1>4

LEMMA IInvInit == Init => IInv
<1> SUFFICES ASSUME Init PROVE IInv
  OBVIOUS
<1>1. NoVerdict \in Verdicts /\ NoVerdict.kind = "none"
  BY GrpcAuthAssumption DEF NoVerdict, Verdicts, Kinds, Times
<1>2. TypeOK
  BY <1>1, GrpcAuthAssumption DEF Init, TypeOK, Verdicts, Times
<1>. QED
  BY <1>1, <1>2 DEF Init, IInv, CacheFresh, HandlerBackedByRecentValidation

\* A call decided "handler" on a validation at most TTL old keeps
\* HandlerBackedByRecentValidation; the other calls' decisions are unchanged.
LEMMA HandlerDecision ==
    ASSUME IInv, NEW r \in Reqs, NEW m \in Methods,
           NEW h \in Tokens \cup {NoHeader}, NEW kind \in Kinds,
           NEW a \in Times \cup {-1}, Decide(r, m, h, kind, a),
           kind = "handler" => a \in Int /\ now' - a <= TTL,
           now' \in Int
    PROVE  \A q \in Reqs : verdict'[q].kind = "handler" =>
                              now' - verdict'[q].answeredAt <= TTL
                           \/ verdict'[q] = verdict[q]
<1>1. /\ \A q \in Reqs \ {r} : verdict'[q] = verdict[q]
      /\ verdict'[r].kind = "handler" =>
            /\ kind = "handler"
            /\ verdict'[r] = [kind |-> kind, answeredAt |-> a, method |-> m, token |-> h]
  BY DecideFacts DEF IInv
<1>2. ASSUME NEW q \in Reqs, verdict'[q].kind = "handler"
      PROVE  now' - verdict'[q].answeredAt <= TTL \/ verdict'[q] = verdict[q]
  <2>1. CASE q = r
    BY <1>1, <1>2, <2>1
  <2>2. CASE q # r
    BY <1>1, <2>2
  <2>. QED
    BY <2>1, <2>2
<1>. QED
  BY <1>2

\* A step that only records a decision (and moves the call's own control
\* state) keeps the invariant, given that it is well typed and that a
\* "handler" decision rests on a recent validation.
LEMMA DecideKeeps ==
    ASSUME IInv, NEW r \in Reqs, NEW m \in Methods,
           NEW h \in Tokens \cup {NoHeader}, NEW kind \in Kinds,
           NEW a \in Times \cup {-1}, Decide(r, m, h, kind, a),
           kind = "handler" => a \in Int /\ now - a <= TTL,
           UNCHANGED <<cache, now>>, TypeOK'
    PROVE  IInv'
<1>1. now \in Int
  BY DEF IInv, TypeOK, Times
<1>2. CacheFresh'
  BY DEF IInv, CacheFresh
<1>3. HandlerBackedByRecentValidation'
  BY <1>1, HandlerDecision DEF IInv, HandlerBackedByRecentValidation
<1>. QED
  BY <1>2, <1>3 DEF IInv

\* The frame of a step that leaves cache, now and verdict alone.
LEMMA FrameKeeps ==
    ASSUME IInv, UNCHANGED <<cache, now, verdict>>, TypeOK'
    PROVE  IInv'
BY DEF IInv, CacheFresh, HandlerBackedByRecentValidation

LEMMA IInvStep == IInv /\ [Next]_vars => IInv'
<1> SUFFICES ASSUME IInv, [Next]_vars PROVE IInv'
  OBVIOUS
<1>0. TypeOK /\ CacheFresh /\ now \in Nat
  BY DEF IInv, TypeOK, Times
<1>1. ASSUME NEW r \in Reqs, NEW m \in Methods, NEW h \in Tokens \cup {NoHeader},
             Intercept(r, m, h)
      PROVE  IInv'
  <2>0. ctxDone' \in [Reqs -> BOOLEAN] /\ UNCHANGED <<cache, now>> /\ pc[r] = "idle"
    BY <1>0, <1>1 DEF Intercept, TypeOK
  <2>1. CASE ~Enabled \/ m \in SkipMethods
    <3>2. Decide(r, m, h, "skip", -1) /\ UNCHANGED <<pc, method, tok>>
      BY <1>1, <2>1 DEF Intercept
    <3>3. TypeOK'
      BY <1>0, <2>0, <3>2, DecideFacts DEF TypeOK, Verdicts, Kinds, Times
    <3>. QED
      BY <2>0, <3>2, <3>3, DecideKeeps DEF Kinds, Times
  <2>4. CASE Enabled /\ m \notin SkipMethods /\ h = NoHeader
    <3>5. Decide(r, m, h, "unauthenticated", -1) /\ UNCHANGED <<pc, method, tok>>
      BY <1>1, <2>4 DEF Intercept, get
    <3>6. TypeOK'
      BY <1>0, <2>0, <3>5, DecideFacts DEF TypeOK, Verdicts, Kinds, Times
    <3>. QED
      BY <2>0, <3>5, <3>6, DecideKeeps DEF Kinds, Times
  <2>7. CASE Enabled /\ m \notin SkipMethods /\ h # NoHeader /\ get(cache[h])
    <3> DEFINE a == cache[h].answeredAt
               kind == IF ScopeOK(m, TokenScopes[h]) THEN "handler" ELSE "denied"
    <3>8. Decide(r, m, h, kind, a) /\ UNCHANGED <<pc, method, tok>>
      BY <1>1, <2>7 DEF Intercept
    <3>9. /\ cache[h] \in Entries
          /\ a \in Times
          /\ now <= cache[h].expiresAt
          /\ cache[h].expiresAt = a + TTL
      <4>1. h \in Tokens /\ cache[h] # NoEntry /\ now <= cache[h].expiresAt
        BY <2>7 DEF get
      <4>2. cache[h] \in Entries
        BY <1>0, <4>1 DEF TypeOK
      <4>. QED
        BY <1>0, <4>1, <4>2 DEF CacheFresh, Entries
    <3>10. a \in Int /\ now - a <= TTL
      BY <1>0, <3>9, TTLFacts DEF Times, Entries
    <3>11. kind \in Kinds /\ (kind = "handler" => ScopeOK(m, TokenScopes[h]))
      BY DEF Kinds
    <3>12. TypeOK'
      BY <1>0, <2>0, <3>8, <3>9, <3>11, DecideFacts DEF TypeOK, Verdicts
    <3>. QED
      BY <2>0, <3>8, <3>9, <3>10, <3>11, <3>12, DecideKeeps
  <2>13. CASE Enabled /\ m \notin SkipMethods /\ h # NoHeader /\ ~get(cache[h])
    <3>14. /\ pc' = [pc EXCEPT ![r] = "remote"]
           /\ method' = [method EXCEPT ![r] = m]
           /\ tok' = [tok EXCEPT ![r] = h]
           /\ UNCHANGED verdict
      BY <1>1, <2>13 DEF Intercept
    <3>15. TypeOK'
      BY <1>0, <2>0, <2>13, <3>14 DEF TypeOK
    <3>. QED
      BY <2>0, <3>14, <3>15, FrameKeeps
  <2>. QED
    BY <2>1, <2>4, <2>7, <2>13
<1>2. ASSUME NEW r \in Reqs, ValidateReturn(r) PROVE IInv'
  <2>0. /\ pc[r] = "remote"
        /\ UNCHANGED <<cache, now, method, tok, ctxDone>>
        /\ method[r] \in Methods /\ tok[r] \in Tokens
    BY <1>0, <1>2 DEF ValidateReturn, TypeOK
  <2>1. CASE Decide(r, method[r], tok[r], "unauthenticated", -1)
             /\ pc' = [pc EXCEPT ![r] = "idle"]
    <3>2. TypeOK'
      BY <1>0, <2>0, <2>1, DecideFacts DEF TypeOK, Verdicts, Kinds, Times
    <3>. QED
      BY <2>0, <2>1, <3>2, DecideKeeps DEF Kinds, Times
  <2>3. CASE pc' = [pc EXCEPT ![r] = "store"] /\ UNCHANGED verdict
    <3>4. TypeOK'
      BY <1>0, <2>0, <2>3 DEF TypeOK
    <3>. QED
      BY <2>0, <2>3, <3>4, FrameKeeps
  <2>. QED
    BY <1>2, <2>1, <2>3 DEF ValidateReturn
<1>3. ASSUME NEW r \in Reqs, ValidateCtxDone(r) PROVE IInv'
  <2>0. /\ Decide(r, method[r], tok[r], "unauthenticated", -1)
        /\ pc' = [pc EXCEPT ![r] = "idle"]
        /\ UNCHANGED <<cache, now, method, tok, ctxDone>>
        /\ method[r] \in Methods /\ tok[r] \in Tokens
    BY <1>0, <1>3 DEF ValidateCtxDone, TypeOK
  <2>1. TypeOK'
    BY <1>0, <2>0, DecideFacts DEF TypeOK, Verdicts, Kinds, Times
  <2>. QED
    BY <2>0, <2>1, DecideKeeps DEF Kinds, Times
<1>4. ASSUME NEW r \in Reqs, Store(r) PROVE IInv'
  <2> DEFINE kind == IF ScopeOK(method[r], TokenScopes[tok[r]]) THEN "handler" ELSE "denied"
  <2>0. /\ cache' = set(tok[r], TTL)
        /\ Decide(r, method[r], tok[r], kind, now)
        /\ pc' = [pc EXCEPT ![r] = "idle"]
        /\ UNCHANGED <<now, method, tok, ctxDone>>
        /\ method[r] \in Methods /\ tok[r] \in Tokens
    BY <1>0, <1>4 DEF Store, TypeOK
  <2>1. kind \in Kinds /\ now \in Times
    BY <1>0 DEF Kinds, TypeOK
  <2>2. /\ verdict' \in [Reqs -> Verdicts]
        /\ \A q \in Reqs \ {r} : verdict'[q] = verdict[q]
        /\ verdict'[r].kind = "handler" =>
              /\ kind = "handler"
              /\ verdict'[r] = [kind |-> kind, answeredAt |-> now,
                                method |-> method[r], token |-> tok[r]]
    BY <1>0, <2>0, <2>1, DecideFacts
  <2>3. /\ cache' \in [Tokens -> Entries \cup {NoEntry}]
        /\ CacheFresh'
    BY <1>0, <2>0, SetFacts DEF CacheFresh
  <2>4. TypeOK'
    BY <1>0, <2>0, <2>2, <2>3 DEF TypeOK, Verdicts
  <2>5. HandlerBackedByRecentValidation'
    <3>1. 0 <= TTL
      BY TTLFacts
    <3>. QED
      BY <1>0, <2>0, <2>2, <3>1 DEF IInv, HandlerBackedByRecentValidation
  <2>. QED
    BY <2>3, <2>4, <2>5 DEF IInv
<1>5. ASSUME NEW r \in Reqs, CancelCall(r) PROVE IInv'
  <2>1. TypeOK'
    BY <1>0, <1>5 DEF CancelCall, TypeOK
  <2>. QED
    BY <1>5, <2>1, FrameKeeps DEF CancelCall
<1>6. CASE ClearGRPCTokenCache
  <2>1. TypeOK' /\ CacheFresh'
    BY <1>0, <1>6 DEF ClearGRPCTokenCache, TypeOK, CacheFresh
  <2>. QED
    BY <1>6, <2>1 DEF ClearGRPCTokenCache, IInv, HandlerBackedByRecentValidation
<1>7. CASE Tick
  <2>1. NoVerdict \in Verdicts /\ NoVerdict.kind = "none"
    BY GrpcAuthAssumption DEF NoVerdict, Verdicts, Kinds, Times
  <2>2. TypeOK'
    <3>1. now' \in Times
      BY <1>0, <1>7, GrpcAuthAssumption DEF Tick, Times
    <3>2. verdict' \in [Reqs -> Verdicts]
      BY <1>7, <2>1 DEF Tick
    <3>. QED
      BY <1>0, <1>7, <3>1, <3>2 DEF Tick, TypeOK, Verdicts
  <2>3. CacheFresh'
    <3>1. ASSUME NEW t \in Tokens, cache[t] # NoEntry
          PROVE  cache[t].answeredAt <= now + 1
                 /\ cache[t].expiresAt = cache[t].answeredAt + TTL
      <4>1. cache[t] \in Entries
        BY <1>0, <3>1 DEF TypeOK
      <4>. QED
        BY <1>0, <3>1, <4>1 DEF CacheFresh, Entries, Times
    <3>. QED
      BY <1>7, <3>1 DEF Tick, CacheFresh
  <2>. QED
    BY <1>7, <2>1, <2>2, <2>3 DEF Tick, IInv, HandlerBackedByRecentValidation
<1>8. CASE UNCHANGED vars
  BY <1>8 DEF vars, IInv, TypeOK, CacheFresh, HandlerBackedByRecentValidation
<1>. QED
  BY <1>1, <1>2, <1>3, <1>4, <1>5, <1>6, <1>7, <1>8 DEF Next

-----------------------------------------------------------------------------

(* The interceptor's state is well typed in every reachable state, for   *)
(* any number of concurrent calls, tokens, methods and scope maps.       *)
THEOREM TypeCorrect == Spec => []TypeOK
<1>1. IInv => TypeOK
  BY DEF IInv
<1>. QED
  BY <1>1, IInvInit, IInvStep, PTL DEF Spec

(* For every CacheTTL (0 meaning the 5-minute default), every size        *)
(* threshold and any interleaving of calls, clears and time, a call       *)
(* reaches its handler only on a valid validation at most TTL old, both  *)
(* on a cache hit (get's expiry test against the expiresAt set wrote)    *)
(* and on a fresh answer.                                                 *)
THEOREM RecentValidation == Spec => []HandlerBackedByRecentValidation
<1>1. IInv => HandlerBackedByRecentValidation
  BY DEF IInv
<1>. QED
  BY <1>1, IInvInit, IInvStep, PTL DEF Spec

=============================================================================
