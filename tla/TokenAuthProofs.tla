---------------------------- MODULE TokenAuthProofs ----------------------------
(***************************************************************************)
(* Proofs about the remote service-token middleware of                    *)
(* src/http/middleware/service_auth_remote.go.  A request is let through  *)
(* from a cache hit or from a fresh valid answer.  Both rest on what set  *)
(* wrote into the process-wide remoteTokenCache: only valid answers (the  *)
(* handler returns on Valid false before set), stored at an instant no    *)
(* later than now, expiring TTL(m) after it for the instance m that       *)
(* stored it.  Since the cache is shared, the age of a hit is bounded by  *)
(* the admitting instance's TTL only when every instance has the same     *)
(* TTL; the theorem about it says so.                                     *)
(***************************************************************************)
EXTENDS TokenAuth, TLAPS

\* The records a decision can be.
Verdicts == [kind : Kinds, answeredAt : Times \cup {-1},
             valid : BOOLEAN, mw : Mws, token : Tokens \cup {NoHeader}]

\* Every middleware instance of the process resolves the same cache TTL.
SameTTL == \A m1, m2 \in Mws : TTL(m1) = TTL(m2)

\* Every cached validation is a valid answer stored by set at or before
\* now, with expiresAt = time.Now().Add(ttl) for some instance's ttl.
CacheFresh ==
    \A t \in Tokens :
        cache[t] # NoEntry =>
            /\ cache[t].valid
            /\ cache[t].answeredAt <= now
            /\ \E m \in Mws : cache[t].expiresAt = cache[t].answeredAt + TTL(m)

\* A request about to store holds a valid answer (Valid false returned).
StoreValid == \A r \in Reqs : pc[r] = "store" => answer[r]

\* An admitted request rests on a valid answer.
AdmittedValid == \A r \in Reqs : verdict[r].kind = "next" => verdict[r].valid

\* What holds whatever the TTLs of the instances.
IInv ==
    /\ TypeOK
    /\ CacheFresh
    /\ StoreValid
    /\ AdmittedValid

-----------------------------------------------------------------------------

\* Every instance's ttl is a number of minutes.
LEMMA TTLFacts == \A m \in Mws : TTL(m) \in Nat
BY AuthAssumption DEF TTL

LEMMA NoVerdictFacts == NoVerdict \in Verdicts /\ NoVerdict.kind = "none"
BY AuthAssumption DEF NoVerdict, Verdicts, Kinds, Times

\* What Decide writes: a decision for request r and nothing else; an
\* admission carries the middleware, the token and the validation it
\* rested on.
LEMMA DecideFacts ==
    ASSUME TypeOK, NEW r \in Reqs, NEW m \in Mws,
           NEW h \in Tokens \cup {NoHeader}, NEW kind \in Kinds, NEW e,
           kind = "next" => e.answeredAt \in Times /\ e.valid \in BOOLEAN,
           Decide(r, m, h, kind, e)
    PROVE  /\ verdict' \in [Reqs -> Verdicts]
           /\ \A q \in Reqs \ {r} : verdict'[q] = verdict[q]
           /\ verdict'[r].kind = "next" =>
                 /\ kind = "next"
                 /\ verdict'[r] = [kind |-> kind, answeredAt |-> e.answeredAt,
                                   valid |-> e.valid, mw |-> m, token |-> h]
<1>1. [NoVerdict EXCEPT !.kind = kind] \in Verdicts
      /\ [NoVerdict EXCEPT !.kind = kind].kind = kind
  BY NoVerdictFacts DEF Verdicts, NoVerdict
<1>2. verdict \in [Reqs -> Verdicts]
  BY DEF TypeOK, Verdicts
<1>. QED
  BY <1>1, <1>2 DEF Decide, Verdicts

\* The cache after a store of a valid answer with some instance's ttl:
\* every entry is the new one, one that was there, or NoEntry.
LEMMA SetFacts ==
    ASSUME TypeOK, CacheFresh, NEW t \in Tokens, NEW m \in Mws
    PROVE  /\ set(t, TRUE, TTL(m)) \in [Tokens -> Entries \cup {NoEntry}]
           /\ \A k \in Tokens :
                 set(t, TRUE, TTL(m))[k] # NoEntry =>
                    /\ set(t, TRUE, TTL(m))[k].valid
                    /\ set(t, TRUE, TTL(m))[k].answeredAt <= now
                    /\ \E m2 \in Mws : set(t, TRUE, TTL(m))[k].expiresAt
                                          = set(t, TRUE, TTL(m))[k].answeredAt + TTL(m2)
<1> DEFINE e == [valid |-> TRUE, expiresAt |-> now + TTL(m), answeredAt |-> now]
           c == [cache EXCEPT ![t] = e]
           swept == [k \in Tokens |-> IF c[k] # NoEntry /\ now > c[k].expiresAt
                                      THEN NoEntry ELSE c[k]]
           Good(x) == /\ x.valid
                      /\ x.answeredAt <= now
                      /\ \E m2 \in Mws : x.expiresAt = x.answeredAt + TTL(m2)
<1>1. e \in Entries /\ e # NoEntry /\ Good(e)
  <2>1. now \in Times /\ now \in Nat /\ TTL(m) \in Nat
    BY TTLFacts DEF TypeOK, Times
  <2>2. e \in Entries /\ e # NoEntry
    BY <2>1 DEF Entries, NoEntry
  <2>3. e.expiresAt = e.answeredAt + TTL(m)
    OBVIOUS
  <2>. QED
    BY <2>1, <2>2, <2>3
<1>2. c \in [Tokens -> Entries \cup {NoEntry}]
  BY <1>1 DEF TypeOK
<1>3. \A k \in Tokens : c[k] # NoEntry => Good(c[k])
  <2>1. c[t] = e
    BY DEF TypeOK
  <2>2. ASSUME NEW k \in Tokens \ {t}, c[k] # NoEntry PROVE Good(c[k])
    BY <2>2 DEF TypeOK, CacheFresh
  <2>. QED
    BY <1>1, <2>1, <2>2
<1>4. /\ swept \in [Tokens -> Entries \cup {NoEntry}]
      /\ \A k \in Tokens : swept[k] \in {NoEntry, c[k]}
  BY <1>2
<1>5. set(t, TRUE, TTL(m)) = c \/ set(t, TRUE, TTL(m)) = swept
  BY DEF set
<1>. QED
  BY <1>2, <1>3, <1>4, <1>5

LEMMA IInvInit == Init => IInv
<1> SUFFICES ASSUME Init PROVE IInv
  OBVIOUS
<1>1. TypeOK
  BY NoVerdictFacts, AuthAssumption DEF Init, TypeOK, Verdicts, Times
<1>. QED
  BY <1>1, NoVerdictFacts DEF Init, IInv, CacheFresh, StoreValid, AdmittedValid

\* A step that records a decision and leaves the cache and the clock
\* alone keeps the invariant, given that it is well typed, keeps
\* StoreValid, and admits only on a valid answer.
LEMMA DecideKeeps ==
    ASSUME IInv, NEW r \in Reqs, NEW m \in Mws,
           NEW h \in Tokens \cup {NoHeader}, NEW kind \in Kinds, NEW e,
           Decide(r, m, h, kind, e),
           kind = "next" => e.valid = TRUE /\ e.answeredAt \in Times,
           UNCHANGED <<cache, now>>, TypeOK', StoreValid'
    PROVE  IInv'
<1>1. /\ \A q \in Reqs \ {r} : verdict'[q] = verdict[q]
      /\ verdict'[r].kind = "next" =>
            /\ kind = "next"
            /\ verdict'[r] = [kind |-> kind, answeredAt |-> e.answeredAt,
                              valid |-> e.valid, mw |-> m, token |-> h]
  <2>1. TypeOK /\ (kind = "next" => e.answeredAt \in Times /\ e.valid \in BOOLEAN)
    BY DEF IInv
  <2>. QED
    BY <2>1, DecideFacts
<1>2. CacheFresh'
  BY DEF IInv, CacheFresh
<1>3. AdmittedValid'
  BY <1>1 DEF IInv, AdmittedValid
<1>. QED
  BY <1>2, <1>3 DEF IInv

\* The frame of a step that leaves the cache, the clock, the decisions and
\* the requests' control state alone.
LEMMA FrameKeeps ==
    ASSUME IInv, UNCHANGED <<cache, now, verdict>>, TypeOK', StoreValid'
    PROVE  IInv'
BY DEF IInv, CacheFresh, AdmittedValid

LEMMA IInvStep == IInv /\ [Next]_vars => IInv'
<1> SUFFICES ASSUME IInv, [Next]_vars PROVE IInv'
  OBVIOUS
<1>0. TypeOK /\ CacheFresh /\ StoreValid /\ now \in Nat
  BY DEF IInv, TypeOK, Times
<1>1. ASSUME NEW r \in Reqs, NEW m \in Mws, NEW h \in Tokens \cup {NoHeader},
             NEW skip \in BOOLEAN, Receive(r, m, h, skip)
      PROVE  IInv'
  <2>0. UNCHANGED <<cache, authority, now, answer, deadline>> /\ pc[r] = "idle"
    BY <1>1 DEF Receive
  <2>1. CASE ~AuthEnabled \/ skip
    <3>1. Decide(r, m, h, "skip", NoEntry) /\ UNCHANGED <<pc, route, tok>>
      BY <1>1, <2>1 DEF Receive
    <3>2. TypeOK' /\ StoreValid'
      BY <1>0, <2>0, <3>1, DecideFacts DEF TypeOK, Verdicts, Kinds, StoreValid
    <3>. QED
      BY <2>0, <3>1, <3>2, DecideKeeps DEF Kinds
  <2>2. CASE AuthEnabled /\ ~skip /\ h = NoHeader
    <3>1. Decide(r, m, h, "unauthenticated", NoEntry) /\ UNCHANGED <<pc, route, tok>>
      BY <1>1, <2>2 DEF Receive, Live
    <3>2. TypeOK' /\ StoreValid'
      BY <1>0, <2>0, <3>1, DecideFacts DEF TypeOK, Verdicts, Kinds, StoreValid
    <3>. QED
      BY <2>0, <3>1, <3>2, DecideKeeps DEF Kinds
  <2>3. CASE AuthEnabled /\ ~skip /\ h # NoHeader /\ Live(cache[h])
    <3> DEFINE kind == IF ScopeOK(m, TokenScopes[h]) THEN "next" ELSE "forbidden"
    <3>1. Decide(r, m, h, kind, cache[h]) /\ UNCHANGED <<pc, route, tok>>
      BY <1>1, <2>3 DEF Receive
    <3>2. /\ h \in Tokens /\ cache[h] # NoEntry
          /\ cache[h] \in Entries
          /\ cache[h].valid = TRUE
      BY <1>0, <2>3 DEF Live, TypeOK, CacheFresh
    <3>3. /\ kind \in Kinds
          /\ kind = "next" => /\ ScopeOK(m, TokenScopes[h])
                              /\ cache[h].valid = TRUE /\ cache[h].answeredAt \in Times
      BY <3>2 DEF Kinds, Entries
    <3>4. TypeOK' /\ StoreValid'
      BY <1>0, <2>0, <3>1, <3>3, DecideFacts DEF TypeOK, Verdicts, StoreValid
    <3>. QED
      BY <2>0, <3>1, <3>3, <3>4, DecideKeeps
  <2>4. CASE AuthEnabled /\ ~skip /\ h # NoHeader /\ ~Live(cache[h])
    <3>1. /\ pc' = [pc EXCEPT ![r] = "remote"]
          /\ route' = [route EXCEPT ![r] = m]
          /\ tok' = [tok EXCEPT ![r] = h]
          /\ UNCHANGED verdict
      BY <1>1, <2>4 DEF Receive
    <3>2. TypeOK' /\ StoreValid'
      BY <1>0, <2>0, <2>4, <3>1 DEF TypeOK, StoreValid
    <3>. QED
      BY <2>0, <3>1, <3>2, FrameKeeps
  <2>. QED
    BY <2>1, <2>2, <2>3, <2>4
<1>2. ASSUME NEW r \in Reqs, ValidateReturn(r) PROVE IInv'
  <2>0. /\ pc[r] = "remote"
        /\ deadline' = [deadline EXCEPT ![r] = FALSE]
        /\ UNCHANGED <<cache, authority, now, route, tok>>
        /\ route[r] \in Mws /\ tok[r] \in Tokens
    BY <1>0, <1>2 DEF ValidateReturn, TypeOK
  <2>1. CASE /\ Decide(r, route[r], tok[r], "unauthenticated", NoEntry)
             /\ pc' = [pc EXCEPT ![r] = "idle"]
             /\ UNCHANGED answer
    <3>1. TypeOK' /\ StoreValid'
      BY <1>0, <2>0, <2>1, DecideFacts DEF TypeOK, Verdicts, Kinds, StoreValid
    <3>. QED
      BY <2>0, <2>1, <3>1, DecideKeeps DEF Kinds
  <2>2. CASE /\ answer' = [answer EXCEPT ![r] = TRUE]
             /\ pc' = [pc EXCEPT ![r] = "store"]
             /\ UNCHANGED verdict
    <3>1. TypeOK' /\ StoreValid'
      BY <1>0, <2>0, <2>2 DEF TypeOK, StoreValid
    <3>. QED
      BY <2>0, <2>2, <3>1, FrameKeeps
  <2>. QED
    BY <1>2, <2>1, <2>2 DEF ValidateReturn
<1>3. ASSUME NEW r \in Reqs, Store(r) PROVE IInv'
  <2> DEFINE kind == IF ScopeOK(route[r], TokenScopes[tok[r]]) THEN "next" ELSE "forbidden"
             e == [valid |-> answer[r], answeredAt |-> now]
  <2>0. /\ cache' = set(tok[r], answer[r], TTL(route[r]))
        /\ Decide(r, route[r], tok[r], kind, e)
        /\ pc' = [pc EXCEPT ![r] = "idle"]
        /\ answer' = [answer EXCEPT ![r] = FALSE]
        /\ UNCHANGED <<authority, now, route, tok, deadline>>
        /\ route[r] \in Mws /\ tok[r] \in Tokens
        /\ answer[r] = TRUE
    BY <1>0, <1>3 DEF Store, TypeOK, StoreValid
  <2>1. kind \in Kinds /\ e.answeredAt \in Times /\ e.valid = TRUE
    BY <1>0, <2>0 DEF Kinds, TypeOK
  <2>2. /\ verdict' \in [Reqs -> Verdicts]
        /\ \A q \in Reqs \ {r} : verdict'[q] = verdict[q]
        /\ verdict'[r].kind = "next" =>
              /\ kind = "next"
              /\ verdict'[r] = [kind |-> kind, answeredAt |-> now, valid |-> TRUE,
                                mw |-> route[r], token |-> tok[r]]
    <3>1. /\ verdict' \in [Reqs -> Verdicts]
          /\ \A q \in Reqs \ {r} : verdict'[q] = verdict[q]
          /\ verdict'[r].kind = "next" =>
                /\ kind = "next"
                /\ verdict'[r] = [kind |-> kind, answeredAt |-> e.answeredAt,
                                  valid |-> e.valid, mw |-> route[r], token |-> tok[r]]
      <4>1. kind = "next" => e.answeredAt \in Times /\ e.valid \in BOOLEAN
        BY <2>1
      <4>2. tok[r] \in Tokens \cup {NoHeader}
        BY <2>0
      <4>. QED
        BY <1>0, <2>0, <2>1, <4>1, <4>2, DecideFacts
    <3>2. e.answeredAt = now /\ e.valid = TRUE
      BY <2>0
    <3>. QED
      BY <3>1, <3>2
  <2>3. cache' \in [Tokens -> Entries \cup {NoEntry}] /\ CacheFresh'
    <3>1. cache' = set(tok[r], TRUE, TTL(route[r]))
      BY <2>0
    <3>2. /\ set(tok[r], TRUE, TTL(route[r])) \in [Tokens -> Entries \cup {NoEntry}]
          /\ \A k \in Tokens :
                set(tok[r], TRUE, TTL(route[r]))[k] # NoEntry =>
                   /\ set(tok[r], TRUE, TTL(route[r]))[k].valid
                   /\ set(tok[r], TRUE, TTL(route[r]))[k].answeredAt <= now
                   /\ \E m2 \in Mws : set(tok[r], TRUE, TTL(route[r]))[k].expiresAt
                         = set(tok[r], TRUE, TTL(route[r]))[k].answeredAt + TTL(m2)
      BY <1>0, <2>0, SetFacts
    <3>. QED
      BY <2>0, <3>1, <3>2 DEF CacheFresh
  <2>4. TypeOK' /\ StoreValid'
    BY <1>0, <2>0, <2>2, <2>3 DEF TypeOK, Verdicts, StoreValid
  <2>5. AdmittedValid'
    BY <2>2 DEF IInv, AdmittedValid
  <2>. QED
    BY <2>3, <2>4, <2>5 DEF IInv
<1>4. ASSUME NEW t \in Tokens, InvalidateToken(t) PROVE IInv'
  <2>1. TypeOK' /\ CacheFresh' /\ StoreValid'
    BY <1>0, <1>4 DEF InvalidateToken, TypeOK, CacheFresh, StoreValid
  <2>. QED
    BY <1>4, <2>1 DEF InvalidateToken, IInv, AdmittedValid
<1>5. CASE ClearTokenCache
  <2>1. TypeOK' /\ CacheFresh' /\ StoreValid'
    BY <1>0, <1>5 DEF ClearTokenCache, TypeOK, CacheFresh, StoreValid
  <2>. QED
    BY <1>5, <2>1 DEF ClearTokenCache, IInv, AdmittedValid
<1>6. ASSUME NEW t \in Tokens, Revoke(t) PROVE IInv'
  <2>1. TypeOK' /\ StoreValid'
    BY <1>0, <1>6 DEF Revoke, TypeOK, StoreValid
  <2>. QED
    BY <1>6, <2>1, FrameKeeps DEF Revoke
<1>7. ASSUME NEW r \in Reqs, Expire(r) PROVE IInv'
  <2>1. TypeOK' /\ StoreValid'
    BY <1>0, <1>7 DEF Expire, TypeOK, StoreValid
  <2>. QED
    BY <1>7, <2>1, FrameKeeps DEF Expire
<1>8. CASE Tick
  <2>1. TypeOK'
    <3>1. now' \in Times
      BY <1>0, <1>8, AuthAssumption DEF Tick, Times
    <3>2. verdict' \in [Reqs -> Verdicts]
      BY <1>8, NoVerdictFacts DEF Tick
    <3>. QED
      BY <1>0, <1>8, <3>1, <3>2 DEF Tick, TypeOK, Verdicts
  <2>2. CacheFresh'
    <3>1. ASSUME NEW t \in Tokens, cache[t] # NoEntry
          PROVE  /\ cache[t].valid
                 /\ cache[t].answeredAt <= now + 1
                 /\ \E m \in Mws : cache[t].expiresAt = cache[t].answeredAt + TTL(m)
      <4>1. cache[t] \in Entries
        BY <1>0, <3>1 DEF TypeOK
      <4>. QED
        BY <1>0, <3>1, <4>1 DEF CacheFresh, Entries, Times
    <3>. QED
      BY <1>8, <3>1 DEF Tick, CacheFresh
  <2>3. StoreValid'
    BY <1>0, <1>8 DEF Tick, StoreValid
  <2>. QED
    BY <1>8, <2>1, <2>2, <2>3, NoVerdictFacts
       DEF Tick, IInv, AdmittedValid
<1>9. CASE UNCHANGED vars
  BY <1>9 DEF vars, IInv, TypeOK, CacheFresh, StoreValid, AdmittedValid
<1>. QED
  BY <1>1, <1>2, <1>3, <1>4, <1>5, <1>6, <1>7, <1>8, <1>9 DEF Next

(***************************************************************************)
(* The age of an admission.  Every request let through was decided on a   *)
(* validation at most TTL(mw) ago, where mw is the middleware instance    *)
(* that handled it.  A cache hit is only as young as the entry's own ttl, *)
(* which is the ttl of the instance that stored it; so the step argument  *)
(* needs every instance to store with the same ttl (SameTTL).  With two   *)
(* different CacheTTLs the property fails, and MC_TokenAuth_sharedttl.cfg *)
(* is the run that shows it.                                              *)
(***************************************************************************)
AdmissionTTL ==
    \A r \in Reqs :
        verdict[r].kind = "next" => now - verdict[r].answeredAt <= TTL(verdict[r].mw)

\* A decision that admits only on a validation at most TTL(m) old keeps the
\* age of every admission within its middleware's ttl.
LEMMA DecideTTL ==
    ASSUME TypeOK, AdmissionTTL, NEW r \in Reqs, NEW m \in Mws,
           NEW h \in Tokens \cup {NoHeader}, NEW kind \in Kinds, NEW e,
           kind = "next" => /\ e.answeredAt \in Times /\ e.valid \in BOOLEAN
                            /\ now - e.answeredAt <= TTL(m),
           Decide(r, m, h, kind, e), now' = now
    PROVE  AdmissionTTL'
<1>1. /\ \A q \in Reqs \ {r} : verdict'[q] = verdict[q]
      /\ verdict'[r].kind = "next" =>
            /\ kind = "next"
            /\ verdict'[r] = [kind |-> kind, answeredAt |-> e.answeredAt,
                              valid |-> e.valid, mw |-> m, token |-> h]
  <2>1. kind = "next" => e.answeredAt \in Times /\ e.valid \in BOOLEAN
    OBVIOUS
  <2>. QED
    BY <2>1, DecideFacts
<1>. QED
  BY <1>1 DEF AdmissionTTL

LEMMA AdmissionTTLStep ==
    SameTTL /\ IInv /\ AdmissionTTL /\ [Next]_vars => AdmissionTTL'
<1> SUFFICES ASSUME SameTTL, IInv, AdmissionTTL, [Next]_vars PROVE AdmissionTTL'
  OBVIOUS
<1>0. TypeOK /\ CacheFresh /\ now \in Nat
  BY DEF IInv, TypeOK, Times
<1>1. ASSUME NEW r \in Reqs, NEW m \in Mws, NEW h \in Tokens \cup {NoHeader},
             NEW skip \in BOOLEAN, Receive(r, m, h, skip)
      PROVE  AdmissionTTL'
  <2>0. now' = now
    BY <1>1 DEF Receive
  <2>1. CASE Decide(r, m, h, "skip", NoEntry)
    BY <1>0, <2>0, <2>1, DecideTTL DEF Kinds
  <2>2. CASE Decide(r, m, h, "unauthenticated", NoEntry)
    BY <1>0, <2>0, <2>2, DecideTTL DEF Kinds
  <2>3. CASE h # NoHeader /\ Live(cache[h])
             /\ Decide(r, m, h, IF ScopeOK(m, TokenScopes[h]) THEN "next" ELSE "forbidden",
                       cache[h])
    <3> DEFINE kind == IF ScopeOK(m, TokenScopes[h]) THEN "next" ELSE "forbidden"
    <3>1. h \in Tokens /\ cache[h] # NoEntry /\ cache[h] \in Entries
      BY <1>0, <2>3 DEF Live, TypeOK
    <3>2. PICK m2 \in Mws : cache[h].expiresAt = cache[h].answeredAt + TTL(m2)
      BY <1>0, <3>1 DEF CacheFresh
    <3>3. now <= cache[h].expiresAt
      BY <2>3 DEF Live
    <3>4. TTL(m2) = TTL(m)
      BY DEF SameTTL
    <3>5. now - cache[h].answeredAt <= TTL(m)
      BY <1>0, <3>1, <3>2, <3>3, <3>4, TTLFacts DEF Entries, Times
    <3>6. kind \in Kinds /\ cache[h].answeredAt \in Times /\ cache[h].valid \in BOOLEAN
      BY <3>1 DEF Kinds, Entries
    <3>. QED
      BY <1>0, <2>0, <2>3, <3>5, <3>6, DecideTTL
  <2>4. CASE UNCHANGED verdict
    BY <2>0, <2>4 DEF AdmissionTTL
  <2>. QED
    BY <1>1, <2>1, <2>2, <2>3, <2>4 DEF Receive
<1>2. ASSUME NEW r \in Reqs, ValidateReturn(r) PROVE AdmissionTTL'
  <2>0. now' = now /\ route[r] \in Mws /\ tok[r] \in Tokens
    BY <1>0, <1>2 DEF ValidateReturn, TypeOK
  <2>1. CASE Decide(r, route[r], tok[r], "unauthenticated", NoEntry)
    BY <1>0, <2>0, <2>1, DecideTTL DEF Kinds
  <2>2. CASE UNCHANGED verdict
    BY <2>0, <2>2 DEF AdmissionTTL
  <2>. QED
    BY <1>2, <2>1, <2>2 DEF ValidateReturn
<1>3. ASSUME NEW r \in Reqs, Store(r) PROVE AdmissionTTL'
  <2> DEFINE kind == IF ScopeOK(route[r], TokenScopes[tok[r]]) THEN "next" ELSE "forbidden"
             e == [valid |-> answer[r], answeredAt |-> now]
  <2>0. /\ Decide(r, route[r], tok[r], kind, e) /\ now' = now
        /\ route[r] \in Mws /\ tok[r] \in Tokens /\ answer[r] \in BOOLEAN
    BY <1>0, <1>3 DEF Store, TypeOK
  <2>1. kind \in Kinds /\ e.answeredAt \in Times /\ e.valid \in BOOLEAN
    BY <1>0, <2>0 DEF Kinds, TypeOK
  <2>2. now - e.answeredAt <= TTL(route[r])
    BY <1>0, <2>0, TTLFacts
  <2>. QED
    BY <1>0, <2>0, <2>1, <2>2, DecideTTL
<1>4. CASE Tick
  BY <1>4, NoVerdictFacts DEF Tick, AdmissionTTL
<1>5. CASE UNCHANGED <<verdict, now>>
  BY <1>5 DEF AdmissionTTL
<1>. QED
  BY <1>1, <1>2, <1>3, <1>4, <1>5
     DEF Next, InvalidateToken, ClearTokenCache, Revoke, Expire, vars

-----------------------------------------------------------------------------
(* Theorems *)

\* The token-auth model is well typed in every reachable state.
THEOREM TypeCorrect == Spec => []TypeOK
BY IInvInit, IInvStep, PTL DEF Spec, IInv

\* Every admitted request rests on a validation in which the authority
\* called the token valid: the shared cache only ever holds valid answers.
THEOREM AdmissionOnValidAnswer == Spec => []AdmittedValid
BY IInvInit, IInvStep, PTL DEF Spec, IInv

\* When every middleware instance caches with the same CacheTTL, every
\* admission rests on a valid answer at most that TTL old.  The hypothesis
\* is needed: remoteTokenCache is shared by all instances, and an entry
\* stored with a long TTL admits through an instance with a shorter one.
THEOREM RecentValidationUnderSameTTL ==
    SameTTL => (Spec => []AdmissionBackedByRecentValidation)
<1> SUFFICES ASSUME SameTTL PROVE Spec => []AdmissionBackedByRecentValidation
  OBVIOUS
<1>1. Init => AdmissionTTL
  BY NoVerdictFacts DEF Init, AdmissionTTL
<1>2. IInv /\ AdmissionTTL => AdmissionBackedByRecentValidation
  BY DEF IInv, AdmittedValid, AdmissionTTL, AdmissionBackedByRecentValidation
<1>3. IInv /\ AdmissionTTL /\ [Next]_vars => IInv' /\ AdmissionTTL'
  BY IInvStep, AdmissionTTLStep
<1>. QED
  BY <1>1, <1>2, <1>3, IInvInit, PTL DEF Spec

-----------------------------------------------------------------------------
(* The cache's inline cleanup.                                             *)

\* The step of SetSelfBounds.
SelfBoundStep ==
    \A r \in Reqs :
        (pc[r] = "store" /\ pc'[r] = "idle"
         /\ Cardinality({t \in Tokens : cache'[t] # NoEntry}) > SizeThreshold)
           => \A t \in Tokens : cache'[t] # NoEntry => now <= cache'[t].expiresAt

\* What set leaves when it sweeps, and that it sweeps whenever the entries
\* it leaves outnumber the threshold.
LEMMA SetSweeps ==
    ASSUME TypeOK, NEW t \in Tokens, NEW v \in BOOLEAN, NEW ttl \in Nat,
           Cardinality({k \in Tokens : set(t, v, ttl)[k] # NoEntry}) > SizeThreshold
    PROVE  \A k \in Tokens : set(t, v, ttl)[k] # NoEntry => now <= set(t, v, ttl)[k].expiresAt
<1> DEFINE e == [valid |-> v, expiresAt |-> now + ttl, answeredAt |-> now]
           c == [cache EXCEPT ![t] = e]
           swept == [k \in Tokens |-> IF c[k] # NoEntry /\ now > c[k].expiresAt
                                      THEN NoEntry ELSE c[k]]
<1>1. now \in Nat
  BY DEF TypeOK, Times
<1>2. \A k \in Tokens : c[k] # NoEntry => c[k].expiresAt \in Nat
  BY <1>1 DEF TypeOK, Entries
<1>3. CASE Cardinality({k \in Tokens : c[k] # NoEntry}) > SizeThreshold
  <2>1. set(t, v, ttl) = swept
    BY <1>3 DEF set
  <2>. QED
    BY <1>1, <1>2, <2>1
<1>4. CASE ~(Cardinality({k \in Tokens : c[k] # NoEntry}) > SizeThreshold)
  <2>1. set(t, v, ttl) = c
    BY <1>4 DEF set
  <2>. QED
    BY <1>4, <2>1
<1>. QED
  BY <1>3, <1>4

LEMMA SelfBoundNext == IInv /\ [Next]_vars => [SelfBoundStep]_vars
<1> SUFFICES ASSUME IInv, [Next]_vars PROVE SelfBoundStep
  OBVIOUS
<1>0. TypeOK
  BY DEF IInv
<1>. SUFFICES ASSUME NEW r \in Reqs, pc[r] = "store", pc'[r] = "idle",
                    Cardinality({t \in Tokens : cache'[t] # NoEntry}) > SizeThreshold
             PROVE  \A t \in Tokens : cache'[t] # NoEntry => now <= cache'[t].expiresAt
  BY DEF SelfBoundStep
<1>1. Store(r)
  <2>1. ASSUME NEW q \in Reqs, NEW m \in Mws, NEW h \in Tokens \cup {NoHeader},
               NEW skip \in BOOLEAN, Receive(q, m, h, skip)
        PROVE  FALSE
    BY <1>0, <2>1 DEF Receive, TypeOK
  <2>2. ASSUME NEW q \in Reqs, ValidateReturn(q) PROVE FALSE
    BY <1>0, <2>2 DEF ValidateReturn, TypeOK
  <2>3. ASSUME NEW q \in Reqs, Store(q), q # r PROVE FALSE
    BY <1>0, <2>3 DEF Store, TypeOK
  <2>4. ASSUME NEW q \in Reqs, Expire(q) PROVE FALSE
    BY <2>4 DEF Expire
  <2>5. ASSUME NEW t \in Tokens, InvalidateToken(t) \/ Revoke(t) PROVE FALSE
    BY <2>5 DEF InvalidateToken, Revoke
  <2>6. ASSUME ClearTokenCache \/ Tick \/ UNCHANGED vars PROVE FALSE
    BY <2>6 DEF ClearTokenCache, Tick, vars
  <2>. QED
    BY <2>1, <2>2, <2>3, <2>4, <2>5, <2>6 DEF Next
<1>2. /\ cache' = set(tok[r], answer[r], TTL(route[r]))
      /\ tok[r] \in Tokens /\ answer[r] \in BOOLEAN /\ TTL(route[r]) \in Nat
  BY <1>0, <1>1, TTLFacts DEF Store, TypeOK
<1>. QED
  BY <1>0, <1>2, SetSweeps

\* A store that leaves more entries in remoteTokenCache than the threshold
\* leaves no expired one: set's inline cleanup runs before the store
\* returns, whatever the middleware instance and its ttl.
THEOREM SetBoundsItself == Spec => SetSelfBounds
<1>1. Spec => []IInv
  BY IInvInit, IInvStep, PTL DEF Spec
<1>. QED
  BY <1>1, SelfBoundNext, PTL DEF Spec, SetSelfBounds, SelfBoundStep

=============================================================================
