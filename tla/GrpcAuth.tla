------------------------------ MODULE GrpcAuth ------------------------------
(***************************************************************************)
(* The service-token check of the RPC layer, src/grpc/auth_interceptor.go: *)
(* UnaryAuthInterceptor and StreamAuthInterceptor (which share            *)
(* validateGRPCToken and the per-method scope test) over the process-wide *)
(* grpcTokenCache tokenCache.                                              *)
(*                                                                         *)
(* A call of method m reads the "authorization" metadata, looks the token *)
(* up in the cache under the read lock, and on a miss calls               *)
(* ValidateToken(ctx, token) with the call's own context; a valid answer  *)
(* is stored for cfg.CacheTTL and the method's required scope from         *)
(* cfg.ScopeMap is checked.  The authority's answer carries the token's   *)
(* own expiry (ExpiresAt); the cache does not read it.  Time is counted   *)
(* in minutes; a scope is the sequence of its ":"-separated parts.        *)
(***************************************************************************)
EXTENDS Integers, Sequences, FiniteSets

CONSTANTS
    Reqs,          \* concurrent calls
    Tokens,        \* bearer tokens
    Methods,       \* gRPC full method names
    ScopeMap,      \* cfg.ScopeMap: each method's required scope, or NoScope
    SkipMethods,   \* cfg.SkipMethods
    Enabled,       \* cfg.Enabled
    CacheTTL,      \* cfg.CacheTTL, 0 for "not set"
    TokenScopes,   \* the scopes the authority grants each token
    TokenExpiry,   \* the authority's ExpiresAt of each token
    SizeThreshold, \* the 1000 of set's cleanup trigger
    MaxTime        \* bound on the clock

NoHeader == "none"
NoScope == << >>

ASSUME GrpcAuthAssumption ==
    /\ Methods # {} /\ Tokens # {}
    /\ CacheTTL \in Nat
    /\ Enabled \in BOOLEAN
    /\ SkipMethods \subseteq Methods
    /\ TokenExpiry \in [Tokens -> Nat]
    /\ SizeThreshold \in Nat
    /\ MaxTime \in Nat
    /\ NoHeader \notin Tokens

\* ttl := cfg.CacheTTL, or 5 minutes when it is 0.
TTL == IF CacheTTL = 0 THEN 5 ELSE CacheTTL

\* HasScope: "*", the exact scope, or "resource:*" when the required scope
\* splits into exactly two parts.
HasScope(scopes, required) ==
    \E scope \in scopes :
        \/ scope = <<"*">>
        \/ scope = required
        \/ Len(required) = 2 /\ scope = <<required[1], "*">>

\* The interceptors' scope test after validateGRPCToken.
ScopeOK(m, scopes) == ScopeMap[m] = NoScope \/ HasScope(scopes, ScopeMap[m])

NoEntry == [expiresAt |-> -1, answeredAt |-> -1]
Times == 0..MaxTime
Entries == [expiresAt : Nat, answeredAt : Times]
Kinds == {"none", "skip", "handler", "unauthenticated", "denied"}
NoVerdict == [kind |-> "none", answeredAt |-> -1, method |-> CHOOSE m \in Methods : TRUE,
              token |-> NoHeader]

VARIABLES
    cache,     \* tokenCache.cache: an entry or NoEntry per token
    now,       \* time.Now()
    pc,        \* per call: "idle", "remote" (in ValidateToken), "store"
    method,    \* per call past the cache: its full method
    tok,       \* per call past the cache: its token
    ctxDone,   \* per call: its context is done (deadline or client cancel)
    verdict    \* auxiliary: each call's last decision in this minute

vars == <<cache, now, pc, method, tok, ctxDone, verdict>>

\* Type invariant.
TypeOK ==
    /\ cache \in [Tokens -> Entries \cup {NoEntry}]
    /\ now \in Times
    /\ pc \in [Reqs -> {"idle", "remote", "store"}]
    /\ method \in [Reqs -> Methods]
    /\ tok \in [Reqs -> Tokens]
    /\ ctxDone \in [Reqs -> BOOLEAN]
    /\ verdict \in [Reqs -> [kind : Kinds, answeredAt : Times \cup {-1},
                             method : Methods, token : Tokens \cup {NoHeader}]]

Init ==
    /\ cache = [t \in Tokens |-> NoEntry]
    /\ now = 0
    /\ pc = [r \in Reqs |-> "idle"]
    /\ method = [r \in Reqs |-> CHOOSE m \in Methods : TRUE]
    /\ tok = [r \in Reqs |-> CHOOSE t \in Tokens : TRUE]
    /\ ctxDone = [r \in Reqs |-> FALSE]
    /\ verdict = [r \in Reqs |-> NoVerdict]

\* Records a decision; only a call handed to its handler keeps the
\* validation it rested on.
Decide(r, m, h, kind, answeredAt) ==
    verdict' = [verdict EXCEPT ![r] =
                  IF kind = "handler"
                  THEN [kind |-> kind, answeredAt |-> answeredAt, method |-> m, token |-> h]
                  ELSE [NoVerdict EXCEPT !.kind = kind]]

\* Mutant: get that keeps an entry one minute past its expiresAt.
getOneLate(e) == e # NoEntry /\ now <= e.expiresAt + 1

\* get: an entry counts while time.Now() is not after its expiresAt.
get(e) == e # NoEntry /\ now <= e.expiresAt

\* Mutant: the "Bearer " format check dropped: a header without a bearer
\* token is sent to the validator as it is.
InterceptNoFormatCheck(r, m, h) ==
    /\ pc[r] = "idle"
    /\ \/ /\ ~Enabled \/ m \in SkipMethods
          /\ Decide(r, m, h, "skip", -1)
          /\ UNCHANGED <<pc, method, tok>>
       \/ /\ Enabled /\ m \notin SkipMethods /\ h # NoHeader /\ get(cache[h])
          /\ Decide(r, m, h, IF ScopeOK(m, TokenScopes[h]) THEN "handler" ELSE "denied",
                    cache[h].answeredAt)
          /\ UNCHANGED <<pc, method, tok>>
       \/ /\ Enabled /\ m \notin SkipMethods /\ (h = NoHeader \/ ~get(cache[h]))
          /\ pc' = [pc EXCEPT ![r] = "remote"]
          /\ method' = [method EXCEPT ![r] = m]
          /\ tok' = [tok EXCEPT ![r] = h]
          /\ UNCHANGED verdict
    /\ ctxDone' = [ctxDone EXCEPT ![r] = FALSE]
    /\ UNCHANGED <<cache, now>>

(***************************************************************************)
(* The interceptor up to the cache: Enabled and SkipMethods, the metadata *)
(* and "Bearer " checks, then tokenCache.get; a hit goes to the scope     *)
(* check at once.  h is the token after "Bearer ", or NoHeader.          *)
(***************************************************************************)
Intercept(r, m, h) ==
    /\ pc[r] = "idle"
    /\ \/ /\ ~Enabled \/ m \in SkipMethods
          /\ Decide(r, m, h, "skip", -1)
          /\ UNCHANGED <<pc, method, tok>>
       \/ /\ Enabled /\ m \notin SkipMethods /\ h = NoHeader
          /\ Decide(r, m, h, "unauthenticated", -1)
          /\ UNCHANGED <<pc, method, tok>>
       \/ /\ Enabled /\ m \notin SkipMethods /\ h # NoHeader /\ get(cache[h])
          /\ Decide(r, m, h, IF ScopeOK(m, TokenScopes[h]) THEN "handler" ELSE "denied",
                    cache[h].answeredAt)
          /\ UNCHANGED <<pc, method, tok>>
       \/ /\ Enabled /\ m \notin SkipMethods /\ h # NoHeader /\ ~get(cache[h])
          /\ pc' = [pc EXCEPT ![r] = "remote"]
          /\ method' = [method EXCEPT ![r] = m]
          /\ tok' = [tok EXCEPT ![r] = h]
          /\ UNCHANGED verdict
    /\ ctxDone' = [ctxDone EXCEPT ![r] = FALSE]
    /\ UNCHANGED <<cache, now>>

\* ValidateToken answers with an error or with Valid false (both reject the
\* call as unauthenticated; the authority says Valid false at least once the
\* token's ExpiresAt has passed), or with Valid.
ValidateReturn(r) ==
    /\ pc[r] = "remote"
    /\ \/ /\ Decide(r, method[r], tok[r], "unauthenticated", -1)
          /\ pc' = [pc EXCEPT ![r] = "idle"]
       \/ /\ now <= TokenExpiry[tok[r]]
          /\ pc' = [pc EXCEPT ![r] = "store"]
          /\ UNCHANGED verdict
    /\ UNCHANGED <<cache, now, method, tok, ctxDone>>

\* ValidateToken(ctx, token) returns ctx's error once the call's context is
\* done: the call is rejected as unauthenticated.
ValidateCtxDone(r) ==
    /\ pc[r] = "remote" /\ ctxDone[r]
    /\ Decide(r, method[r], tok[r], "unauthenticated", -1)
    /\ pc' = [pc EXCEPT ![r] = "idle"]
    /\ UNCHANGED <<cache, now, method, tok, ctxDone>>

\* set: store the entry for ttl, then clean up the expired ones if the
\* table is larger than the threshold.
set(t, ttl) ==
    LET c == [cache EXCEPT ![t] = [expiresAt |-> now + ttl, answeredAt |-> now]]
    IN  IF Cardinality({k \in Tokens : c[k] # NoEntry}) > SizeThreshold
        THEN [k \in Tokens |-> IF c[k] # NoEntry /\ now > c[k].expiresAt
                               THEN NoEntry ELSE c[k]]
        ELSE c

\* A valid answer: tokenCache.set(token, validation, ttl), then the
\* method's scope check on the validated scopes.
Store(r) ==
    /\ pc[r] = "store"
    /\ cache' = set(tok[r], TTL)
    /\ Decide(r, method[r], tok[r],
              IF ScopeOK(method[r], TokenScopes[tok[r]]) THEN "handler" ELSE "denied", now)
    /\ pc' = [pc EXCEPT ![r] = "idle"]
    /\ UNCHANGED <<now, method, tok, ctxDone>>

\* ClearGRPCTokenCache.
ClearGRPCTokenCache ==
    /\ cache' = [t \in Tokens |-> NoEntry]
    /\ UNCHANGED <<now, pc, method, tok, ctxDone, verdict>>

\* Environment: a call's deadline passes, or its client cancels.
CancelCall(r) ==
    /\ pc[r] = "remote" /\ ~ctxDone[r]
    /\ ctxDone' = [ctxDone EXCEPT ![r] = TRUE]
    /\ UNCHANGED <<cache, now, pc, method, tok, verdict>>

\* A minute passes; the instructions between an answer and its store take
\* no time at this scale.
Tick ==
    /\ now < MaxTime
    /\ \A r \in Reqs : pc[r] # "store"
    /\ now' = now + 1
    /\ verdict' = [r \in Reqs |-> NoVerdict]
    /\ UNCHANGED <<cache, pc, method, tok, ctxDone>>

Next ==
    \/ \E r \in Reqs :
          \/ \E m \in Methods, h \in Tokens \cup {NoHeader} : Intercept(r, m, h)
          \/ ValidateReturn(r) \/ ValidateCtxDone(r) \/ Store(r) \/ CancelCall(r)
    \/ ClearGRPCTokenCache \/ Tick

\* No fairness: only safety is checked.  Whether a call leaves the remote
\* wait when its context is done depends on the validator client honouring
\* ctx, which is outside this code.
Spec == Init /\ [][Next]_vars

-----------------------------------------------------------------------------
(* Properties *)

(* A call reaches its handler only on the strength of a valid validation *)
(* at most CacheTTL ago, whether it was decided from the cache or from a *)
(* fresh answer (get's expiry test and set's expiresAt).                 *)
HandlerBackedByRecentValidation ==
    \A r \in Reqs :
        verdict[r].kind = "handler" => now - verdict[r].answeredAt <= TTL

(* A call reaches its handler only while its token is unexpired by the   *)
(* authority's own ExpiresAt (spec, CachedValidation: the cache TTL is   *)
(* normally no later than the authority's expiry).                      *)
HandlerTokenUnexpired ==
    \A r \in Reqs :
        verdict[r].kind = "handler" => now <= TokenExpiry[verdict[r].token]
=============================================================================
