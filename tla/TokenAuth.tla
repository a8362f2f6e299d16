------------------------------ MODULE TokenAuth ------------------------------
(***************************************************************************)
(* The remote service-token check of src/http/middleware/                 *)
(* service_auth_remote.go: RemoteServiceAuthMiddleware and the process-   *)
(* wide TokenValidationCache (remoteTokenCache) it shares with every      *)
(* other instance of the middleware.                                       *)
(*                                                                         *)
(* A request handled by middleware m reads the Authorization header,      *)
(* looks the token up in the cache under the read lock, and on a miss     *)
(* calls the remote validator (a blocking call), then, the answer being   *)
(* valid, stores it under the write lock with m's TTL and checks m's      *)
(* required scope.  Administrators may invalidate one token or clear the  *)
(* cache; the authority may revoke a token; time passes.                  *)
(*                                                                         *)
(* Time is counted in minutes.  A scope string is the sequence of its     *)
(* ":"-separated parts (strings.Split), "" being NoScope.                 *)
(***************************************************************************)
EXTENDS Integers, Sequences, FiniteSets

CONSTANTS
    Reqs,            \* concurrent requests
    Tokens,          \* bearer tokens
    Mws,             \* configured middleware instances
    CacheTTLOf,      \* cfg.CacheTTL of each instance, 0 for "not set"
    RequiredOf,      \* cfg.RequiredScope of each instance
    AuthEnabled,     \* cfg.Enabled
    TokenScopes,     \* the scopes the authority grants each token
    SizeThreshold,   \* the 1000 of set's sweep trigger
    MaxTime          \* bound on the clock

\* The header of a request without a usable bearer token.
NoHeader == "none"
NoScope == << >>

ASSUME AuthAssumption ==
    /\ Mws # {} /\ Tokens # {}
    /\ CacheTTLOf \in [Mws -> Nat]
    /\ AuthEnabled \in BOOLEAN
    /\ SizeThreshold \in Nat
    /\ MaxTime \in Nat
    /\ NoHeader \notin Tokens

\* ttl := cfg.CacheTTL, or 5 minutes when it is 0.
TTL(m) == IF CacheTTLOf[m] = 0 THEN 5 ELSE CacheTTLOf[m]

\* hasScopeInList: "*", the exact scope, or "resource:*" when required
\* splits into exactly two parts.
hasScopeInList(scopes, required) ==
    \E scope \in scopes :
        \/ scope = <<"*">>
        \/ scope = required
        \/ Len(required) = 2 /\ scope = <<required[1], "*">>

\* The middleware's scope test: no required scope, or one the list holds.
ScopeOK(m, scopes) == RequiredOf[m] = NoScope \/ hasScopeInList(scopes, RequiredOf[m])

NoEntry == [valid |-> FALSE, expiresAt |-> -1, answeredAt |-> -1]
Times == 0..MaxTime
Entries == [valid : BOOLEAN, expiresAt : Nat, answeredAt : Times]
Kinds == {"none", "skip", "next", "unauthenticated", "forbidden"}
NoVerdict == [kind |-> "none", answeredAt |-> -1, valid |-> FALSE,
              mw |-> CHOOSE m \in Mws : TRUE, token |-> NoHeader]

VARIABLES
    cache,     \* remoteTokenCache.cache: an entry or NoEntry per token
    authority, \* whether the auth service holds each token valid (issued valid)
    now,       \* time.Now()
    pc,        \* per request: "idle", "remote" (in ValidateToken), "store"
    route,     \* per request past the cache: the middleware instance handling it
    tok,       \* per request past the cache: the token it carries
    answer,    \* per request: validation.Valid of the validator's answer
    deadline,  \* per request: its own context is done
    verdict    \* auxiliary: each request's last decision in this minute

vars == <<cache, authority, now, pc, route, tok, answer, deadline, verdict>>

TypeOK ==
    /\ cache \in [Tokens -> Entries \cup {NoEntry}]
    /\ authority \in [Tokens -> BOOLEAN]
    /\ now \in Times
    /\ pc \in [Reqs -> {"idle", "remote", "store"}]
    /\ route \in [Reqs -> Mws]
    /\ tok \in [Reqs -> Tokens]
    /\ answer \in [Reqs -> BOOLEAN]
    /\ deadline \in [Reqs -> BOOLEAN]
    /\ verdict \in [Reqs -> [kind : Kinds, answeredAt : Times \cup {-1},
                             valid : BOOLEAN, mw : Mws, token : Tokens \cup {NoHeader}]]

Init ==
    /\ cache = [t \in Tokens |-> NoEntry]
    /\ authority = [t \in Tokens |-> TRUE]
    /\ now = 0
    /\ pc = [r \in Reqs |-> "idle"]
    /\ route = [r \in Reqs |-> CHOOSE m \in Mws : TRUE]
    /\ tok = [r \in Reqs |-> CHOOSE t \in Tokens : TRUE]
    /\ answer = [r \in Reqs |-> FALSE]
    /\ deadline = [r \in Reqs |-> FALSE]
    /\ verdict = [r \in Reqs |-> NoVerdict]

\* Records a decision; only an admission keeps what it rested on.
Decide(r, m, h, kind, e) ==
    verdict' = [verdict EXCEPT ![r] =
                  IF kind = "next"
                  THEN [kind |-> kind, answeredAt |-> e.answeredAt, valid |-> e.valid,
                        mw |-> m, token |-> h]
                  ELSE [NoVerdict EXCEPT !.kind = kind]]

\* Mutant: get without the expiry test.
LiveNoExpiry(e) == e # NoEntry

\* get: an entry counts only while time.Now() is not after its expiresAt.
Live(e) == e # NoEntry /\ now <= e.expiresAt

\* Mutant: the header test written with && (a header that is not a bearer
\* token goes on to the validator).
ReceiveHeaderCheckAnd(r, m, h, skip) ==
    /\ pc[r] = "idle"
    /\ \/ /\ ~AuthEnabled \/ skip
          /\ Decide(r, m, h, "skip", NoEntry)
          /\ UNCHANGED <<pc, route, tok>>
       \/ /\ AuthEnabled /\ ~skip /\ h # NoHeader /\ Live(cache[h])
          /\ Decide(r, m, h, IF ScopeOK(m, TokenScopes[h]) THEN "next" ELSE "forbidden", cache[h])
          /\ UNCHANGED <<pc, route, tok>>
       \/ /\ AuthEnabled /\ ~skip /\ (h = NoHeader \/ ~Live(cache[h]))
          /\ pc' = [pc EXCEPT ![r] = "remote"]
          /\ route' = [route EXCEPT ![r] = m]
          /\ tok' = [tok EXCEPT ![r] = h]
          /\ UNCHANGED verdict
    /\ UNCHANGED <<cache, authority, now, answer, deadline>>

(***************************************************************************)
(* The handler up to the cache lookup: Enabled and SkipPaths, the header  *)
(* check, then remoteTokenCache.get; a hit is decided on the spot.        *)
(* h is the header: a token after "Bearer ", or NoHeader.                 *)
(***************************************************************************)
Receive(r, m, h, skip) ==
    /\ pc[r] = "idle"
    /\ \/ /\ ~AuthEnabled \/ skip
          /\ Decide(r, m, h, "skip", NoEntry)
          /\ UNCHANGED <<pc, route, tok>>
       \/ /\ AuthEnabled /\ ~skip /\ h = NoHeader
          /\ Decide(r, m, h, "unauthenticated", NoEntry)
          /\ UNCHANGED <<pc, route, tok>>
       \/ /\ AuthEnabled /\ ~skip /\ h # NoHeader /\ Live(cache[h])
          /\ Decide(r, m, h, IF ScopeOK(m, TokenScopes[h]) THEN "next" ELSE "forbidden", cache[h])
          /\ UNCHANGED <<pc, route, tok>>
       \/ /\ AuthEnabled /\ ~skip /\ h # NoHeader /\ ~Live(cache[h])
          /\ pc' = [pc EXCEPT ![r] = "remote"]
          /\ route' = [route EXCEPT ![r] = m]
          /\ tok' = [tok EXCEPT ![r] = h]
          /\ UNCHANGED verdict
    /\ UNCHANGED <<cache, authority, now, answer, deadline>>

\* ValidateToken(context.Background(), token) returns: an error (the
\* service unreachable) or the authority's current verdict on the token.
ValidateReturn(r) ==
    /\ pc[r] = "remote"
    /\ \/ /\ Decide(r, route[r], tok[r], "unauthenticated", NoEntry)
          /\ pc' = [pc EXCEPT ![r] = "idle"]
          /\ UNCHANGED answer
       \/ /\ ~authority[tok[r]]
          /\ Decide(r, route[r], tok[r], "unauthenticated", NoEntry)
          /\ pc' = [pc EXCEPT ![r] = "idle"]
          /\ UNCHANGED answer
       \/ /\ authority[tok[r]]
          /\ answer' = [answer EXCEPT ![r] = TRUE]
          /\ pc' = [pc EXCEPT ![r] = "store"]
          /\ UNCHANGED verdict
    /\ deadline' = [deadline EXCEPT ![r] = FALSE]
    /\ UNCHANGED <<cache, authority, now, route, tok>>

\* Mutant: the size test made before the insert.
setSweepBeforeInsert(t, valid, ttl) ==
    LET c == [cache EXCEPT ![t] = [valid |-> valid, expiresAt |-> now + ttl,
                                   answeredAt |-> now]]
    IN  IF Cardinality({k \in Tokens : cache[k] # NoEntry}) > SizeThreshold
        THEN [k \in Tokens |-> IF c[k] # NoEntry /\ now > c[k].expiresAt
                               THEN NoEntry ELSE c[k]]
        ELSE c

\* set: store the entry, then sweep the expired ones if the table is
\* larger than the threshold.
set(t, valid, ttl) ==
    LET c == [cache EXCEPT ![t] = [valid |-> valid, expiresAt |-> now + ttl,
                                   answeredAt |-> now]]
    IN  IF Cardinality({k \in Tokens : c[k] # NoEntry}) > SizeThreshold
        THEN [k \in Tokens |-> IF c[k] # NoEntry /\ now > c[k].expiresAt
                               THEN NoEntry ELSE c[k]]
        ELSE c

\* A valid answer: remoteTokenCache.set with the instance's TTL, then the
\* scope check on the validator's scopes.
Store(r) ==
    /\ pc[r] = "store"
    /\ cache' = set(tok[r], answer[r], TTL(route[r]))
    /\ Decide(r, route[r], tok[r], IF ScopeOK(route[r], TokenScopes[tok[r]]) THEN "next" ELSE "forbidden",
              [valid |-> answer[r], answeredAt |-> now])
    /\ pc' = [pc EXCEPT ![r] = "idle"]
    /\ answer' = [answer EXCEPT ![r] = FALSE]
    /\ UNCHANGED <<authority, now, route, tok, deadline>>

\* InvalidateToken and ClearTokenCache.
InvalidateToken(t) ==
    /\ cache' = [cache EXCEPT ![t] = NoEntry]
    /\ UNCHANGED <<authority, now, pc, route, tok, answer, deadline, verdict>>

ClearTokenCache ==
    /\ cache' = [t \in Tokens |-> NoEntry]
    /\ UNCHANGED <<authority, now, pc, route, tok, answer, deadline, verdict>>

\* Environment: the authority revokes a token; a request's own deadline
\* passes while it waits for the validator.
Revoke(t) ==
    /\ authority[t]
    /\ authority' = [authority EXCEPT ![t] = FALSE]
    /\ UNCHANGED <<cache, now, pc, route, tok, answer, deadline, verdict>>

Expire(r) ==
    /\ pc[r] = "remote" /\ ~deadline[r]
    /\ deadline' = [deadline EXCEPT ![r] = TRUE]
    /\ UNCHANGED <<cache, authority, now, pc, route, tok, answer, verdict>>

\* A minute passes.  The few instructions between the validator's answer
\* and the store take no time at this scale.
Tick ==
    /\ now < MaxTime
    /\ \A r \in Reqs : pc[r] # "store"
    /\ now' = now + 1
    /\ verdict' = [r \in Reqs |-> NoVerdict]
    /\ UNCHANGED <<cache, authority, pc, route, tok, answer, deadline>>

Next ==
    \/ \E r \in Reqs :
          \/ \E m \in Mws, h \in Tokens \cup {NoHeader}, skip \in BOOLEAN : Receive(r, m, h, skip)
          \/ ValidateReturn(r) \/ Store(r) \/ Expire(r)
    \/ \E t \in Tokens : InvalidateToken(t) \/ Revoke(t)
    \/ ClearTokenCache \/ Tick

\* The handler goroutine runs to completion once the validator answered;
\* the validator itself may never answer.
Spec == Init /\ [][Next]_vars /\ \A r \in Reqs : WF_vars(Store(r))

-----------------------------------------------------------------------------
(* Properties *)

(* A request is let through only on the strength of a validation in     *)
(* which the authority called its token valid, at most the handling     *)
(* middleware's own CacheTTL ago: a cache hit never outlives the entry's *)
(* TTL and never comes from an invalid answer (get's expiry test, the    *)
(* Valid check before set, and set's expiresAt).                         *)
AdmissionBackedByRecentValidation ==
    \A r \in Reqs :
        verdict[r].kind = "next" =>
            /\ verdict[r].valid
            /\ now - verdict[r].answeredAt <= TTL(verdict[r].mw)

(* The cache bounds itself: a store that leaves more entries than the    *)
(* threshold leaves no expired one (set's inline cleanup).               *)
SetSelfBounds ==
    [][\A r \in Reqs :
         (pc[r] = "store" /\ pc'[r] = "idle"
          /\ Cardinality({t \in Tokens : cache'[t] # NoEntry}) > SizeThreshold)
            => \A t \in Tokens : cache'[t] # NoEntry => now <= cache'[t].expiresAt]_vars

(* A request whose deadline passes while the remote validation is in     *)
(* flight does not keep waiting for it (spec, section 6: every remote-   *)
(* validation call honours an external deadline; ValidateToken's ctx).   *)
ValidationHonoursDeadline ==
    \A r \in Reqs : (pc[r] = "remote" /\ deadline[r]) ~> (pc[r] # "remote")

=============================================================================
