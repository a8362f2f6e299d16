---------------------------- MODULE IPRateLimiter ----------------------------
(***************************************************************************)
(* The per-IP limiter table of src/limiter/ip_limiter.go, used by request *)
(* handlers as the OTP middleware does (src/unnamed/part_014): each       *)
(* handler calls GetLimiter(ip) and then Allow() on the bucket it got.    *)
(*                                                                         *)
(* GetLimiter takes the table's lock, and on a miss releases it before    *)
(* calling AddIP, which takes it again and stores a fresh bucket.  The    *)
(* background cleanupLoop removes entries idle for more than the TTL on   *)
(* every tick until Stop closes its channel.                              *)
(*                                                                         *)
(* Every call holding the lock is one atomic step.  The token bucket of   *)
(* golang.org/x/time/rate is abstracted to its token count: Allow takes   *)
(* one token if there is one, and every time unit adds Rate tokens up to  *)
(* the burst.  A bucket is a number; a number no entry and no handler     *)
(* refers to any more is free and may be handed out again.                *)
(***************************************************************************)
EXTENDS Integers, FiniteSets

CONSTANTS
    Procs,     \* concurrent request handlers
    IPs,       \* client addresses
    Burst,     \* b of NewIPRateLimiter
    Rate,      \* r, as tokens per time unit
    TTL,       \* ttl of NewIPRateLimiterWithTTL
    MaxTime    \* bound on the clock

ASSUME LimiterAssumption ==
    /\ Burst \in Nat \ {0}
    /\ Rate \in Nat \ {0}
    /\ TTL \in Nat \ {0}
    /\ MaxTime \in Nat
    /\ IsFiniteSet(Procs) /\ IsFiniteSet(IPs) /\ IPs # {}

\* Enough bucket numbers that one is always free.
Buckets == 1..(Cardinality(Procs) + Cardinality(IPs) + 1)

\* No limiter: the map has no entry, or a handler holds none.
NoEntry == [bucket |-> 0, lastSeen |-> -1]
NoBucket == 0

Entries == [bucket : Buckets, lastSeen : 0..MaxTime]

\* granted saturates here: BurstRespected only tells apart <= Burst and more.
GrantCap == Burst + 1

VARIABLES
    ips,        \* i.ips: an entry or NoEntry per IP
    tokens,     \* tokens left in each bucket
    now,        \* time.Now()
    stopped,    \* i.stopped
    stopClosed, \* how often close(i.stopClean) ran
    loopAlive,  \* the cleanupLoop goroutine has not returned
    pc,         \* per handler: "idle", "add" (between the two locks), "allow"
    ip,         \* per handler: the IP of its request
    held,       \* per handler: the limiter GetLimiter returned to it
    granted     \* auxiliary: requests let through per IP in the current time unit

vars == <<ips, tokens, now, stopped, stopClosed, loopAlive, pc, ip, held, granted>>

TypeOK ==
    /\ ips \in [IPs -> Entries \cup {NoEntry}]
    /\ tokens \in [Buckets -> 0..Burst]
    /\ now \in 0..MaxTime
    /\ stopped \in BOOLEAN
    /\ stopClosed \in Nat
    /\ loopAlive \in BOOLEAN
    /\ pc \in [Procs -> {"idle", "add", "allow"}]
    /\ ip \in [Procs -> IPs]
    /\ held \in [Procs -> Buckets \cup {NoBucket}]
    /\ granted \in [IPs -> 0..GrantCap]

\* NewIPRateLimiterWithTTL: an empty table and a running cleanup goroutine.
Init ==
    /\ ips = [k \in IPs |-> NoEntry]
    /\ tokens = [b \in Buckets |-> Burst]
    /\ now = 0
    /\ stopped = FALSE
    /\ stopClosed = 0
    /\ loopAlive = TRUE
    /\ pc = [p \in Procs |-> "idle"]
    /\ ip = [p \in Procs |-> CHOOSE k \in IPs : TRUE]
    /\ held = [p \in Procs |-> NoBucket]
    /\ granted = [k \in IPs |-> 0]

InUse == {ips[k].bucket : k \in IPs} \cup {held[p] : p \in Procs}

(***************************************************************************)
(* GetLimiter(ip), under the lock: a hit refreshes lastSeen and returns    *)
(* the entry's limiter; a miss unlocks and goes on to AddIP.              *)
(***************************************************************************)
GetLimiterHit(p, k) ==
    /\ pc[p] = "idle"
    /\ ips[k] # NoEntry
    /\ ips' = [ips EXCEPT ![k].lastSeen = now]
    /\ held' = [held EXCEPT ![p] = ips[k].bucket]
    /\ ip' = [ip EXCEPT ![p] = k]
    /\ pc' = [pc EXCEPT ![p] = "allow"]
    /\ UNCHANGED <<tokens, now, stopped, stopClosed, loopAlive, granted>>

GetLimiterMiss(p, k) ==
    /\ pc[p] = "idle"
    /\ ips[k] = NoEntry
    /\ ip' = [ip EXCEPT ![p] = k]
    /\ pc' = [pc EXCEPT ![p] = "add"]
    /\ UNCHANGED <<ips, tokens, now, stopped, stopClosed, loopAlive, held, granted>>

\* AddIP(ip), under the lock again: a new limiter with a full bucket
\* replaces whatever entry the IP has by now.
AddIP(p) ==
    /\ pc[p] = "add"
    /\ LET b == CHOOSE x \in Buckets : x \notin InUse
       IN  /\ ips' = [ips EXCEPT ![ip[p]] = [bucket |-> b, lastSeen |-> now]]
           /\ tokens' = [tokens EXCEPT ![b] = Burst]
           /\ held' = [held EXCEPT ![p] = b]
    /\ pc' = [pc EXCEPT ![p] = "allow"]
    /\ UNCHANGED <<now, stopped, stopClosed, loopAlive, ip, granted>>

\* Mutant: a token taken without looking at the count.
AllowUnchecked(p) ==
    /\ pc[p] = "allow"
    /\ tokens' = [tokens EXCEPT ![held[p]] = @ - 1]
    /\ granted' = [granted EXCEPT ![ip[p]] = IF @ < GrantCap THEN @ + 1 ELSE @]
    /\ held' = [held EXCEPT ![p] = NoBucket]
    /\ pc' = [pc EXCEPT ![p] = "idle"]
    /\ UNCHANGED <<ips, now, stopped, stopClosed, loopAlive, ip>>

\* limiter.Allow() in the handler: 429 when the bucket is empty.
Allow(p) ==
    /\ pc[p] = "allow"
    /\ IF tokens[held[p]] > 0
       THEN /\ tokens' = [tokens EXCEPT ![held[p]] = @ - 1]
            /\ granted' = [granted EXCEPT ![ip[p]] = IF @ < GrantCap THEN @ + 1 ELSE @]
       ELSE UNCHANGED <<tokens, granted>>
    /\ held' = [held EXCEPT ![p] = NoBucket]
    /\ pc' = [pc EXCEPT ![p] = "idle"]
    /\ UNCHANGED <<ips, now, stopped, stopClosed, loopAlive, ip>>

(***************************************************************************)
(* cleanupLoop: on a tick, cleanup() removes the entries whose lastSeen   *)
(* is before now - ttl; once stopClean is closed the select may still     *)
(* pick a ready tick, or return.                                          *)
(***************************************************************************)
\* Mutant: the cutoff test written !lastSeen.After(cutoff).
CleanupInclusive ==
    /\ loopAlive
    /\ ips' = [k \in IPs |-> IF ips[k] # NoEntry /\ ips[k].lastSeen <= now - TTL
                             THEN NoEntry ELSE ips[k]]
    /\ UNCHANGED <<tokens, now, stopped, stopClosed, loopAlive, pc, ip, held, granted>>

Cleanup ==
    /\ loopAlive
    /\ ips' = [k \in IPs |-> IF ips[k] # NoEntry /\ ips[k].lastSeen < now - TTL
                             THEN NoEntry ELSE ips[k]]
    /\ UNCHANGED <<tokens, now, stopped, stopClosed, loopAlive, pc, ip, held, granted>>

LoopExit ==
    /\ loopAlive /\ stopClosed > 0
    /\ loopAlive' = FALSE
    /\ UNCHANGED <<ips, tokens, now, stopped, stopClosed, pc, ip, held, granted>>

\* Mutant: no stopped flag, every Stop closes the channel.
StopUnguarded ==
    /\ stopClosed' = stopClosed + 1
    /\ stopped' = TRUE
    /\ UNCHANGED <<ips, tokens, now, loopAlive, pc, ip, held, granted>>

\* Mutant: the flag is set but the channel is never closed.
StopWithoutClose ==
    /\ ~stopped
    /\ stopped' = TRUE
    /\ UNCHANGED <<ips, tokens, now, stopClosed, loopAlive, pc, ip, held, granted>>

\* Stop: closes stopClean only the first time.
Stop ==
    /\ ~stopped
    /\ stopClosed' = stopClosed + 1
    /\ stopped' = TRUE
    /\ UNCHANGED <<ips, tokens, now, loopAlive, pc, ip, held, granted>>

Clear ==
    /\ ips' = [k \in IPs |-> NoEntry]
    /\ UNCHANGED <<tokens, now, stopped, stopClosed, loopAlive, pc, ip, held, granted>>

\* Time passes: every bucket refills by Rate, up to Burst.
Tick ==
    /\ now < MaxTime
    /\ now' = now + 1
    /\ tokens' = [b \in Buckets |-> IF tokens[b] + Rate > Burst THEN Burst ELSE tokens[b] + Rate]
    /\ granted' = [k \in IPs |-> 0]
    /\ UNCHANGED <<ips, stopped, stopClosed, loopAlive, pc, ip, held>>

Handler(p) ==
    \/ \E k \in IPs : GetLimiterHit(p, k) \/ GetLimiterMiss(p, k)
    \/ AddIP(p)
    \/ Allow(p)

Next ==
    \/ \E p \in Procs : Handler(p)
    \/ Cleanup \/ LoopExit \/ Stop \/ Clear \/ Tick

\* The handlers and the cleanup goroutine are scheduled by the Go runtime.
Spec == Init /\ [][Next]_vars
          /\ \A p \in Procs : WF_vars(AddIP(p) \/ Allow(p))
          /\ WF_vars(LoopExit)

-----------------------------------------------------------------------------
(* Properties *)

(* One client gets at most Burst requests through in one time unit: all  *)
(* handlers serving an IP draw from the same bucket, even when they look *)
(* it up for the first time together (spec, sections 3 and 8, "single    *)
(* bucket per key").                                                     *)
BurstRespected == \A k \in IPs : granted[k] <= Burst

(* After Stop, the cleanup goroutine eventually returns: the periodic    *)
(* task does not outlive the limiter (cleanupLoop's stopClean case).     *)
StopEndsCleanupLoop == stopped ~> ~loopAlive

=============================================================================
