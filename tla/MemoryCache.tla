----------------------------- MODULE MemoryCache -----------------------------
(***************************************************************************)
(* The in-memory cache of src/cache/memory.go: a map from full keys to    *)
(* items (value, expiresAt) under one RWMutex, a cleanup goroutine that   *)
(* sweeps expired items on every ticker tick until stopChan is closed,    *)
(* and the operations of the Cache interface.                             *)
(*                                                                         *)
(* Every operation holds the lock for its whole body, so each is one      *)
(* atomic step; callers are not told apart.  Values are small integers    *)
(* (the JSON of an int64) or Text, a value that is not a number.  The     *)
(* zero time.Time of an item without expiry is Never.  The auxiliary      *)
(* variable last records the last operation: its key, what Get would     *)
(* have returned just before it, what the operation itself read, and its  *)
(* result.                                                                *)
(***************************************************************************)
EXTENDS Integers, FiniteSets

CONSTANTS
    Keys,        \* full keys (buildKey applied)
    MaxVal,      \* bound on counter values
    DefaultTTL,  \* Options.DefaultTTL
    TTLs,        \* ttl arguments callers pass: negative, zero, positive
    Matches,     \* for each Keys pattern, the keys it matches
    MaxTime,     \* bound on the clock
    Text,        \* a stored value that is not the JSON of a number
    Never,       \* the zero time.Time: no expiry
    Absent       \* no item, or the error of a read that finds none
Nums == 0..MaxVal
Vals == Nums \cup {Text}
NoItem == [value |-> Absent, expiresAt |-> Never]
Times == 0..MaxTime

ASSUME CacheAssumption ==
    /\ MaxVal \in Nat \ {0}
    /\ DefaultTTL \in Nat \ {0}
    /\ TTLs \subseteq Int
    /\ MaxTime \in Nat
    /\ Matches \in [DOMAIN Matches -> SUBSET Keys]
    /\ Absent \notin Nums \cup {Text}
    /\ Never \notin Nat

\* The deadlines an item can carry: none, or now + ttl for a positive ttl.
Deadlines == {Never} \cup Nat
Items == [value : Vals, expiresAt : Deadlines]
Ops == {"none", "get", "set", "delete", "exists", "incr", "setnx", "getset",
        "keys", "deletemany", "clear", "ttl", "sweep"}

VARIABLES
    items,        \* c.items: an item or NoItem per key
    now,          \* time.Now()
    stopClosed,   \* close(c.stopChan) has run
    panicked,     \* a second close(c.stopChan) panicked and ended the process
    janitorAlive, \* the cleanup goroutine has not returned
    last,         \* auxiliary: the last operation at this instant, see above
    stored        \* auxiliary: per key, the value and deadline of its last Set

vars == <<items, now, stopClosed, panicked, janitorAlive, last, stored>>

NoSet == [value |-> Absent, deadline |-> Never]

NoOp == [op |-> "none", key |-> Absent, before |-> Absent, seen |-> Absent,
         result |-> Absent]

\* The results each operation can return.
Results(op) ==
    CASE op \in {"exists", "setnx"} -> BOOLEAN
      [] op = "keys"                -> SUBSET Keys
      [] op = "ttl"                 -> {Absent, -1} \cup Nat
      [] OTHER                      -> Vals \cup {Absent}

\* Type invariant.  Every deadline an item or a Set carries is none or a
\* point reached from the clock by a caller's ttl: Set turns a negative ttl
\* into "no expiry", never into a deadline before time 0.
TypeOK ==
    /\ items \in [Keys -> Items \cup {NoItem}]
    /\ now \in Times
    /\ stopClosed \in BOOLEAN
    /\ panicked \in BOOLEAN
    /\ janitorAlive \in BOOLEAN
    /\ DOMAIN last = {"op", "key", "before", "seen", "result"}
    /\ last.op \in Ops
    /\ last.key \in Keys \cup {Absent} \cup DOMAIN Matches
    /\ {last.before, last.seen} \subseteq Vals \cup {Absent}
    /\ last.result \in Results(last.op)
    /\ stored \in [Keys -> [value : Vals \cup {Absent}, deadline : Deadlines]]

\* NewMemoryCache: an empty map and a running cleanup goroutine.
Init ==
    /\ items = [k \in Keys |-> NoItem]
    /\ now = 0
    /\ stopClosed = FALSE
    /\ panicked = FALSE
    /\ janitorAlive = TRUE
    /\ last = NoOp
    /\ stored = [k \in Keys |-> NoSet]

(***************************************************************************)
(* The two expiry tests of the file.  Get, Exists and removeExpired call  *)
(* an item expired when time.Now().After(expiresAt); Increment, SetNX and *)
(* GetSet call it live when time.Now().Before(expiresAt).                 *)
(***************************************************************************)
ExpiredAfter(it) == it.expiresAt # Never /\ now > it.expiresAt
LiveBefore(it) == it.expiresAt = Never \/ now < it.expiresAt

\* What Get(k) returns: the value, or an error (Absent).
View(k) == IF items[k] # NoItem /\ ~ExpiredAfter(items[k]) THEN items[k].value ELSE Absent

\* Mutant: the ttl > 0 test dropped.
ExpiryNoSign(ttl) ==
    LET t == IF ttl = 0 THEN DefaultTTL ELSE ttl
    IN  now + t

\* Set's expiry: ttl 0 means DefaultTTL, a negative ttl means none.
Expiry(ttl) ==
    LET t == IF ttl = 0 THEN DefaultTTL ELSE ttl
    IN  IF t > 0 THEN now + t ELSE Never

\* The serializer: Unmarshal of a number, or 0 with its error ignored.
Unmarshal(v) == IF v \in Nums THEN v ELSE 0

Record(op, k, seen, result) ==
    last' = [op |-> op, key |-> k, before |-> View(k), seen |-> seen, result |-> result]

\* Mutant: Get without the expiry test.
GetNoExpiry(k) ==
    /\ Record("get", k, items[k].value, items[k].value)
    /\ UNCHANGED <<items, now, stopClosed, panicked, janitorAlive, stored>>

Get(k) ==
    /\ Record("get", k, items[k].value, View(k))
    /\ UNCHANGED <<items, now, stopClosed, panicked, janitorAlive, stored>>

Exists(k) ==
    /\ Record("exists", k, items[k].value, View(k) # Absent)
    /\ UNCHANGED <<items, now, stopClosed, panicked, janitorAlive, stored>>

Set(k, v, ttl) ==
    /\ items' = [items EXCEPT ![k] = [value |-> v, expiresAt |-> Expiry(ttl)]]
    /\ Record("set", k, Absent, v)
    /\ stored' = [stored EXCEPT ![k] = [value |-> v, deadline |-> Expiry(ttl)]]
    /\ UNCHANGED <<now, stopClosed, panicked, janitorAlive>>

Delete(k) ==
    /\ items' = [items EXCEPT ![k] = NoItem]
    /\ Record("delete", k, Absent, Absent)
    /\ stored' = [stored EXCEPT ![k] = NoSet]
    /\ UNCHANGED <<now, stopClosed, panicked, janitorAlive>>

\* Increment: the old value counts while it is live (Before); the new item
\* keeps the old one's expiresAt whenever the key existed with one.
Increment(k, delta) ==
    LET it    == items[k]
        base  == IF it # NoItem /\ LiveBefore(it) THEN Unmarshal(it.value) ELSE 0
        value == base + delta
    IN  /\ value \in Nums
        /\ items' = [items EXCEPT ![k] =
                       [value |-> value,
                        expiresAt |-> IF it # NoItem THEN it.expiresAt ELSE Never]]
        /\ Record("incr", k, IF it # NoItem /\ LiveBefore(it) THEN it.value ELSE Absent, value)
        /\ stored' = [stored EXCEPT ![k] = NoSet]
        /\ UNCHANGED <<now, stopClosed, panicked, janitorAlive>>

\* SetNX: refused while the key holds a live item (Before).
SetNX(k, v, ttl) ==
    LET it == items[k]
        held == it # NoItem /\ LiveBefore(it)
    IN  /\ IF held
           THEN UNCHANGED items
           ELSE items' = [items EXCEPT ![k] =
                            [value |-> v, expiresAt |-> IF ttl > 0 THEN now + ttl ELSE Never]]
        /\ Record("setnx", k, IF held THEN it.value ELSE Absent, ~held)
        /\ stored' = IF held THEN stored ELSE [stored EXCEPT ![k] = NoSet]
        /\ UNCHANGED <<now, stopClosed, panicked, janitorAlive>>

\* GetSet: returns the old value if live (Before); the new item has no expiry.
GetSet(k, v) ==
    LET it == items[k]
        old == IF it # NoItem /\ LiveBefore(it) THEN it.value ELSE Absent
    IN  /\ items' = [items EXCEPT ![k] = [value |-> v, expiresAt |-> Never]]
        /\ Record("getset", k, old, old)
        /\ stored' = [stored EXCEPT ![k] = NoSet]
        /\ UNCHANGED <<now, stopClosed, panicked, janitorAlive>>

\* TTL: -1 without expiry, the time left, or ErrKeyExpired once it is negative.
TTLOp(k) ==
    LET it == items[k]
        left == IF it = NoItem \/ it.expiresAt = Never THEN 0 ELSE it.expiresAt - now
    IN  /\ Record("ttl", k, it.value,
                  CASE it = NoItem         -> Absent
                    [] it.expiresAt = Never -> -1
                    [] left < 0            -> Absent
                    [] OTHER               -> left)
        /\ UNCHANGED <<items, now, stopClosed, panicked, janitorAlive, stored>>

\* Keys: every key of the map, whatever the pattern.
KeysOp(p) ==
    /\ last' = [op |-> "keys", key |-> p, before |-> Absent, seen |-> Absent,
                result |-> {k \in Keys : items[k] # NoItem}]
    /\ UNCHANGED <<items, now, stopClosed, panicked, janitorAlive, stored>>

DeleteMany(ks) ==
    /\ items' = [k \in Keys |-> IF k \in ks THEN NoItem ELSE items[k]]
    /\ last' = [NoOp EXCEPT !.op = "deletemany"]
    /\ stored' = [k \in Keys |-> IF k \in ks THEN NoSet ELSE stored[k]]
    /\ UNCHANGED <<now, stopClosed, panicked, janitorAlive>>

Clear ==
    /\ items' = [k \in Keys |-> NoItem]
    /\ last' = [NoOp EXCEPT !.op = "clear"]
    /\ stored' = [k \in Keys |-> NoSet]
    /\ UNCHANGED <<now, stopClosed, panicked, janitorAlive>>

\* Mutant: the sweep written with !Before, the RMW operations' test.
RemoveExpiredBefore ==
    /\ janitorAlive
    /\ items' = [k \in Keys |-> IF items[k] # NoItem /\ ~LiveBefore(items[k])
                                THEN NoItem ELSE items[k]]
    /\ last' = [NoOp EXCEPT !.op = "sweep"]
    /\ UNCHANGED <<now, stopClosed, panicked, janitorAlive, stored>>

\* A ticker tick in cleanup(): removeExpired.
RemoveExpired ==
    /\ janitorAlive
    /\ items' = [k \in Keys |-> IF items[k] # NoItem /\ ExpiredAfter(items[k])
                                THEN NoItem ELSE items[k]]
    /\ last' = [NoOp EXCEPT !.op = "sweep"]
    /\ UNCHANGED <<now, stopClosed, panicked, janitorAlive, stored>>

\* Mutant: the loop without its stopChan case (for range ticker.C).
JanitorExitNoStopCase ==
    /\ janitorAlive /\ stopClosed
    /\ UNCHANGED vars

\* The stopChan case of cleanup(): the goroutine returns.
JanitorExit ==
    /\ janitorAlive /\ stopClosed
    /\ janitorAlive' = FALSE
    /\ UNCHANGED <<items, now, stopClosed, panicked, last, stored>>

\* Close: close(c.stopChan), unguarded; closing it again panics.
Close ==
    /\ IF stopClosed
       THEN /\ panicked' = TRUE
            /\ janitorAlive' = FALSE
            /\ UNCHANGED stopClosed
       ELSE /\ stopClosed' = TRUE
            /\ UNCHANGED <<panicked, janitorAlive>>
    /\ UNCHANGED <<items, now, last, stored>>

Tick ==
    /\ now < MaxTime
    /\ now' = now + 1
    /\ last' = NoOp
    /\ UNCHANGED <<items, stopClosed, panicked, janitorAlive, stored>>

\* A panic ends the process: nothing happens after it.
Next ==
    /\ ~panicked
    /\ \/ \E k \in Keys :
             \/ Get(k) \/ Exists(k) \/ TTLOp(k) \/ Delete(k)
             \/ \E v \in Vals, ttl \in TTLs : Set(k, v, ttl) \/ SetNX(k, v, ttl)
             \/ \E v \in Vals : GetSet(k, v)
             \/ \E d \in {1, -1} : Increment(k, d)
       \/ \E p \in DOMAIN Matches : KeysOp(p)
       \/ \E ks \in SUBSET Keys : DeleteMany(ks)
       \/ Clear \/ RemoveExpired \/ JanitorExit \/ Close \/ Tick

\* The cleanup goroutine is scheduled, and takes a ready stopChan case.
Spec == Init /\ [][Next]_vars /\ WF_vars(~panicked /\ JanitorExit)

(***************************************************************************)
(* Properties.                                                            *)
(***************************************************************************)

\* The expiry contract of Set and Get (the spec's TTL test): after
\* Set(k, v, ttl), and no later write of k, Get(k) returns v up to the
\* deadline and an error after it, whether or not the janitor has swept.
GetHonoursTTL ==
    LET s == stored[last.key]
    IN  (last.op = "get" /\ s # NoSet) =>
            last.result = IF s.deadline = Never \/ now <= s.deadline
                          THEN s.value ELSE Absent

\* Once Close has closed stopChan, the cleanup goroutine returns.
CloseStopsJanitor == stopClosed ~> ~janitorAlive

\* The read-modify-write operations (Increment, SetNX, GetSet) see a key
\* exactly as Get does at the same instant.
RMWAgreesWithGet ==
    last.op \in {"incr", "setnx", "getset"} => last.seen = last.before

\* The counter Increment returns is what Get returns for the key after it.
IncrementResultVisible ==
    last.op = "incr" => View(last.key) = last.result

\* Keys(pattern) returns only live keys that match the pattern.
KeysReturnsLiveMatches ==
    last.op = "keys" =>
        last.result \subseteq {k \in Matches[last.key] : View(k) # Absent}

\* Close may be called more than once (a stop signal is idempotent): the
\* process never panics on close(stopChan).
CloseIdempotent == ~panicked

=============================================================================
