--------------------------- MODULE MemoryCacheImpl ---------------------------
(***************************************************************************)
(* The in-memory cache implements the promise of ExpiringMap.  The        *)
(* refinement mapping shows a key's item only while Get would return it:  *)
(* an item still in c.items after its deadline passed is no entry.  The   *)
(* last operation becomes a read (Get, with its key and result), a write  *)
(* (Set, Delete, Increment, SetNX, GetSet, DeleteMany, Clear) or an       *)
(* observation (Exists, TTL, Keys and the janitor's sweep).  The janitor  *)
(* goroutine, stopChan and the Set record are hidden: JanitorExit and     *)
(* Close are stuttering steps.                                            *)
(***************************************************************************)
EXTENDS MemoryCache

\* The item of k as a caller can see it.
Visible(k) == IF items[k] = NoItem \/ ExpiredAfter(items[k]) THEN NoItem ELSE items[k]

WriteOps == {"set", "delete", "incr", "setnx", "getset", "deletemany", "clear"}
ObserveOps == {"exists", "ttl", "keys", "sweep"}

\* The last operation as a call of the map.
CallOf(l) ==
    [kind   |-> CASE l.op = "get"          -> "read"
                  [] l.op \in WriteOps    -> "write"
                  [] l.op \in ObserveOps  -> "observe"
                  [] OTHER                -> "idle",
     key    |-> IF l.op = "get" THEN l.key ELSE Absent,
     result |-> IF l.op = "get" THEN l.result ELSE Absent]

Map == INSTANCE ExpiringMap WITH
           Values <- Vals,
           entries <- [k \in Keys |-> Visible(k)],
           clock <- now,
           call <- CallOf(last)

(* The cache behaves as a map whose entries vanish exactly when the clock *)
(* passes their deadline: Get returns the live entry and changes nothing, *)
(* Exists, TTL, Keys and the janitor's removeExpired change nothing a     *)
(* caller can see, a write changes only the key it names (DeleteMany and  *)
(* Clear only drop entries), and a tick of the clock removes exactly the  *)
(* entries whose deadline it passes.                                      *)
ExpiringMapSpec == Map!Spec
=============================================================================
