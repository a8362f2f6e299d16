-------------------------- MODULE MemoryCacheProofs --------------------------
(***************************************************************************)
(* Proofs about the in-memory cache of src/cache/memory.go, for every set *)
(* of keys, every ttl argument, DefaultTTL and clock bound.               *)
(*                                                                         *)
(* GetHonoursTTL is not inductive: it speaks of the last Get only.  What  *)
(* makes it true is that the map never drifts from the last Set of a key  *)
(* while no other write touches it: the item is exactly the value and     *)
(* deadline that Set wrote, or it is gone and that deadline has passed    *)
(* (only removeExpired deletes without a write, and only expired items).  *)
(***************************************************************************)
EXTENDS MemoryCacheImpl, TLAPS

\* The item of a key whose last write was Set is what that Set stored, or
\* it was swept after its deadline.
StoredMatches(k) ==
    stored[k] # NoSet =>
        /\ stored[k].value \in Vals
        /\ \/ items[k] = [value |-> stored[k].value, expiresAt |-> stored[k].deadline]
           \/ /\ items[k] = NoItem
              /\ stored[k].deadline # Never
              /\ now > stored[k].deadline

\* The last operation, if a Get, returned what Get returns now.
LastGet == last.op = "get" => last.key \in Keys /\ last.result = View(last.key)

IInv == TypeOK /\ (\A k \in Keys : StoredMatches(k)) /\ LastGet

\* The part of TypeOK about the auxiliary record of the last operation.
LastOK ==
    /\ DOMAIN last = {"op", "key", "before", "seen", "result"}
    /\ last.op \in Ops
    /\ last.key \in Keys \cup {Absent} \cup DOMAIN Matches
    /\ {last.before, last.seen} \subseteq Vals \cup {Absent}
    /\ last.result \in Results(last.op)

LEMMA NatFacts == now \in Times => now \in Nat
BY CacheAssumption DEF Times

\* What an item of a well-typed map holds, NoItem included.
LEMMA ItemFacts ==
    ASSUME TypeOK, NEW k \in Keys
    PROVE  /\ items[k].value \in Vals \cup {Absent}
           /\ items[k].expiresAt \in Deadlines
           /\ items[k] # NoItem => items[k].value \in Vals /\ items[k] \in Items
           /\ View(k) \in Vals \cup {Absent}
<1>1. items[k] \in Items \cup {NoItem}
  BY DEF TypeOK
<1>2. CASE items[k] = NoItem
  <2>1. items[k].value = Absent /\ items[k].expiresAt = Never /\ View(k) = Absent
    BY <1>2 DEF NoItem, View
  <2>. QED
    BY <1>2, <2>1 DEF Deadlines
<1>3. CASE items[k] # NoItem
  <2>1. items[k] \in Items
    BY <1>1, <1>3
  <2>2. items[k].value \in Vals /\ items[k].expiresAt \in Deadlines
    BY <2>1 DEF Items
  <2>. QED
    BY <1>3, <2>1, <2>2 DEF View
<1>. QED
  BY <1>2, <1>3

\* Set's deadline is none or a point of the clock's future.
LEMMA ExpiryType ==
    ASSUME NEW t \in Nat, NEW ttl \in Int
    PROVE  /\ (IF ttl = 0 THEN DefaultTTL ELSE ttl) > 0 => t + (IF ttl = 0 THEN DefaultTTL ELSE ttl) \in Nat
           /\ (IF ttl > 0 THEN t + ttl ELSE Never) \in Deadlines
BY CacheAssumption DEF Deadlines

LEMMA ExpiryFacts ==
    ASSUME TypeOK, NEW ttl \in TTLs
    PROVE  Expiry(ttl) \in Deadlines
<1>1. now \in Nat /\ ttl \in Int
  BY CacheAssumption, NatFacts DEF TypeOK
<1>. QED
  BY <1>1, ExpiryType DEF Expiry, Deadlines

\* What Record writes into last, and that it keeps LastOK.
LEMMA RecordFacts ==
    ASSUME TypeOK, NEW op \in Ops, NEW k \in Keys,
           NEW seen \in Vals \cup {Absent}, NEW result \in Results(op),
           Record(op, k, seen, result)
    PROVE  /\ LastOK'
           /\ last'.op = op /\ last'.key = k /\ last'.result = result
<1>1. View(k) \in Vals \cup {Absent}
  BY ItemFacts
<1>. QED
  BY <1>1 DEF Record, LastOK

LEMMA NoOpFacts ==
    ASSUME NEW op \in Ops \ {"exists", "setnx", "keys", "ttl"}
    PROVE  /\ [NoOp EXCEPT !.op = op] \in [op : {op}, key : {Absent},
                  before : {Absent}, seen : {Absent}, result : {Absent}]
           /\ Absent \in Results(op)
BY DEF NoOp, Results, Ops

LEMMA IInvInit == Init => IInv
<1> SUFFICES ASSUME Init PROVE IInv
  OBVIOUS
<1>1. NoItem \in Items \cup {NoItem} /\ NoSet \in [value : Vals \cup {Absent}, deadline : Deadlines]
  BY DEF NoItem, NoSet, Deadlines
<1>2. LastOK
  BY DEF Init, LastOK, NoOp, Results, Ops
<1>3. TypeOK
  <2>1. items \in [Keys -> Items \cup {NoItem}] /\ stored \in [Keys -> [value : Vals \cup {Absent}, deadline : Deadlines]]
    BY <1>1 DEF Init
  <2>2. now \in Times
    BY CacheAssumption DEF Init, Times
  <2>. QED
    BY <2>1, <2>2, <1>2 DEF Init, TypeOK, LastOK
<1>. QED
  BY <1>3 DEF Init, IInv, StoredMatches, LastGet, NoOp

\* A read: the map, the clock and the Set records stay, and last records an
\* operation other than Get, or a Get that returned View(k).
LEMMA ReadKeeps ==
    ASSUME IInv, NEW op \in Ops, NEW k \in Keys,
           NEW seen \in Vals \cup {Absent}, NEW result \in Results(op),
           Record(op, k, seen, result),
           op = "get" => result = View(k),
           UNCHANGED <<items, now, stopClosed, panicked, janitorAlive, stored>>
    PROVE  IInv'
<1>1. LastOK' /\ last'.op = op /\ last'.key = k /\ last'.result = result
  BY RecordFacts DEF IInv
<1>2. TypeOK'
  BY <1>1 DEF IInv, TypeOK, LastOK
<1>3. \A j \in Keys : StoredMatches(j)'
  BY DEF IInv, StoredMatches
<1>4. View(k)' = View(k)
  BY DEF View, ExpiredAfter
<1>5. LastGet'
  BY <1>1, <1>4 DEF LastGet
<1>. QED
  BY <1>2, <1>3, <1>5 DEF IInv

\* A write of key k that forgets its Set record (stored[k] = NoSet) and
\* leaves every other key alone.
LEMMA ForgetKeeps ==
    ASSUME IInv, NEW op \in Ops \ {"get"}, NEW k \in Keys,
           NEW seen \in Vals \cup {Absent}, NEW result \in Results(op),
           NEW it \in Items \cup {NoItem},
           Record(op, k, seen, result),
           items' = [items EXCEPT ![k] = it],
           stored' = [stored EXCEPT ![k] = NoSet],
           UNCHANGED <<now, stopClosed, panicked, janitorAlive>>
    PROVE  IInv'
<1>1. LastOK' /\ last'.op = op
  BY RecordFacts DEF IInv
<1>2. items' \in [Keys -> Items \cup {NoItem}]
  BY DEF IInv, TypeOK
<1>3. stored' \in [Keys -> [value : Vals \cup {Absent}, deadline : Deadlines]]
  BY DEF IInv, TypeOK, NoSet, Deadlines
<1>4. TypeOK'
  BY <1>1, <1>2, <1>3 DEF IInv, TypeOK, LastOK
<1>5. \A j \in Keys : StoredMatches(j)'
  BY DEF IInv, TypeOK, StoredMatches
<1>. QED
  BY <1>1, <1>4, <1>5 DEF IInv, LastGet

\* A step that leaves the map, the clock and the Set records alone and
\* writes last as NoOp with a new op, or leaves it alone.
LEMMA QuietKeeps ==
    ASSUME IInv, UNCHANGED <<items, now, stored>>,
           stopClosed' \in BOOLEAN, panicked' \in BOOLEAN, janitorAlive' \in BOOLEAN,
           \/ UNCHANGED last
           \/ \E op \in Ops \ {"get", "exists", "setnx", "keys", "ttl"} :
                 last' = [NoOp EXCEPT !.op = op]
    PROVE  IInv'
<1>1. LastOK' /\ LastGet'
  <2>1. CASE UNCHANGED last
    BY <2>1 DEF IInv, TypeOK, LastOK, LastGet, View, ExpiredAfter
  <2>2. CASE \E op \in Ops \ {"get", "exists", "setnx", "keys", "ttl"} :
                last' = [NoOp EXCEPT !.op = op]
    <3>1. PICK op \in Ops \ {"get", "exists", "setnx", "keys", "ttl"} :
                last' = [NoOp EXCEPT !.op = op]
      BY <2>2
    <3>2. /\ last' \in [op : {op}, key : {Absent}, before : {Absent},
                        seen : {Absent}, result : {Absent}]
          /\ Absent \in Results(op)
      BY <3>1, NoOpFacts
    <3>3. /\ DOMAIN last' = {"op", "key", "before", "seen", "result"}
          /\ last'.op = op /\ last'.key = Absent /\ last'.before = Absent
          /\ last'.seen = Absent /\ last'.result = Absent
      BY <3>2
    <3>4. LastOK'
      BY <3>2, <3>3 DEF LastOK, Ops
    <3>. QED
      BY <3>3, <3>4 DEF LastGet
  <2>. QED
    BY <2>1, <2>2
<1>. QED
  BY <1>1 DEF IInv, TypeOK, LastOK, StoredMatches

LEMMA IInvStep == IInv /\ [Next]_vars => IInv'
<1> SUFFICES ASSUME IInv, [Next]_vars PROVE IInv'
  OBVIOUS
<1>0. TypeOK /\ now \in Nat
  BY NatFacts DEF IInv, TypeOK
<1>1. ASSUME NEW k \in Keys, Get(k) PROVE IInv'
  BY <1>0, <1>1, ItemFacts, ReadKeeps DEF Get, Ops, Results
<1>2. ASSUME NEW k \in Keys, Exists(k) PROVE IInv'
  BY <1>0, <1>2, ItemFacts, ReadKeeps DEF Exists, Ops, Results
<1>3. ASSUME NEW k \in Keys, TTLOp(k) PROVE IInv'
  <2> DEFINE it == items[k]
             left == IF it = NoItem \/ it.expiresAt = Never THEN 0 ELSE it.expiresAt - now
             res == CASE it = NoItem         -> Absent
                      [] it.expiresAt = Never -> -1
                      [] left < 0            -> Absent
                      [] OTHER               -> left
  <2>1. it.expiresAt \in Deadlines /\ it.value \in Vals \cup {Absent}
    BY <1>0, ItemFacts
  <2>2. res \in {Absent, -1} \cup Nat
    BY <1>0, <2>1 DEF Deadlines
  <2>. QED
    BY <1>0, <1>3, <2>1, <2>2, ReadKeeps DEF TTLOp, Ops, Results
<1>4. ASSUME NEW k \in Keys, Delete(k) PROVE IInv'
  BY <1>0, <1>4, ForgetKeeps DEF Delete, Ops, Results
<1>5. ASSUME NEW k \in Keys, NEW v \in Vals, NEW ttl \in TTLs, Set(k, v, ttl)
      PROVE  IInv'
  <2> DEFINE it == [value |-> v, expiresAt |-> Expiry(ttl)]
  <2>1. it \in Items /\ it # NoItem
    BY <1>0, ExpiryFacts, CacheAssumption DEF Items, NoItem, Vals
  <2>2. LastOK' /\ last'.op = "set"
    BY <1>0, <1>5, RecordFacts DEF Set, Ops, Results
  <2>3. /\ items' = [items EXCEPT ![k] = it]
        /\ stored' = [stored EXCEPT ![k] = [value |-> v, deadline |-> Expiry(ttl)]]
        /\ UNCHANGED <<now, stopClosed, panicked, janitorAlive>>
    BY <1>5 DEF Set
  <2>4. TypeOK'
    BY <1>0, <2>1, <2>2, <2>3, ExpiryFacts DEF TypeOK, LastOK
  <2>5. \A j \in Keys : StoredMatches(j)'
    BY <1>0, <2>3 DEF IInv, TypeOK, StoredMatches
  <2>. QED
    BY <2>2, <2>4, <2>5 DEF IInv, LastGet
<1>6. ASSUME NEW k \in Keys, NEW v \in Vals, NEW ttl \in TTLs, SetNX(k, v, ttl)
      PROVE  IInv'
  <2> DEFINE it == items[k]
             held == it # NoItem /\ LiveBefore(it)
  <2>1. it.value \in Vals \cup {Absent}
    BY <1>0, ItemFacts
  <2>2. CASE held
    <3>1. UNCHANGED <<items, now, stopClosed, panicked, janitorAlive, stored>>
          /\ Record("setnx", k, it.value, FALSE)
      BY <1>6, <2>2 DEF SetNX
    <3>. QED
      BY <1>0, <2>1, <3>1, ReadKeeps DEF Ops, Results
  <2>3. CASE ~held
    <3>1. (IF ttl > 0 THEN now + ttl ELSE Never) \in Deadlines
      BY <1>0, CacheAssumption, ExpiryType
    <3>2. [value |-> v, expiresAt |-> IF ttl > 0 THEN now + ttl ELSE Never] \in Items
      BY <3>1 DEF Items
    <3>3. Record("setnx", k, Absent, TRUE)
      BY <1>6, <2>3 DEF SetNX
    <3>. QED
      BY <1>0, <1>6, <2>3, <3>2, <3>3, ForgetKeeps DEF SetNX, Ops, Results
  <2>. QED
    BY <2>2, <2>3
<1>7. ASSUME NEW k \in Keys, NEW v \in Vals, GetSet(k, v) PROVE IInv'
  <2> DEFINE it == items[k]
             old == IF it # NoItem /\ LiveBefore(it) THEN it.value ELSE Absent
  <2>1. old \in Vals \cup {Absent} /\ [value |-> v, expiresAt |-> Never] \in Items
    BY <1>0, ItemFacts DEF Items, Deadlines
  <2>. QED
    BY <1>0, <1>7, <2>1, ForgetKeeps DEF GetSet, Ops, Results
<1>8. ASSUME NEW k \in Keys, NEW d \in {1, -1}, Increment(k, d) PROVE IInv'
  <2> DEFINE it    == items[k]
             base  == IF it # NoItem /\ LiveBefore(it) THEN Unmarshal(it.value) ELSE 0
             value == base + d
  <2>1. value \in Nums /\ it.expiresAt \in Deadlines /\ it.value \in Vals \cup {Absent}
    BY <1>0, <1>8, ItemFacts DEF Increment
  <2>2. [value |-> value, expiresAt |-> IF it # NoItem THEN it.expiresAt ELSE Never] \in Items
    BY <2>1 DEF Items, Vals, Deadlines
  <2>3. (IF it # NoItem /\ LiveBefore(it) THEN it.value ELSE Absent) \in Vals \cup {Absent}
    BY <2>1
  <2>. QED
    BY <1>0, <1>8, <2>1, <2>2, <2>3, ForgetKeeps DEF Increment, Ops, Results, Vals
<1>9. ASSUME NEW p \in DOMAIN Matches, KeysOp(p) PROVE IInv'
  <2>1. LastOK' /\ last'.op = "keys"
    BY <1>9 DEF KeysOp, LastOK, Ops, Results
  <2>. QED
    BY <1>0, <1>9, <2>1 DEF KeysOp, IInv, TypeOK, LastOK, StoredMatches, LastGet
<1>10. ASSUME NEW ks \in SUBSET Keys, DeleteMany(ks) PROVE IInv'
  <2>1. LastOK' /\ last'.op = "deletemany"
    BY <1>10, NoOpFacts DEF DeleteMany, LastOK, Ops
  <2>2. items' \in [Keys -> Items \cup {NoItem}]
        /\ stored' \in [Keys -> [value : Vals \cup {Absent}, deadline : Deadlines]]
    BY <1>0, <1>10 DEF DeleteMany, TypeOK, NoSet, Deadlines
  <2>. QED
    BY <1>0, <1>10, <2>1, <2>2 DEF DeleteMany, IInv, TypeOK, LastOK, StoredMatches, LastGet
<1>11. CASE Clear
  <2>1. LastOK' /\ last'.op = "clear"
    BY <1>11, NoOpFacts DEF Clear, LastOK, Ops
  <2>2. items' \in [Keys -> Items \cup {NoItem}]
        /\ stored' \in [Keys -> [value : Vals \cup {Absent}, deadline : Deadlines]]
    BY <1>11 DEF Clear, NoSet, Deadlines
  <2>. QED
    BY <1>0, <1>11, <2>1, <2>2 DEF Clear, IInv, TypeOK, LastOK, StoredMatches, LastGet
<1>12. CASE RemoveExpired
  <2>1. LastOK' /\ last'.op = "sweep"
    BY <1>12, NoOpFacts DEF RemoveExpired, LastOK, Ops
  <2>2. items' \in [Keys -> Items \cup {NoItem}]
    BY <1>0, <1>12 DEF RemoveExpired, TypeOK
  <2>3. ASSUME NEW j \in Keys PROVE StoredMatches(j)'
    <3>1. CASE items[j] # NoItem /\ ExpiredAfter(items[j])
      BY <1>12, <3>1 DEF IInv, StoredMatches, RemoveExpired, ExpiredAfter
    <3>2. CASE ~(items[j] # NoItem /\ ExpiredAfter(items[j]))
      BY <1>12, <3>2 DEF IInv, StoredMatches, RemoveExpired
    <3>. QED
      BY <3>1, <3>2
  <2>. QED
    BY <1>0, <1>12, <2>1, <2>2, <2>3 DEF RemoveExpired, IInv, TypeOK, LastOK, LastGet
<1>13. CASE JanitorExit
  BY <1>13, QuietKeeps DEF JanitorExit, IInv, TypeOK
<1>14. CASE Close
  BY <1>14, QuietKeeps DEF Close, IInv, TypeOK
<1>15. CASE Tick
  <2>1. LastOK' /\ ~(last'.op = "get")
    BY <1>15 DEF Tick, LastOK, NoOp, Ops, Results
  <2>2. now' \in Times
    BY <1>0, <1>15, CacheAssumption DEF Tick, Times
  <2>3. ASSUME NEW j \in Keys PROVE StoredMatches(j)'
    <3>1. stored[j] \in [value : Vals \cup {Absent}, deadline : Deadlines]
      BY DEF IInv, TypeOK
    <3>. QED
      BY <1>0, <1>15, <3>1 DEF Tick, IInv, StoredMatches, Deadlines
  <2>. QED
    BY <1>0, <1>15, <2>1, <2>2, <2>3 DEF Tick, IInv, TypeOK, LastOK, LastGet
<1>16. CASE UNCHANGED vars
  BY <1>16 DEF vars, IInv, TypeOK, StoredMatches, LastGet, View, ExpiredAfter
<1>. QED
  BY <1>1, <1>2, <1>3, <1>4, <1>5, <1>6, <1>7, <1>8, <1>9, <1>10, <1>11,
     <1>12, <1>13, <1>14, <1>15, <1>16 DEF Next

LEMMA IInvGetHonoursTTL == IInv => GetHonoursTTL
<1> SUFFICES ASSUME IInv, last.op = "get", stored[last.key] # NoSet
             PROVE  last.result = IF stored[last.key].deadline = Never
                                     \/ now <= stored[last.key].deadline
                                  THEN stored[last.key].value ELSE Absent
  BY DEF GetHonoursTTL
<1> DEFINE k == last.key
           s == stored[k]
<1>1. k \in Keys /\ last.result = View(k) /\ StoredMatches(k)
  BY DEF IInv, LastGet
<1>2. s.value \in Vals /\ s.deadline \in Deadlines /\ now \in Nat
  BY <1>1, NatFacts DEF IInv, TypeOK, StoredMatches
<1>3. CASE items[k] = [value |-> s.value, expiresAt |-> s.deadline]
  <2>1. items[k] # NoItem
    BY <1>2, <1>3, CacheAssumption DEF NoItem, Vals
  <2>2. ExpiredAfter(items[k]) <=> (s.deadline # Never /\ now > s.deadline)
    BY <1>3 DEF ExpiredAfter
  <2>3. (s.deadline # Never /\ now > s.deadline) <=> ~(s.deadline = Never \/ now <= s.deadline)
    BY <1>2 DEF Deadlines
  <2>. QED
    BY <1>1, <1>3, <2>1, <2>2, <2>3 DEF View
<1>4. CASE items[k] = NoItem /\ s.deadline # Never /\ now > s.deadline
  <2>1. ~(s.deadline = Never \/ now <= s.deadline)
    BY <1>2, <1>4 DEF Deadlines
  <2>. QED
    BY <1>1, <1>4, <2>1 DEF View
<1>. QED
  BY <1>1, <1>3, <1>4 DEF StoredMatches

-----------------------------------------------------------------------------
(* The refinement of ExpiringMap.                                          *)

\* The mapped entries and call.
MapEntries == [k \in Keys |-> Visible(k)]

\* An item as a caller sees it at time t.
Vis(it, t) == IF it = NoItem \/ (it.expiresAt # Never /\ t > it.expiresAt) THEN NoItem ELSE it

LEMMA VisibleIsVis ==
    ASSUME NEW k \in Keys PROVE Visible(k) = Vis(items[k], now)
BY DEF Visible, Vis, ExpiredAfter

\* A visible item is a live entry of the map, or none, and its value is
\* what Get returns.
LEMMA VisFacts ==
    ASSUME NEW it \in Items \cup {NoItem}, NEW t \in Nat
    PROVE  /\ Vis(it, t) \in Map!LiveAt(t) \cup {Map!NoEntry}
           /\ Vis(it, t).value = IF it # NoItem /\ ~(it.expiresAt # Never /\ t > it.expiresAt)
                                 THEN it.value ELSE Absent
<1>1. CASE it = NoItem \/ (it.expiresAt # Never /\ t > it.expiresAt)
  BY <1>1 DEF Vis, NoItem, Map!NoEntry
<1>2. CASE ~(it = NoItem \/ (it.expiresAt # Never /\ t > it.expiresAt))
  <2>1. it \in Items
    BY <1>2
  <2>2. it.value \in Vals /\ (it.expiresAt = Never \/ (it.expiresAt \in Nat /\ it.expiresAt >= t))
    BY <1>2, <2>1 DEF Items, Deadlines
  <2>3. it = [value |-> it.value, expiresAt |-> it.expiresAt]
    BY <2>1 DEF Items
  <2>4. it \in Map!LiveAt(t)
    BY <2>2, <2>3 DEF Map!LiveAt
  <2>. QED
    BY <1>2, <2>4 DEF Vis
<1>. QED
  BY <1>1, <1>2

\* What the mapped call is, by the kind of the last operation.
LEMMA CallFacts ==
    ASSUME NEW l
    PROVE  /\ l.op = "get" => CallOf(l) = [kind |-> "read", key |-> l.key, result |-> l.result]
           /\ l.op \in WriteOps => CallOf(l) = Map!Wrote
           /\ l.op \in ObserveOps => CallOf(l) = Map!Observed
           /\ l.op = "none" => CallOf(l) = Map!Idle
BY DEF CallOf, WriteOps, ObserveOps, Map!Wrote, Map!Observed, Map!Idle

\* The mapped entries, before and after a step, item by item.
LEMMA MapEntriesVis ==
    /\ MapEntries = [k \in Keys |-> Vis(items[k], now)]
    /\ MapEntries' = [k \in Keys |-> Vis(items'[k], now')]
BY DEF MapEntries, Visible, Vis, ExpiredAfter

\* A write of one key that leaves the clock and every other key alone is
\* a Write of the map.
LEMMA WriteRefines ==
    ASSUME TypeOK, TypeOK', NEW k \in Keys, now' = now, last'.op \in WriteOps,
           \A j \in Keys \ {k} : items'[j] = items[j]
    PROVE  Map!Write(k)
<1>1. items'[k] \in Items \cup {NoItem} /\ now \in Nat
  BY NatFacts DEF TypeOK
<1>2. MapEntries'[k] \in Map!LiveAt(now) \cup {Map!NoEntry}
  BY <1>1, VisFacts, MapEntriesVis
<1>3. MapEntries' = [MapEntries EXCEPT ![k] = MapEntries'[k]]
  BY MapEntriesVis
<1>4. CallOf(last') = Map!Wrote
  BY CallFacts
<1>. QED
  BY <1>2, <1>3, <1>4 DEF Map!Write, MapEntries

\* DeleteMany and Clear are Removes of the map.
LEMMA RemoveRefines ==
    ASSUME NEW ks \in SUBSET Keys, now' = now, last'.op \in WriteOps,
           items' = [k \in Keys |-> IF k \in ks THEN NoItem ELSE items[k]]
    PROVE  Map!Remove(ks)
<1>1. MapEntries' = [k \in Keys |-> IF k \in ks THEN Map!NoEntry ELSE MapEntries[k]]
  BY MapEntriesVis DEF Vis, NoItem, Map!NoEntry
<1>2. CallOf(last') = Map!Wrote
  BY CallFacts
<1>. QED
  BY <1>1, <1>2 DEF Map!Remove, MapEntries

\* A query that returns no value and keeps what a caller sees is an
\* Observe of the map.
LEMMA ObserveRefines ==
    ASSUME MapEntries' = MapEntries, now' = now, last'.op \in ObserveOps
    PROVE  Map!Observe
<1>1. CallOf(last') = Map!Observed
  BY CallFacts
<1>. QED
  BY <1>1 DEF Map!Observe, MapEntries

\* An item visible one instant later is one still live then.
LEMMA VisTick ==
    ASSUME NEW it \in Items \cup {NoItem}, NEW t \in Nat
    PROVE  Vis(it, t + 1) = IF Vis(it, t) \in Map!LiveAt(t + 1) THEN Vis(it, t) ELSE Map!NoEntry
<1>1. NoItem \notin Map!LiveAt(t + 1)
  BY CacheAssumption DEF NoItem, Map!LiveAt, Vals
<1>2. CASE it = NoItem
  BY <1>1, <1>2 DEF Vis, NoItem, Map!NoEntry
<1>3. CASE it # NoItem /\ it.expiresAt # Never /\ t > it.expiresAt
  <2>1. it.expiresAt \in Nat
    BY <1>3 DEF Items, Deadlines
  <2>2. t + 1 > it.expiresAt
    BY <1>3, <2>1
  <2>. QED
    BY <1>1, <1>3, <2>2 DEF Vis, NoItem, Map!NoEntry
<1>4. CASE it # NoItem /\ ~(it.expiresAt # Never /\ t > it.expiresAt)
  <2>1. it \in Items /\ Vis(it, t) = it
    BY <1>4 DEF Vis
  <2>2. it.value \in Vals /\ it.expiresAt \in {Never} \cup Nat
        /\ it = [value |-> it.value, expiresAt |-> it.expiresAt]
    BY <2>1 DEF Items, Deadlines
  <2>3. (it \in Map!LiveAt(t + 1)) <=> ~(it.expiresAt # Never /\ t + 1 > it.expiresAt)
    BY <2>2, CacheAssumption DEF Map!LiveAt
  <2>. QED
    BY <1>4, <2>1, <2>3 DEF Vis, NoItem, Map!NoEntry
<1>. QED
  BY <1>2, <1>3, <1>4

\* A tick of the clock is a Tick of the map.
LEMMA TickRefines ==
    ASSUME TypeOK, Tick PROVE Map!Tick
<1>1. now \in Nat /\ now' = now + 1 /\ items' = items
  BY NatFacts DEF TypeOK, Tick
<1>2. ASSUME NEW k \in Keys
      PROVE  MapEntries'[k] = IF MapEntries[k] \in Map!LiveAt(now + 1)
                              THEN MapEntries[k] ELSE Map!NoEntry
  <2>1. items[k] \in Items \cup {NoItem}
    BY DEF TypeOK
  <2>. QED
    BY <1>1, <2>1, VisTick, MapEntriesVis
<1>3. MapEntries' = [k \in Keys |-> IF MapEntries[k] \in Map!LiveAt(now + 1)
                                    THEN MapEntries[k] ELSE Map!NoEntry]
  BY <1>2, MapEntriesVis
<1>4. CallOf(last') = Map!Idle
  BY CallFacts DEF Tick, NoOp
<1>. QED
  BY <1>1, <1>3, <1>4 DEF Map!Tick, MapEntries

LEMMA RefInit == Init => Map!Init
<1> SUFFICES ASSUME Init PROVE Map!Init
  OBVIOUS
<1>1. MapEntries = [k \in Keys |-> Map!NoEntry]
  BY DEF Init, MapEntries, Visible, NoItem, Map!NoEntry
<1>2. CallOf(last) = Map!Idle
  BY CallFacts DEF Init, NoOp
<1>. QED
  BY <1>1, <1>2 DEF Init, Map!Init, MapEntries

\* What Get returns is the value of the mapped entry.
LEMMA ViewIsEntryValue ==
    ASSUME TypeOK, NEW k \in Keys PROVE MapEntries[k].value = View(k)
<1>1. items[k] \in Items \cup {NoItem} /\ now \in Nat
  BY NatFacts DEF TypeOK
<1>. QED
  BY <1>1, VisFacts, MapEntriesVis DEF View, ExpiredAfter

\* Every step of the cache is a step of the map or leaves the mapped state
\* alone: Get is Read, Exists, TTL, Keys and removeExpired are Observe,
\* the one-key writes are Write, DeleteMany and Clear are Remove, a tick
\* is Tick, and the janitor's exit and Close are stuttering steps.
LEMMA RefStep == TypeOK /\ TypeOK' /\ [Next]_vars => [Map!Next]_Map!avars
<1> SUFFICES ASSUME TypeOK, TypeOK', [Next]_vars PROVE [Map!Next]_Map!avars
  OBVIOUS
<1>0. UNCHANGED <<items, now>> => MapEntries' = MapEntries
  BY MapEntriesVis
<1>1. ASSUME NEW k \in Keys, Get(k) PROVE Map!Next
  <2>1. last'.op = "get" /\ last'.key = k /\ last'.result = View(k)
        /\ UNCHANGED <<items, now>>
    BY <1>1 DEF Get, Record
  <2>2. CallOf(last') = [kind |-> "read", key |-> k, result |-> MapEntries[k].value]
    BY <2>1, CallFacts, ViewIsEntryValue
  <2>3. Map!Read(k)
    BY <1>0, <2>1, <2>2 DEF Map!Read, MapEntries
  <2>. QED
    BY <2>3 DEF Map!Next
<1>2. ASSUME NEW k \in Keys, Exists(k) \/ TTLOp(k) PROVE Map!Next
  <2>1. last'.op \in ObserveOps /\ UNCHANGED <<items, now>>
    BY <1>2 DEF Exists, TTLOp, Record, ObserveOps
  <2>. QED
    BY <1>0, <2>1, ObserveRefines DEF Map!Next
<1>3. ASSUME NEW p \in DOMAIN Matches, KeysOp(p) PROVE Map!Next
  <2>1. last'.op \in ObserveOps /\ UNCHANGED <<items, now>>
    BY <1>3 DEF KeysOp, ObserveOps
  <2>. QED
    BY <1>0, <2>1, ObserveRefines DEF Map!Next
<1>4. CASE RemoveExpired
  <2>1. last'.op \in ObserveOps /\ now' = now
    BY <1>4 DEF RemoveExpired, NoOp, ObserveOps
  <2>2. ASSUME NEW k \in Keys PROVE Vis(items'[k], now') = Vis(items[k], now)
    BY <1>4, <2>1 DEF RemoveExpired, Vis, ExpiredAfter
  <2>3. MapEntries' = MapEntries
    BY <2>2, MapEntriesVis
  <2>. QED
    BY <2>1, <2>3, ObserveRefines DEF Map!Next
<1>5. ASSUME NEW k \in Keys,
             \/ Delete(k)
             \/ \E v \in Vals, ttl \in TTLs : Set(k, v, ttl) \/ SetNX(k, v, ttl)
             \/ \E v \in Vals : GetSet(k, v)
             \/ \E d \in {1, -1} : Increment(k, d)
      PROVE  Map!Next
  <2> DEFINE Frame == /\ now' = now /\ last'.op \in WriteOps
                      /\ \A j \in Keys \ {k} : items'[j] = items[j]
  <2>0. items \in [Keys -> Items \cup {NoItem}]
    BY DEF TypeOK
  <2>1. ASSUME Delete(k) PROVE Frame
    BY <2>0, <2>1 DEF Delete, Record, WriteOps
  <2>2. ASSUME NEW v \in Vals, NEW ttl \in TTLs, Set(k, v, ttl) PROVE Frame
    BY <2>0, <2>2 DEF Set, Record, WriteOps
  <2>3. ASSUME NEW v \in Vals, NEW ttl \in TTLs, SetNX(k, v, ttl) PROVE Frame
    <3>1. last'.op = "setnx" /\ now' = now
      BY <2>3 DEF SetNX, Record
    <3>2. CASE items[k] # NoItem /\ LiveBefore(items[k])
      BY <2>3, <3>1, <3>2 DEF SetNX, WriteOps
    <3>3. CASE ~(items[k] # NoItem /\ LiveBefore(items[k]))
      BY <2>0, <2>3, <3>1, <3>3 DEF SetNX, WriteOps
    <3>. QED
      BY <3>2, <3>3
  <2>4. ASSUME NEW v \in Vals, GetSet(k, v) PROVE Frame
    BY <2>0, <2>4 DEF GetSet, Record, WriteOps
  <2>5. ASSUME NEW d \in {1, -1}, Increment(k, d) PROVE Frame
    BY <2>0, <2>5 DEF Increment, Record, WriteOps
  <2>. QED
    BY <1>5, <2>1, <2>2, <2>3, <2>4, <2>5, WriteRefines DEF Map!Next
<1>6. ASSUME NEW ks \in SUBSET Keys, DeleteMany(ks) PROVE Map!Next
  <2>1. now' = now /\ last'.op \in WriteOps
        /\ items' = [k \in Keys |-> IF k \in ks THEN NoItem ELSE items[k]]
    BY <1>6 DEF DeleteMany, NoOp, WriteOps
  <2>. QED
    BY <2>1, RemoveRefines DEF Map!Next
<1>7. CASE Clear
  <2>1. now' = now /\ last'.op \in WriteOps
        /\ items' = [k \in Keys |-> IF k \in Keys THEN NoItem ELSE items[k]]
    BY <1>7 DEF Clear, NoOp, WriteOps
  <2>. QED
    BY <2>1, RemoveRefines DEF Map!Next
<1>8. CASE JanitorExit \/ Close \/ UNCHANGED vars
  <2>1. UNCHANGED <<items, now, last>>
    BY <1>8 DEF JanitorExit, Close, vars
  <2>. QED
    BY <1>0, <2>1 DEF Map!avars, MapEntries
<1>9. CASE Tick
  BY <1>9, TickRefines DEF Map!Next
<1>. QED
  BY <1>1, <1>2, <1>3, <1>4, <1>5, <1>6, <1>7, <1>8, <1>9 DEF Next

-----------------------------------------------------------------------------
(* Theorems *)

\* The cache's state is well typed in every reachable state, for every set
\* of keys and every ttl argument: Set never records a deadline before the
\* clock's origin.
THEOREM TypeCorrect == Spec => []TypeOK
BY IInvInit, IInvStep, PTL DEF Spec, IInv

\* Get honours the expiry contract of the last Set of a key that no other
\* write has touched since: the value up to the deadline, an error after
\* it, whether or not removeExpired has swept the item.
THEOREM GetHonoursSetTTL == Spec => []GetHonoursTTL
BY IInvInit, IInvStep, IInvGetHonoursTTL, PTL DEF Spec

\* The cache implements ExpiringMap: for every set of keys, values and ttl
\* arguments, what Get returns, and what every operation and the janitor
\* do to it, is what a map whose entries vanish exactly when the clock
\* passes their deadline does (see ExpiringMapSpec).
THEOREM Refinement == Spec => ExpiringMapSpec
<1>1. Spec => []TypeOK
  BY TypeCorrect
<1>2. TypeOK /\ TypeOK' /\ [Next]_vars => [Map!Next]_Map!avars
  BY RefStep
<1>. QED
  BY <1>1, <1>2, RefInit, PTL DEF Spec, ExpiringMapSpec, Map!Spec

=============================================================================
