------------------------- MODULE IPRateLimiterProofs -------------------------
(***************************************************************************)
(* Proofs about the per-IP limiter table of src/limiter/ip_limiter.go,    *)
(* for any number of handlers and clients, any burst, rate and ttl.       *)
(*                                                                         *)
(* TypeOK rests on two facts that are not part of it.  A handler about to *)
(* call Allow holds a real bucket (GetLimiter returned one).  And AddIP   *)
(* always finds a bucket number no entry and no handler refers to: at     *)
(* most one per client and one per handler are in use, and there is one   *)
(* more than that (a counting argument over finite sets).                 *)
(***************************************************************************)
EXTENDS IPRateLimiter, FiniteSetTheorems, TLAPS

\* A handler between GetLimiter and Allow holds the limiter it was given.
HoldsBucket == \A p \in Procs : pc[p] = "allow" => held[p] \in Buckets

IInv == TypeOK /\ HoldsBucket

\* The bucket numbers: finitely many, one more than clients and handlers.
LEMMA BucketCount ==
    /\ Cardinality(Procs) \in Nat /\ Cardinality(IPs) \in Nat
    /\ IsFiniteSet(Buckets)
    /\ Cardinality(Buckets) = Cardinality(Procs) + Cardinality(IPs) + 1
<1>1. Cardinality(Procs) \in Nat /\ Cardinality(IPs) \in Nat
  <2>1. Cardinality(Procs) \in Nat
    BY LimiterAssumption, FS_CardinalityType
  <2>2. Cardinality(IPs) \in Nat
    BY LimiterAssumption, FS_CardinalityType
  <2>. QED
    BY <2>1, <2>2
<1> DEFINE N == Cardinality(Procs) + Cardinality(IPs) + 1
<1>2. N \in Int /\ 1 <= N
  BY <1>1
<1>3. IsFiniteSet(1..N) /\ Cardinality(1..N) = IF 1 > N THEN 0 ELSE N - 1 + 1
  BY <1>2, FS_Interval
<1>. QED
  BY <1>1, <1>2, <1>3 DEF Buckets

\* AddIP's CHOOSE always has a bucket to pick.
LEMMA FreeBucket ==
    ASSUME TypeOK PROVE \E x \in Buckets : x \notin InUse
<1> DEFINE A == {ips[k].bucket : k \in IPs}
           B == {held[p] : p \in Procs}
           fa == [k \in IPs |-> ips[k].bucket]
           fb == [p \in Procs |-> held[p]]
<1>1. IsFiniteSet(A) /\ Cardinality(A) <= Cardinality(IPs)
  <2>1. fa \in Surjection(IPs, A)
    BY DEF Surjection
  <2>. QED
    BY <2>1, LimiterAssumption, FS_Surjection
<1>2. IsFiniteSet(B) /\ Cardinality(B) <= Cardinality(Procs)
  <2>1. fb \in Surjection(Procs, B)
    BY DEF Surjection
  <2>. QED
    BY <2>1, LimiterAssumption, FS_Surjection
<1>3. IsFiniteSet(InUse) /\ Cardinality(InUse) <= Cardinality(IPs) + Cardinality(Procs)
  <2>1. IsFiniteSet(A \cup B)
        /\ Cardinality(A \cup B) = Cardinality(A) + Cardinality(B) - Cardinality(A \cap B)
    BY <1>1, <1>2, FS_Union
  <2>2. IsFiniteSet(A \cap B) /\ Cardinality(A \cap B) \in Nat
    BY <1>1, FS_Subset, FS_CardinalityType
  <2>3. Cardinality(A) \in Nat /\ Cardinality(B) \in Nat
    BY <1>1, <1>2, FS_CardinalityType
  <2>. QED
    BY <1>1, <1>2, <2>1, <2>2, <2>3, BucketCount DEF InUse
<1>. SUFFICES ASSUME Buckets \subseteq InUse PROVE FALSE
  OBVIOUS
<1>4. Cardinality(Buckets) <= Cardinality(InUse)
  <2>1. Buckets \in SUBSET InUse
    OBVIOUS
  <2>. QED
    BY <1>3, <2>1, FS_Subset
<1>5. Cardinality(InUse) \in Nat
  BY <1>3, FS_CardinalityType
<1>. QED
  BY <1>3, <1>4, <1>5, BucketCount

LEMMA IInvInit == Init => IInv
<1> SUFFICES ASSUME Init PROVE IInv
  OBVIOUS
<1>1. (CHOOSE k \in IPs : TRUE) \in IPs /\ MaxTime \in Nat /\ Burst \in Nat
  BY LimiterAssumption
<1>2. TypeOK
  <2>1. ips \in [IPs -> Entries \cup {NoEntry}] /\ held \in [Procs -> Buckets \cup {NoBucket}]
    BY DEF Init
  <2>2. tokens \in [Buckets -> 0..Burst] /\ now \in 0..MaxTime
    BY <1>1 DEF Init
  <2>3. granted \in [IPs -> 0..GrantCap] /\ stopClosed \in Nat
    BY <1>1 DEF Init, GrantCap
  <2>4. ip \in [Procs -> IPs] /\ pc \in [Procs -> {"idle", "add", "allow"}]
    BY <1>1 DEF Init
  <2>. QED
    BY <2>1, <2>2, <2>3, <2>4 DEF Init, TypeOK
<1>. QED
  BY <1>2 DEF Init, IInv, HoldsBucket

LEMMA IInvStep == IInv /\ [Next]_vars => IInv'
<1> SUFFICES ASSUME IInv, [Next]_vars PROVE IInv'
  OBVIOUS
<1>0. /\ TypeOK /\ HoldsBucket
      /\ now \in Nat /\ Burst \in Nat /\ Rate \in Nat /\ MaxTime \in Nat
  BY LimiterAssumption DEF IInv, TypeOK
<1>1. ASSUME NEW p \in Procs, NEW k \in IPs, GetLimiterHit(p, k) PROVE IInv'
  <2>1. ips[k] \in Entries
    BY <1>0, <1>1 DEF GetLimiterHit, TypeOK
  <2>2. [ips[k] EXCEPT !.lastSeen = now] \in Entries
    BY <1>0, <2>1 DEF Entries, TypeOK
  <2>3. ips' \in [IPs -> Entries \cup {NoEntry}]
    BY <1>0, <1>1, <2>2 DEF GetLimiterHit, TypeOK
  <2>4. held' \in [Procs -> Buckets \cup {NoBucket}] /\ held'[p] \in Buckets
    BY <1>0, <1>1, <2>1 DEF GetLimiterHit, TypeOK, Entries
  <2>5. TypeOK'
    BY <1>0, <1>1, <2>3, <2>4 DEF GetLimiterHit, TypeOK
  <2>. QED
    BY <1>0, <1>1, <2>4, <2>5 DEF GetLimiterHit, IInv, HoldsBucket, TypeOK
<1>2. ASSUME NEW p \in Procs, NEW k \in IPs, GetLimiterMiss(p, k) PROVE IInv'
  BY <1>0, <1>2 DEF GetLimiterMiss, IInv, TypeOK, HoldsBucket
<1>3. ASSUME NEW p \in Procs, AddIP(p) PROVE IInv'
  <2> DEFINE b == CHOOSE x \in Buckets : x \notin InUse
  <2>1. b \in Buckets
    BY <1>0, FreeBucket
  <2>2. /\ ips' = [ips EXCEPT ![ip[p]] = [bucket |-> b, lastSeen |-> now]]
        /\ tokens' = [tokens EXCEPT ![b] = Burst]
        /\ held' = [held EXCEPT ![p] = b]
        /\ pc' = [pc EXCEPT ![p] = "allow"]
        /\ UNCHANGED <<now, stopped, stopClosed, loopAlive, ip, granted>>
    BY <1>3 DEF AddIP
  <2>3. [bucket |-> b, lastSeen |-> now] \in Entries
    BY <1>0, <2>1 DEF Entries, TypeOK
  <2>4. TypeOK'
    BY <1>0, <2>1, <2>2, <2>3 DEF TypeOK
  <2>. QED
    BY <1>0, <2>1, <2>2, <2>4 DEF IInv, HoldsBucket, TypeOK
<1>4. ASSUME NEW p \in Procs, Allow(p) PROVE IInv'
  <2>1. held[p] \in Buckets /\ tokens[held[p]] \in 0..Burst
    BY <1>0, <1>4 DEF Allow, HoldsBucket, TypeOK
  <2>2. tokens' \in [Buckets -> 0..Burst] /\ granted' \in [IPs -> 0..GrantCap]
    <3>1. CASE tokens[held[p]] > 0
      BY <1>0, <1>4, <2>1, <3>1 DEF Allow, TypeOK, GrantCap
    <3>2. CASE ~(tokens[held[p]] > 0)
      BY <1>0, <1>4, <3>2 DEF Allow, TypeOK
    <3>. QED
      BY <3>1, <3>2
  <2>3. TypeOK'
    BY <1>0, <1>4, <2>2 DEF Allow, TypeOK, NoBucket
  <2>. QED
    BY <1>0, <1>4, <2>3 DEF Allow, IInv, HoldsBucket, TypeOK
<1>5. CASE Cleanup
  BY <1>0, <1>5 DEF Cleanup, IInv, TypeOK, HoldsBucket
<1>6. CASE LoopExit
  BY <1>0, <1>6 DEF LoopExit, IInv, TypeOK, HoldsBucket
<1>7. CASE Stop
  BY <1>0, <1>7 DEF Stop, IInv, TypeOK, HoldsBucket
<1>8. CASE Clear
  BY <1>0, <1>8 DEF Clear, IInv, TypeOK, HoldsBucket
<1>9. CASE Tick
  <2>1. tokens' \in [Buckets -> 0..Burst]
    BY <1>0, <1>9 DEF Tick, TypeOK
  <2>2. granted' \in [IPs -> 0..GrantCap] /\ now' \in 0..MaxTime
    BY <1>0, <1>9 DEF Tick, TypeOK, GrantCap
  <2>. QED
    BY <1>0, <1>9, <2>1, <2>2 DEF Tick, IInv, TypeOK, HoldsBucket
<1>10. CASE UNCHANGED vars
  BY <1>0, <1>10 DEF vars, IInv, TypeOK, HoldsBucket
<1>. QED
  BY <1>1, <1>2, <1>3, <1>4, <1>5, <1>6, <1>7, <1>8, <1>9, <1>10 DEF Next, Handler

-----------------------------------------------------------------------------
(* Theorems *)

\* The limiter table is well typed in every reachable state, for any number
\* of handlers and clients: in particular AddIP always finds a fresh bucket
\* and Allow never draws a bucket below zero.
THEOREM TypeCorrect == Spec => []TypeOK
BY IInvInit, IInvStep, PTL DEF Spec, IInv

=============================================================================
