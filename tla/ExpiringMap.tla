----------------------------- MODULE ExpiringMap -----------------------------
(***************************************************************************)
(* What a TTL cache promises its callers, without the lazy expiry, the    *)
(* sweeping goroutine or the lock: a map from keys to entries in which an *)
(* entry exists exactly until the clock passes its deadline.  A read      *)
(* returns the live entry's value, or Absent, and changes nothing; a      *)
(* write changes the keys it names; an observation (a query that returns  *)
(* no value, or housekeeping) changes nothing; and time passing removes   *)
(* just the entries whose deadline it passes.                             *)
(***************************************************************************)
EXTENDS Naturals

CONSTANTS
    Keys,     \* the keys
    Values,   \* the values an entry can hold
    Never,    \* the deadline of an entry that does not expire
    Absent    \* what a read of a key without an entry returns

NoEntry == [value |-> Absent, expiresAt |-> Never]

\* An entry that has not expired at time t: no deadline, or one not passed.
LiveAt(t) == [value : Values, expiresAt : {Never} \cup {d \in Nat : d >= t}]

\* What a call did last: a read with its key and result, a write, an
\* observation, or nothing yet at this instant.
Idle == [kind |-> "idle", key |-> Absent, result |-> Absent]
Wrote == [kind |-> "write", key |-> Absent, result |-> Absent]
Observed == [kind |-> "observe", key |-> Absent, result |-> Absent]

VARIABLES
    entries,  \* per key, its live entry or NoEntry
    clock,    \* the time
    call      \* the last call at this instant

avars == <<entries, clock, call>>

TypeOK ==
    /\ entries \in [Keys -> LiveAt(clock) \cup {NoEntry}]
    /\ clock \in Nat
    /\ call \in {Idle, Wrote, Observed}
                \cup [kind : {"read"}, key : Keys, result : Values \cup {Absent}]

Init ==
    /\ entries = [k \in Keys |-> NoEntry]
    /\ clock = 0
    /\ call = Idle

\* A read of k returns the value of its entry, Absent when it has none.
Read(k) ==
    /\ call' = [kind |-> "read", key |-> k, result |-> entries[k].value]
    /\ UNCHANGED <<entries, clock>>

\* A call that returns no value of the map and leaves it as it is.
Observe ==
    /\ call' = Observed
    /\ UNCHANGED <<entries, clock>>

\* A write of k gives it a live entry, or none, and leaves the other keys.
Write(k) ==
    /\ entries'[k] \in LiveAt(clock) \cup {NoEntry}
    /\ entries' = [entries EXCEPT ![k] = entries'[k]]
    /\ call' = Wrote
    /\ UNCHANGED clock

\* A removal of the keys ks drops their entries and leaves the other keys.
Remove(ks) ==
    /\ entries' = [k \in Keys |-> IF k \in ks THEN NoEntry ELSE entries[k]]
    /\ call' = Wrote
    /\ UNCHANGED clock

\* Time passes: the entries whose deadline the new time passes are gone.
Tick ==
    /\ clock' = clock + 1
    /\ entries' = [k \in Keys |-> IF entries[k] \in LiveAt(clock + 1)
                                  THEN entries[k] ELSE NoEntry]
    /\ call' = Idle

Next ==
    \/ \E k \in Keys : Read(k)
    \/ Observe
    \/ \E k \in Keys : Write(k)
    \/ \E ks \in SUBSET Keys : Remove(ks)
    \/ Tick

Spec == Init /\ [][Next]_avars
=============================================================================
