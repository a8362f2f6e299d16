------------------------ MODULE ShutdownManagerProofs ------------------------
(***************************************************************************)
(* Proofs about ShutdownManager for every set of hooks and every number   *)
(* of callers of shutdown: the type invariant, and that the manager       *)
(* implements HookShutdown, whose callers run every hook they copied,     *)
(* once each and in reverse, before done is closed.                       *)
(***************************************************************************)
EXTENDS ShutdownManagerImpl, SequenceTheorems, TLAPS

(***************************************************************************)
(* What a caller of shutdown has done so far.  Before the copy it has run *)
(* nothing; from the copy on, it has run the last Len(snap) - i hooks of  *)
(* its snapshot, last first; when it has finished, i is 0.  This is the   *)
(* loop invariant of the for loop of shutdown.                            *)
(***************************************************************************)
RanSoFar(q) ==
    /\ q.pc \in {"absent", "idle", "sleep", "copy"} => q.ran = << >>
    /\ q.pc \in {"loop", "hung", "done"} =>
          /\ q.i \in 0..Len(q.snap)
          /\ Len(q.ran) = Len(q.snap) - q.i
          /\ \A j \in 1..Len(q.ran) : q.ran[j] = q.snap[Len(q.snap) - j + 1]
    /\ q.pc = "done" => q.i = 0

\* done is closed only by a caller that finished the loop.
ClosedByFinisher == doneClosed => \E p \in Procs : proc[p].pc = "done"

\* The signal goroutine is spawned only by Start, after Notify.
SignalSpawnedByStart == startPC # "returned" => proc["signal"].pc = "absent"

IInv ==
    /\ TypeOK
    /\ \A p \in Procs : RanSoFar(proc[p])
    /\ ClosedByFinisher
    /\ SignalSpawnedByStart

\* A step that moves one caller between the states before its copy of the
\* hooks changes nothing else of any caller.
LEMMA PreLoopMove ==
    ASSUME IInv, NEW x \in Procs, NEW v \in {"idle", "sleep", "copy"},
           proc[x].pc \in {"absent", "idle", "sleep"},
           proc' = [proc EXCEPT ![x].pc = v]
    PROVE  /\ proc' \in [Procs -> Proc]
           /\ \A p \in Procs : RanSoFar(proc'[p])
           /\ \A p \in Procs : proc'[p].pc = "done" <=> proc[p].pc = "done"
<1>1. proc \in [Procs -> Proc]
  BY DEF IInv, TypeOK
<1>2. proc' \in [Procs -> Proc]
  BY <1>1 DEF Proc, PCs
<1>3. \A p \in Procs : RanSoFar(proc'[p])
  BY <1>1 DEF IInv, RanSoFar
<1>. QED
  BY <1>1, <1>2, <1>3

\* A step that gives one caller a new state in the loop, from a state in
\* which it had not finished, keeps what the other callers did.
LEMMA LoopMove ==
    ASSUME proc \in [Procs -> Proc], \A p \in Procs : RanSoFar(proc[p]),
           NEW x \in Procs, NEW r \in Proc, RanSoFar(r),
           r.pc \in {"loop", "hung"}, proc[x].pc \in {"copy", "loop"},
           proc' = [proc EXCEPT ![x] = r]
    PROVE  /\ proc' \in [Procs -> Proc]
           /\ \A p \in Procs : RanSoFar(proc'[p])
           /\ \A p \in Procs : proc'[p].pc = "done" <=> proc[p].pc = "done"
           /\ proc["signal"].pc = "absent" => proc'["signal"].pc = "absent"
<1>1. proc' \in [Procs -> Proc]
  OBVIOUS
<1>2. \A p \in Procs : RanSoFar(proc'[p])
  OBVIOUS
<1>3. \A p \in Procs : proc'[p].pc = "done" <=> proc[p].pc = "done"
  OBVIOUS
<1>4. proc["signal"].pc = "absent" => proc'["signal"].pc = "absent"
  OBVIOUS
<1>. QED
  BY <1>1, <1>2, <1>3, <1>4

LEMMA IInvInit == Init => IInv
<1> SUFFICES ASSUME Init PROVE IInv
  OBVIOUS
<1>1. hooks \in Seq(HookNames) /\ << >> \in Seq(HookNames)
  BY EmptySeq DEF Init
<1>2. proc \in [Procs -> Proc]
  BY <1>1 DEF Init, Proc, PCs
<1>3. \A p \in Procs : RanSoFar(proc[p])
  BY DEF Init, RanSoFar
<1>4. sigChan \in 0..1
  BY DEF Init
<1>6. TypeOK
  BY <1>1, <1>2, <1>4, Zenon DEF Init, TypeOK
<1>5. ClosedByFinisher /\ SignalSpawnedByStart
  BY DEF Init, ClosedByFinisher, SignalSpawnedByStart, Procs
<1>. QED
  BY <1>3, <1>6, <1>5 DEF IInv

LEMMA IInvStep == IInv /\ [Next]_vars => IInv'
<1> SUFFICES ASSUME IInv, [Next]_vars PROVE IInv'
  OBVIOUS
<1>0. /\ proc \in [Procs -> Proc]
      /\ hooks \in Seq(HookNames)
      /\ "signal" \in Procs
  BY DEF IInv, TypeOK, Procs
<1>1. ASSUME NEW h \in HookNames, AddHook(h) PROVE IInv'
  <2>1. hooks' \in Seq(HookNames)
    BY <1>0, <1>1, AppendProperties DEF AddHook
  <2>2. TypeOK'
    BY <1>1, <2>1, Zenon DEF AddHook, IInv, TypeOK
  <2>. QED
    BY <1>1, <2>2 DEF AddHook, IInv, RanSoFar, ClosedByFinisher, SignalSpawnedByStart
<1>2. CASE StartClaim
  <2>1. TypeOK'
    BY <1>2, Zenon DEF StartClaim, IInv, TypeOK
  <2>. QED
    BY <1>2, <2>1 DEF StartClaim, IInv, RanSoFar, ClosedByFinisher, SignalSpawnedByStart
<1>3. CASE StartListen
  <2>1. /\ proc' \in [Procs -> Proc]
        /\ \A p \in Procs : RanSoFar(proc'[p])
        /\ \A p \in Procs : proc'[p].pc = "done" <=> proc[p].pc = "done"
    <3>1. proc["signal"].pc \in {"absent", "idle", "sleep"}
      BY <1>3 DEF StartListen, IInv, SignalSpawnedByStart
    <3>. QED
      BY <1>0, <1>3, <3>1, PreLoopMove DEF StartListen
  <2>2. TypeOK'
    BY <1>3, <2>1, Zenon DEF StartListen, IInv, TypeOK
  <2>. QED
    BY <1>3, <2>1, <2>2 DEF StartListen, IInv, ClosedByFinisher, SignalSpawnedByStart
<1>4. CASE Signal
  <2>1. sigChan' \in 0..1
    BY <1>4 DEF Signal, IInv, TypeOK
  <2>2. TypeOK'
    BY <1>4, <2>1, Zenon DEF Signal, IInv, TypeOK
  <2>. QED
    BY <1>4, <2>2 DEF Signal, IInv, RanSoFar, ClosedByFinisher, SignalSpawnedByStart
<1>5. CASE Wait
  <2>1. TypeOK'
    BY <1>5, Zenon DEF Wait, IInv, TypeOK
  <2>. QED
    BY <1>5, <2>1 DEF Wait, IInv, RanSoFar, ClosedByFinisher, SignalSpawnedByStart
\* The steps of one caller of shutdown other than the signal goroutine.
<1>6. ASSUME NEW x \in Triggers \cup Graceful,
             \/ /\ proc[x].pc = "idle" /\ proc' = [proc EXCEPT ![x].pc = "copy"]
             \/ /\ proc[x].pc = "idle" /\ proc' = [proc EXCEPT ![x].pc = "sleep"]
             \/ /\ proc[x].pc = "sleep" /\ proc' = [proc EXCEPT ![x].pc = "copy"],
             UNCHANGED <<hooks, started, notified, startPC, sigChan, doneClosed,
                         waited, killed, panicked, sigAfterStart>>,
             healthy' \in BOOLEAN
      PROVE  IInv'
  <2>1. x \in Procs /\ x # "signal"
    BY ShutdownAssumption DEF Procs
  <2>2. /\ proc' \in [Procs -> Proc]
        /\ \A p \in Procs : RanSoFar(proc'[p])
        /\ \A p \in Procs : proc'[p].pc = "done" <=> proc[p].pc = "done"
    BY <1>6, <2>1, PreLoopMove
  <2>3. proc'["signal"] = proc["signal"]
    BY <1>0, <1>6, <2>1
  <2>4. TypeOK'
    BY <1>6, <2>2, Zenon DEF IInv, TypeOK
  <2>. QED
    BY <1>6, <2>2, <2>3, <2>4 DEF IInv, ClosedByFinisher, SignalSpawnedByStart
<1>7. ASSUME NEW t \in Triggers, CallTrigger(t) PROVE IInv'
  <2>1. healthy' \in BOOLEAN
    BY <1>7 DEF CallTrigger, IInv, TypeOK
  <2>. QED
    BY <1>7, <1>6, <2>1 DEF CallTrigger
<1>8. ASSUME NEW g \in Graceful, MarkUnhealthy(g) PROVE IInv'
  BY <1>8, <1>6 DEF MarkUnhealthy
<1>9. ASSUME NEW g \in Graceful, DelayElapsed(g) PROVE IInv'
  BY <1>9, <1>6, Zenon DEF DelayElapsed, IInv, TypeOK
<1>10. CASE SignalReceived
  <2>1. /\ proc' \in [Procs -> Proc]
        /\ \A p \in Procs : RanSoFar(proc'[p])
        /\ \A p \in Procs : proc'[p].pc = "done" <=> proc[p].pc = "done"
    BY <1>0, <1>10, PreLoopMove DEF SignalReceived
  <2>2. sigChan' \in 0..1
    BY <1>10 DEF SignalReceived
  <2>3. TypeOK'
    BY <1>10, <2>1, <2>2, Zenon DEF SignalReceived, IInv, TypeOK
  <2>4. SignalSpawnedByStart'
    BY <1>10 DEF SignalReceived, IInv, SignalSpawnedByStart
  <2>. QED
    BY <1>10, <2>1, <2>3, <2>4 DEF SignalReceived, IInv, ClosedByFinisher
<1>11. ASSUME NEW x \in Procs, CopyHooks(x) PROVE IInv'
  <2> DEFINE r == [pc |-> "loop", snap |-> hooks, i |-> Len(hooks),
                   ran |-> proc[x].ran]
  <2>1. proc[x] \in Proc /\ proc[x].ran = << >>
    BY <1>0, <1>11 DEF CopyHooks, IInv, RanSoFar
  <2>2. r \in Proc
    BY <1>0, <2>1, LenProperties DEF Proc, PCs
  <2>3. proc' = [proc EXCEPT ![x] = r]
    BY <1>11 DEF CopyHooks
  <2>4. proc' \in [Procs -> Proc]
    BY <1>0, <2>2, <2>3
  <2>5. RanSoFar(r)
    BY <1>0, <2>1, LenProperties DEF RanSoFar
  <2>7. \A p \in Procs : RanSoFar(proc'[p])
    BY <1>0, <2>3, <2>5 DEF IInv
  <2>8. \A p \in Procs : proc'[p].pc = "done" <=> proc[p].pc = "done"
    BY <1>0, <1>11, <2>3 DEF CopyHooks
  <2>10. SignalSpawnedByStart'
    BY <1>0, <1>11, <2>3 DEF CopyHooks, IInv, SignalSpawnedByStart
  <2>9. TypeOK'
    BY <1>11, <2>4, Zenon DEF CopyHooks, IInv, TypeOK
  <2>. QED
    BY <1>11, <2>7, <2>8, <2>9, <2>10 DEF CopyHooks, IInv, ClosedByFinisher
<1>12. ASSUME NEW x \in Procs, RunHook(x) PROVE IInv'
  <2> DEFINE q == proc[x]
             s == q.snap
             n == Len(s)
             r == [pc |-> "loop", snap |-> s, i |-> q.i - 1,
                   ran |-> Append(q.ran, s[q.i])]
             rh == [pc |-> "hung", snap |-> s, i |-> q.i - 1,
                    ran |-> Append(q.ran, s[q.i])]
  <2>1. /\ q \in Proc /\ q.pc = "loop" /\ q.i \in 1..n
        /\ s \in Seq(HookNames) /\ q.ran \in Seq(HookNames)
        /\ Len(q.ran) = n - q.i
        /\ \A j \in 1..Len(q.ran) : q.ran[j] = s[n - j + 1]
    BY <1>0, <1>12 DEF RunHook, IInv, RanSoFar, Proc
  <2>2. proc' = [proc EXCEPT ![x] = r] \/ proc' = [proc EXCEPT ![x] = rh]
    BY <1>12 DEF RunHook
  <2> DEFINE a == Append(q.ran, s[q.i])
  <2>3. /\ a \in Seq(HookNames)
        /\ Len(a) = n - (q.i - 1)
        /\ \A j \in 1..Len(a) : a[j] = s[n - j + 1]
    <3>1. s[q.i] \in HookNames
      BY <2>1, ElementOfSeq
    <3>2. /\ a \in Seq(HookNames)
          /\ Len(a) = Len(q.ran) + 1
          /\ \A j \in 1..Len(q.ran) : a[j] = q.ran[j]
          /\ a[Len(q.ran) + 1] = s[q.i]
      BY <2>1, <3>1, AppendProperties
    <3>3. Len(q.ran) \in Nat /\ n \in Nat
      BY <2>1, LenProperties
    <3>4. Len(a) = n - (q.i - 1) /\ n - (Len(q.ran) + 1) + 1 = q.i
      BY <2>1, <3>2, <3>3
    <3>5. ASSUME NEW j \in 1..Len(a) PROVE a[j] = s[n - j + 1]
      <4>1. CASE j \in 1..Len(q.ran)
        BY <2>1, <3>2, <4>1
      <4>2. CASE j = Len(q.ran) + 1
        BY <3>2, <3>4, <4>2
      <4>. QED
        BY <3>2, <3>3, <4>1, <4>2
    <3>. QED
      BY <3>2, <3>4, <3>5
  <2>4. r \in Proc /\ rh \in Proc /\ RanSoFar(r) /\ RanSoFar(rh)
    <3>1. q.i - 1 \in Nat /\ q.i - 1 \in 0..n
      BY <2>1
    <3>2. r \in Proc /\ rh \in Proc
      BY <2>1, <2>3, <3>1 DEF Proc, PCs
    <3>3. RanSoFar(r)
      BY <2>3, <3>1 DEF RanSoFar
    <3>4. RanSoFar(rh)
      BY <2>3, <3>1 DEF RanSoFar
    <3>. QED
      BY <3>2, <3>3, <3>4
  <2>5. /\ proc' \in [Procs -> Proc]
        /\ \A p \in Procs : RanSoFar(proc'[p])
        /\ \A p \in Procs : proc'[p].pc = "done" <=> proc[p].pc = "done"
        /\ proc["signal"].pc = "absent" => proc'["signal"].pc = "absent"
    <3>1. proc[x].pc \in {"copy", "loop"} /\ \A p \in Procs : RanSoFar(proc[p])
      BY <2>1 DEF IInv
    <3>. QED
      BY <1>0, <2>2, <2>4, <3>1, LoopMove
  <2>6. TypeOK'
    BY <1>12, <2>5, Zenon DEF RunHook, IInv, TypeOK
  <2>. QED
    BY <1>12, <2>5, <2>6 DEF RunHook, IInv, ClosedByFinisher, SignalSpawnedByStart
<1>13. ASSUME NEW x \in Procs, CloseDone(x) PROVE IInv'
  <2>1. proc' \in [Procs -> Proc]
    BY <1>0, <1>13 DEF CloseDone, Proc, PCs
  <2>2. \A p \in Procs : RanSoFar(proc'[p])
    BY <1>0, <1>13 DEF CloseDone, IInv, RanSoFar
  <2>3. ClosedByFinisher'
    BY <1>0, <1>13 DEF CloseDone, ClosedByFinisher
  <2>4. SignalSpawnedByStart'
    BY <1>0, <1>13 DEF CloseDone, IInv, SignalSpawnedByStart
  <2>5. panicked' \in BOOLEAN /\ doneClosed' \in BOOLEAN
    BY <1>13 DEF CloseDone, IInv, TypeOK
  <2>6. TypeOK'
    BY <1>13, <2>1, <2>5, Zenon DEF CloseDone, IInv, TypeOK
  <2>. QED
    BY <2>2, <2>3, <2>4, <2>6 DEF IInv
<1>14. CASE UNCHANGED vars
  BY <1>14 DEF vars, IInv, TypeOK, RanSoFar, ClosedByFinisher, SignalSpawnedByStart
<1>. QED
  BY <1>1, <1>2, <1>3, <1>4, <1>5, <1>7, <1>8, <1>9, <1>10, <1>11, <1>12,
     <1>13, <1>14 DEF Next, ProcStep

-----------------------------------------------------------------------------
(***************************************************************************)
(* The refinement of HookShutdown.  Only IInv is needed: RanSoFar gives   *)
(* the abstract guards (a caller in the loop has run Len(snap) - i hooks, *)
(* so the next one, snap[i], is the last it has not run; at i = 0 it has  *)
(* run them all; before the copy it has run none).                        *)
(***************************************************************************)

\* The callers as the abstract manager sees them.
Runners == [p \in Procs |-> [phase |-> PhaseOf(proc[p].pc), snap |-> proc[p].snap,
                             ran |-> proc[p].ran]]

\* Moving a caller between the states before its copy changes nothing the
\* abstract manager sees.
LEMMA PreLoopInvisible ==
    ASSUME proc \in [Procs -> Proc], NEW x \in Procs,
           NEW v \in {"idle", "sleep", "copy"},
           proc[x].pc \in {"absent", "idle", "sleep"},
           proc' = [proc EXCEPT ![x].pc = v]
    PROVE  Runners' = Runners
BY DEF Runners, PhaseOf

LEMMA RefInit == Init => Hooks!Init
<1> SUFFICES ASSUME Init PROVE Hooks!Init
  OBVIOUS
<1>1. Runners = [c \in Procs |-> [phase |-> "waiting", snap |-> << >>, ran |-> << >>]]
  BY DEF Init, Runners, PhaseOf
<1>. QED
  BY <1>1 DEF Init, Hooks!Init, Runners

\* Every step of the manager is a step of HookShutdown or changes nothing
\* it sees: AddHook is Register, the copy is Begin, an iteration of the
\* loop is RunNext, close(m.done) is Finish.
LEMMA RefStep == IInv /\ [Next]_vars => [Hooks!Next]_Hooks!hvars
<1> SUFFICES ASSUME IInv, [Next]_vars PROVE [Hooks!Next]_Hooks!hvars
  OBVIOUS
<1>0. /\ proc \in [Procs -> Proc]
      /\ "signal" \in Procs
      /\ \A p \in Procs : RanSoFar(proc[p])
  BY DEF IInv, TypeOK, Procs
<1>1. ASSUME NEW h \in HookNames, AddHook(h) PROVE Hooks!Next
  <2>1. h \notin Hooks!Range(hooks)
    BY <1>1 DEF AddHook, Range, Hooks!Range
  <2>2. Runners' = Runners
    BY <1>1 DEF AddHook, Runners
  <2>3. Hooks!Register(h)
    BY <1>1, <2>1, <2>2 DEF AddHook, Hooks!Register, Runners
  <2>. QED
    BY <2>3 DEF Hooks!Next
<1>2. CASE StartClaim \/ Signal \/ Wait \/ UNCHANGED vars
  BY <1>2 DEF StartClaim, Signal, Wait, vars, Hooks!hvars
<1>3. CASE StartListen
  <2>1. proc["signal"].pc \in {"absent", "idle", "sleep"}
    BY <1>3 DEF StartListen, IInv, SignalSpawnedByStart
  <2>2. Runners' = Runners
    BY <1>0, <1>3, <2>1, PreLoopInvisible DEF StartListen
  <2>. QED
    BY <1>3, <2>2 DEF StartListen, Hooks!hvars, Runners
<1>4. CASE SignalReceived
  <2>1. Runners' = Runners
    BY <1>0, <1>4, PreLoopInvisible DEF SignalReceived
  <2>. QED
    BY <1>4, <2>1 DEF SignalReceived, Hooks!hvars, Runners
<1>5. ASSUME NEW x \in Triggers \cup Graceful,
             \/ CallTrigger(x) \/ MarkUnhealthy(x) \/ DelayElapsed(x)
      PROVE  [Hooks!Next]_Hooks!hvars
  <2>1. x \in Procs
    BY DEF Procs
  <2>2. Runners' = Runners
    BY <1>0, <1>5, <2>1, PreLoopInvisible DEF CallTrigger, MarkUnhealthy, DelayElapsed
  <2>. QED
    BY <1>5, <2>2 DEF CallTrigger, MarkUnhealthy, DelayElapsed, Hooks!hvars, Runners
<1>6. ASSUME NEW x \in Procs, CopyHooks(x) PROVE Hooks!Next
  <2>1. proc[x].ran = << >> /\ Runners[x].phase = "waiting"
    BY <1>0, <1>6 DEF CopyHooks, RanSoFar, Runners, PhaseOf
  <2>2. Runners' = [Runners EXCEPT ![x] = [phase |-> "running", snap |-> hooks,
                                           ran |-> << >>]]
    BY <1>0, <1>6, <2>1 DEF CopyHooks, Runners, PhaseOf
  <2>3. Hooks!Begin(x)
    BY <1>6, <2>1, <2>2 DEF CopyHooks, Hooks!Begin, Runners
  <2>. QED
    BY <2>3 DEF Hooks!Next
<1>7. ASSUME NEW x \in Procs, RunHook(x) PROVE Hooks!Next
  <2> DEFINE q == proc[x]
             n == Len(q.snap)
  <2>1. /\ q.pc = "loop" /\ q.i \in 1..n /\ Len(q.ran) = n - q.i
        /\ q.snap \in Seq(HookNames) /\ q.ran \in Seq(HookNames)
    BY <1>0, <1>7 DEF RunHook, RanSoFar, Proc
  <2>2. Len(q.ran) \in Nat /\ n \in Nat /\ Len(q.ran) < n /\ n - Len(q.ran) = q.i
    BY <2>1, LenProperties
  <2>3. PICK out \in Outcomes :
          proc' = [proc EXCEPT ![x] = [pc |-> IF out = "hang" THEN "hung" ELSE "loop",
                                       snap |-> q.snap, i |-> q.i - 1,
                                       ran |-> Append(q.ran, q.snap[q.i])]]
    BY <1>7 DEF RunHook
  <2>4. PhaseOf(IF out = "hang" THEN "hung" ELSE "loop") \in {"running", "stuck"}
    BY DEF PhaseOf
  <2>5. Runners' = [Runners EXCEPT ![x] =
                      [phase |-> PhaseOf(IF out = "hang" THEN "hung" ELSE "loop"),
                       snap |-> q.snap,
                       ran |-> Append(q.ran, q.snap[n - Len(q.ran)])]]
    BY <1>0, <2>2, <2>3 DEF Runners
  <2>6. Hooks!RunNext(x)
    BY <1>7, <2>1, <2>2, <2>4, <2>5 DEF RunHook, Hooks!RunNext, Runners, PhaseOf
  <2>. QED
    BY <2>6 DEF Hooks!Next
<1>8. ASSUME NEW x \in Procs, CloseDone(x) PROVE Hooks!Next
  <2>1. proc[x].pc = "loop" /\ Len(proc[x].ran) = Len(proc[x].snap)
    BY <1>0, <1>8 DEF CloseDone, RanSoFar
  <2>2. proc' = [proc EXCEPT ![x].pc = "done"]
    BY <1>8 DEF CloseDone
  <2>3. Runners' = [Runners EXCEPT ![x].phase = "finished"]
    <3>1. ASSUME NEW p \in Procs
          PROVE  Runners'[p] = [Runners EXCEPT ![x].phase = "finished"][p]
      <4>1. CASE p = x
        BY <1>0, <2>2, <4>1 DEF Runners, PhaseOf
      <4>2. CASE p # x
        BY <1>0, <2>2, <4>2 DEF Runners
      <4>. QED
        BY <4>1, <4>2
    <3>. QED
      BY <3>1 DEF Runners
  <2>4. doneClosed' = TRUE /\ UNCHANGED hooks
    BY <1>8 DEF CloseDone
  <2>5. Runners[x].phase = "running" /\ Len(Runners[x].ran) = Len(Runners[x].snap)
    BY <2>1 DEF Runners, PhaseOf
  <2>6. Hooks!Finish(x)
    BY <2>3, <2>4, <2>5 DEF Hooks!Finish, Runners
  <2>. QED
    BY <2>6 DEF Hooks!Next
<1>. QED
  BY <1>1, <1>2, <1>3, <1>4, <1>5, <1>6, <1>7, <1>8 DEF Next, ProcStep

(* Type correctness of the manager's state. *)
THEOREM TypeCorrect == Spec => []TypeOK
<1>1. IInv => TypeOK
  BY DEF IInv
<1>. QED
  BY IInvInit, IInvStep, <1>1, PTL DEF Spec

(* For any hooks and any callers of shutdown, the manager implements      *)
(* HookShutdown (HookShutdownSpec): each caller runs the hooks registered *)
(* when it copied them, last registered first, each once, whatever each  *)
(* returns, and done is closed only by a caller that has run all of them; *)
(* signals, triggers, the health flag and Wait change nothing it sees.    *)
THEOREM Refinement == Spec => HookShutdownSpec
<1>1. Spec => []IInv
  BY IInvInit, IInvStep, PTL DEF Spec
<1>. QED
  BY <1>1, RefInit, RefStep, PTL DEF Spec, HookShutdownSpec, Hooks!Spec
=============================================================================
