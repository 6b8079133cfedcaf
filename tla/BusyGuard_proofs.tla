-------------------------- MODULE BusyGuard_proofs --------------------------
(***************************************************************************)
(* Proofs about BusyGuard, for any threads and timeouts.                   *)
(***************************************************************************)
EXTENDS BusyGuard, TLAPS

\* The holder of the mutex is the thread between lock and unlock.
HolderInv ==
  \A t \in Threads : pc[t] \in {"locked", "held", "idle"} <=> mutex = t

\* What a caller has read is the timestamp of now, or that run is over.
SeenInv ==
  \A t \in Threads :
    /\ pc[t] \in {"decide", "wait"} =>
         /\ timeout[t] > 0
         /\ busySince = 0 \/ busySince >= readAt[t] \/ busySince = seen[t]
    /\ pc[t] = "wait" => seen[t] = 0 \/ readAt[t] - seen[t] <= timeout[t]
    /\ pc[t] = "read" => timeout[t] > 0

PolicyInv ==
  \A t \in Threads :
    /\ NoLongerThan(timeout[t], policy[t])
    /\ pc[t] = "out" => policy[t] = 0

GuardInv == TypeOK /\ HolderInv /\ TimestampMarksRun /\ SeenInv /\ PolicyInv

\* resolve_busy_timeout_ms never resolves to a longer wait than the ceiling
\* allows, and never to a longer one than the request asked for.
THEOREM ResolveRespectsPolicy ==
  ASSUME NEW ceiling \in Int, NEW requested \in Int \cup {Absent}
  PROVE  /\ NoLongerThan(ResolveTimeout(ceiling, requested), ceiling)
         /\ requested # Absent => NoLongerThan(ResolveTimeout(ceiling, requested), requested)
  BY TimeoutsAssumption DEF ResolveTimeout, NoLongerThan

LEMMA ResolveType ==
  ASSUME NEW ceiling \in Int, NEW requested \in Int \cup {Absent}
  PROVE  ResolveTimeout(ceiling, requested) \in Int
  BY TimeoutsAssumption DEF ResolveTimeout

LEMMA GuardInit == Init => GuardInv
  BY ThreadsAssumption
  DEF Init, GuardInv, TypeOK, Pcs, HolderInv, TimestampMarksRun, SeenInv, PolicyInv, NoLongerThan

LEMMA GuardStep == GuardInv /\ [Next]_vars => GuardInv'
<1> SUFFICES ASSUME GuardInv, [Next]_vars PROVE GuardInv'
  OBVIOUS
<1> USE ThreadsAssumption
        DEF GuardInv, TypeOK, Pcs, HolderInv, TimestampMarksRun, SeenInv, PolicyInv, Goto
<1>1. ASSUME NEW t \in Threads, NEW ceiling \in Ceilings,
             NEW requested \in Requested \cup {Absent}, Call(t, ceiling, requested)
      PROVE  GuardInv'
  <2>1. ceiling \in Int /\ requested \in Int \cup {Absent}
    BY TimeoutsAssumption
  <2>2. /\ ResolveTimeout(ceiling, requested) \in Int
        /\ NoLongerThan(ResolveTimeout(ceiling, requested), ceiling)
    BY <2>1, ResolveType, ResolveRespectsPolicy
  <2>3. /\ timeout' = [timeout EXCEPT ![t] = ResolveTimeout(ceiling, requested)]
        /\ policy' = [policy EXCEPT ![t] = ceiling]
        /\ UNCHANGED <<mutex, busySince, now, seen, readAt, deadline>>
        /\ \/ timeout'[t] <= 0 /\ pc' = [pc EXCEPT ![t] = "wait_unbounded"]
           \/ ~(timeout'[t] <= 0) /\ pc' = [pc EXCEPT ![t] = "read"]
        /\ pc[t] = "out"
    BY <1>1 DEF Call
  <2>4. TypeOK'
    BY <2>1, <2>2, <2>3
  <2>5. PolicyInv'
    BY <2>1, <2>2, <2>3, <2>4 DEF NoLongerThan
  <2>6. HolderInv' /\ TimestampMarksRun'
    BY <2>3
  <2>7. SeenInv'
    BY <2>2, <2>3
  <2> QED
    BY <2>4, <2>5, <2>6, <2>7
<1>2. ASSUME NEW t \in Threads, ReadSince(t) PROVE GuardInv'
  BY <1>2 DEF ReadSince
<1>3. ASSUME NEW t \in Threads, FailFast(t) \/ WaitTimesOut(t) PROVE GuardInv'
  BY <1>3, TimeoutsAssumption DEF FailFast, WaitTimesOut, Leave, NoLongerThan
<1>4. ASSUME NEW t \in Threads, StartWait(t) PROVE GuardInv'
  BY <1>4 DEF StartWait, HasOverrun
<1>5. ASSUME NEW t \in Threads, Lock(t) PROVE GuardInv'
  BY <1>5 DEF Lock
<1>6. ASSUME NEW t \in Threads, TryAcquire(t) PROVE GuardInv'
  BY <1>6 DEF TryAcquire
<1>7. ASSUME NEW t \in Threads, StoreBusySince(t) PROVE GuardInv'
  BY <1>7 DEF StoreBusySince
<1>8. ASSUME NEW t \in Threads, ClearBusySince(t) PROVE GuardInv'
  BY <1>8 DEF ClearBusySince
<1>9. ASSUME NEW t \in Threads, Unlock(t) PROVE GuardInv'
  BY <1>9, TimeoutsAssumption DEF Unlock, Leave, NoLongerThan
<1>10. CASE Tick
  BY <1>10 DEF Tick
<1>11. CASE UNCHANGED vars
  BY <1>11 DEF vars
<1> QED
  BY <1>1, <1>2, <1>3, <1>4, <1>5, <1>6, <1>7, <1>8, <1>9, <1>10, <1>11
  DEF Next, Enter, Waiting, Holding

LEMMA GuardInvariant == Spec => []GuardInv
  BY GuardInit, GuardStep, PTL DEF Spec

\* Type correctness, for any threads and any timeouts.
THEOREM GuardTypes == Spec => []TypeOK
<1>1. GuardInv => TypeOK
  BY DEF GuardInv
<1> QED
  BY GuardInvariant, <1>1, PTL

\* busy_since_ms_ is set exactly while a run holds the mutex.
THEOREM TimestampNeverStale == Spec => []TimestampMarksRun
<1>1. GuardInv => TimestampMarksRun
  BY DEF GuardInv
<1> QED
  BY GuardInvariant, <1>1, PTL

\* Callers do not queue behind a run they could see had overrun their bound.
THEOREM CallersDoNotPileUp == Spec => []NoPileUp
<1>1. GuardInv => NoPileUp
  BY DEF GuardInv, TypeOK, SeenInv, NoPileUp
<1> QED
  BY GuardInvariant, <1>1, PTL

\* No request waits longer than policy lets it.
THEOREM PolicyIsKept == Spec => []PolicyKept
<1>1. GuardInv => PolicyKept
  BY DEF GuardInv, PolicyInv, PolicyKept
<1> QED
  BY GuardInvariant, <1>1, PTL

\* With its timestamp and its clock forgotten, the guard is a lock.
THEOREM GuardIsALock == Spec => IsRunGuard
<1>1. Init => Abstract!Init
  BY DEF Init, Abstract!Init
<1>2. GuardInv /\ [Next]_vars => [Abstract!Next]_mutex
  <2> SUFFICES ASSUME GuardInv, [Next]_vars PROVE Abstract!Next \/ UNCHANGED mutex
    OBVIOUS
  <2> USE DEF GuardInv, TypeOK, HolderInv, Abstract!Next, Abstract!Acquire, Abstract!Release
  <2>1. ASSUME NEW t \in Threads, Lock(t) \/ TryAcquire(t)
        PROVE  Abstract!Next
    BY <2>1 DEF Lock, TryAcquire
  <2>2. ASSUME NEW t \in Threads, Unlock(t)
        PROVE  Abstract!Next
    BY <2>2 DEF Unlock
  <2>3. ASSUME NEW t \in Threads, NEW ceiling \in Ceilings,
               NEW requested \in Requested \cup {Absent}, Call(t, ceiling, requested)
        PROVE  UNCHANGED mutex
    BY <2>3 DEF Call
  <2>4. ASSUME NEW t \in Threads,
               \/ ReadSince(t) \/ FailFast(t) \/ StartWait(t) \/ WaitTimesOut(t)
               \/ StoreBusySince(t) \/ ClearBusySince(t)
        PROVE  UNCHANGED mutex
    BY <2>4 DEF ReadSince, FailFast, StartWait, WaitTimesOut, StoreBusySince, ClearBusySince
  <2>5. CASE Tick \/ UNCHANGED vars
    BY <2>5 DEF Tick, vars
  <2> QED
    BY <2>1, <2>2, <2>3, <2>4, <2>5 DEF Next, Enter, Waiting, Holding
<1> QED
  BY GuardInvariant, <1>1, <1>2, PTL DEF Spec, IsRunGuard, Abstract!Spec
=============================================================================
