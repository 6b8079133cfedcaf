----------------------------- MODULE BusyGuard ------------------------------
(***************************************************************************)
(* BusyGuard (app/server/busy_guard.h): the guard that serialises the runs *)
(* of one model.  A std::timed_mutex is paired with an atomic timestamp,   *)
(* busy_since_ms_, that callers read without the mutex; the two are        *)
(* written in separate steps, and time passes between any two steps.       *)
(***************************************************************************)
EXTENDS Integers

CONSTANTS
  Threads,
  Nobody,       \* the unlocked mutex
  Ceilings,     \* values of busy_timeout_ms in the configuration
  Requested,    \* values of busy_timeout_ms in a request
  Absent,       \* a request without one
  MaxTime       \* bound of the clock

ASSUME ThreadsAssumption == Nobody \notin Threads
ASSUME TimeoutsAssumption ==
  /\ Ceilings \subseteq Int
  /\ Requested \subseteq Int
  /\ Absent \notin Int
  /\ MaxTime \in Nat

VARIABLES
  mutex,      \* thread that holds mutex_
  busySince,  \* busy_since_ms_
  now,        \* steady_now_ms(): never 0 once the machine is up
  pc,
  policy,     \* thread -> the ceiling of its request
  timeout,    \* thread -> its resolved timeout
  seen,       \* thread -> busy_since_ms_ as it read it
  readAt,     \* thread -> when it did
  deadline    \* thread -> when try_lock_for gives up

vars == <<mutex, busySince, now, pc, policy, timeout, seen, readAt, deadline>>

Pcs == {"out", "read", "decide", "wait", "wait_unbounded", "locked", "held", "idle"}

----------------------------------------------------------------------------
(* resolve_busy_timeout_ms and model_run_has_overrun.                      *)

ResolveTrusting(ceiling, requested) ==
  IF requested = Absent THEN ceiling ELSE requested
ResolveTimeout(ceiling, requested) ==
  IF requested = Absent THEN ceiling
  ELSE IF requested <= 0 THEN ceiling
  ELSE IF ceiling <= 0 THEN requested
  ELSE IF requested < ceiling THEN requested ELSE ceiling

HasOverrunNever(since, time, limit) == FALSE
HasOverrun(since, time, limit) ==
  limit > 0 /\ since # 0 /\ time - since > limit

----------------------------------------------------------------------------
Init ==
  /\ mutex = Nobody
  /\ busySince = 0
  /\ now = 1
  /\ pc = [t \in Threads |-> "out"]
  /\ policy = [t \in Threads |-> 0]
  /\ timeout = [t \in Threads |-> 0]
  /\ seen = [t \in Threads |-> 0]
  /\ readAt = [t \in Threads |-> 0]
  /\ deadline = [t \in Threads |-> 0]

Goto(t, label) == pc' = [pc EXCEPT ![t] = label]

\* acquire_model_run: the timeout is resolved, then acquire is entered.
Call(t, ceiling, requested) ==
  /\ pc[t] = "out"
  /\ policy' = [policy EXCEPT ![t] = ceiling]
  /\ timeout' = [timeout EXCEPT ![t] = ResolveTimeout(ceiling, requested)]
  /\ Goto(t, IF timeout'[t] <= 0 THEN "wait_unbounded" ELSE "read")
  /\ UNCHANGED <<mutex, busySince, now, seen, readAt, deadline>>

\* The load of busy_since_ms_; the clock is read after it.
ReadSince(t) ==
  /\ pc[t] = "read"
  /\ seen' = [seen EXCEPT ![t] = busySince]
  /\ readAt' = [readAt EXCEPT ![t] = now]
  /\ Goto(t, "decide")
  /\ UNCHANGED <<mutex, busySince, now, policy, timeout, deadline>>

\* A call that has ended leaves nothing behind.
Leave(t) ==
  /\ Goto(t, "out")
  /\ policy' = [policy EXCEPT ![t] = 0]
  /\ timeout' = [timeout EXCEPT ![t] = 0]
  /\ seen' = [seen EXCEPT ![t] = 0]
  /\ readAt' = [readAt EXCEPT ![t] = 0]
  /\ deadline' = [deadline EXCEPT ![t] = 0]

FailFast(t) ==
  /\ pc[t] = "decide"
  /\ HasOverrun(seen[t], now, timeout[t])
  /\ Leave(t)
  /\ UNCHANGED <<mutex, busySince, now>>

StartWait(t) ==
  /\ pc[t] = "decide"
  /\ ~HasOverrun(seen[t], now, timeout[t])
  /\ deadline' = [deadline EXCEPT ![t] = now + timeout[t]]
  /\ Goto(t, "wait")
  /\ UNCHANGED <<mutex, busySince, now, policy, timeout, seen, readAt>>

\* lock, try_lock_for and try_lock: the mutex is free.
Lock(t) ==
  /\ pc[t] \in {"wait", "wait_unbounded"}
  /\ mutex = Nobody
  /\ mutex' = t
  /\ Goto(t, "locked")
  /\ UNCHANGED <<busySince, now, policy, timeout, seen, readAt, deadline>>

WaitTimesOut(t) ==
  /\ pc[t] = "wait"
  /\ mutex # Nobody
  /\ now >= deadline[t]
  /\ Leave(t)
  /\ UNCHANGED <<mutex, busySince, now>>

TryAcquireUnchecked(t) ==
  /\ pc[t] = "out"
  /\ mutex' = t
  /\ Goto(t, "locked")
  /\ UNCHANGED <<busySince, now, policy, timeout, seen, readAt, deadline>>
TryAcquire(t) ==
  /\ pc[t] = "out"
  /\ mutex = Nobody
  /\ mutex' = t
  /\ Goto(t, "locked")
  /\ UNCHANGED <<busySince, now, policy, timeout, seen, readAt, deadline>>

StoreDeadline(t) ==
  /\ pc[t] = "locked"
  /\ busySince' = now + 1
  /\ Goto(t, "held")
  /\ UNCHANGED <<mutex, now, policy, timeout, seen, readAt, deadline>>
StoreBusySince(t) ==
  /\ pc[t] = "locked"
  /\ busySince' = now
  /\ Goto(t, "held")
  /\ UNCHANGED <<mutex, now, policy, timeout, seen, readAt, deadline>>

\* ~Lock: its body clears the timestamp, then the member lock_ unlocks.
ClearForgotten(t) ==
  /\ pc[t] = "held"
  /\ Goto(t, "idle")
  /\ UNCHANGED <<mutex, busySince, now, policy, timeout, seen, readAt, deadline>>
ClearBusySince(t) ==
  /\ pc[t] = "held"
  /\ busySince' = 0
  /\ Goto(t, "idle")
  /\ UNCHANGED <<mutex, now, policy, timeout, seen, readAt, deadline>>

Unlock(t) ==
  /\ pc[t] = "idle"
  /\ mutex' = Nobody
  /\ Leave(t)
  /\ UNCHANGED <<busySince, now>>

Tick ==
  /\ now < MaxTime
  /\ now' = now + 1
  /\ UNCHANGED <<mutex, busySince, pc, policy, timeout, seen, readAt, deadline>>

Enter(t) ==
  \/ \E ceiling \in Ceilings, requested \in Requested \cup {Absent} :
       Call(t, ceiling, requested)
  \/ TryAcquire(t)

Waiting(t) == ReadSince(t) \/ FailFast(t) \/ StartWait(t) \/ Lock(t) \/ WaitTimesOut(t)
Holding(t) == StoreBusySince(t) \/ ClearBusySince(t) \/ Unlock(t)

Next == Tick \/ \E t \in Threads : Enter(t) \/ Waiting(t) \/ Holding(t)

Spec == Init /\ [][Next]_vars

----------------------------------------------------------------------------
(* Properties.                                                             *)

TypeOK ==
  /\ mutex \in Threads \cup {Nobody}
  /\ busySince \in 0..now
  /\ now \in Nat \ {0}
  /\ pc \in [Threads -> Pcs]
  /\ policy \in [Threads -> Int]
  /\ timeout \in [Threads -> Int]
  /\ seen \in [Threads -> Nat]
  /\ readAt \in [Threads -> 0..now]
  /\ deadline \in [Threads -> Int]

\* The timestamp is set exactly while the mutex holder runs: no caller is
\* turned away for a run that has ended, and no run under way is invisible to
\* the fail-fast check (busy_guard.h 76-78 "so the fail-fast check never sees
\* a stale timestamp").
TimestampMarksRun ==
  /\ busySince # 0 => mutex # Nobody /\ pc[mutex] = "held"
  /\ \A t \in Threads : pc[t] = "held" => busySince # 0 /\ mutex = t

\* No caller with a bound queues behind a run that had already overrun that
\* bound when the caller looked (busy_guard.h 107-109).
NoPileUp ==
  \A t \in Threads :
    pc[t] = "wait" /\ busySince # 0 => readAt[t] - busySince <= timeout[t]

\* A request never waits longer than policy allows, 0 being no bound at all
\* (busy_guard.h 46-51 "a client cannot weaken the guard").
NoLongerThan(a, b) == b <= 0 \/ (a > 0 /\ a <= b)

PolicyKept ==
  \A t \in Threads : pc[t] # "out" => NoLongerThan(timeout[t], policy[t])

\* The guard, its timestamp and its clock aside, is a lock with one holder.
Abstract == INSTANCE RunGuard WITH holder <- mutex
IsRunGuard == Abstract!Spec
=============================================================================
