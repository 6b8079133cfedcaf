------------------------------ MODULE RunGuard ------------------------------
(***************************************************************************)
(* What a BusyGuard promises (app/server/busy_guard.h): one run at a time  *)
(* on a model.  Who is turned away, and when, is not part of it.           *)
(***************************************************************************)
CONSTANTS Threads, Nobody

VARIABLE holder

Init == holder = Nobody

Acquire(t) == holder = Nobody /\ holder' = t
Release(t) == holder = t /\ holder' = Nobody

Next == \E t \in Threads : Acquire(t) \/ Release(t)

Spec == Init /\ [][Next]_holder
=============================================================================
