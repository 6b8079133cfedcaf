---------------------------- MODULE PackageStore ----------------------------
(***************************************************************************)
(* What the installer promises of packages that share nothing, without a   *)
(* word of downloads, staging directories or threads: every package has    *)
(* its own job, comes into being by its own installation only, and is      *)
(* taken apart only by a request made of it.  What is reported complete    *)
(* was there, and what was stopped is reported cancelled.  It does not     *)
(* promise that what was stopped stays unpublished.                        *)
(***************************************************************************)
CONSTANT Packages

VARIABLES
  job,         \* package -> "none", "active", "stopping", or how its last job ended
  whole,       \* package -> all its files are in their place
  replacing    \* package -> its job may overwrite

vars == <<job, whole, replacing>>

Idle(p) == job[p] \notin {"active", "stopping"}

Init ==
  /\ job = [p \in Packages |-> "none"]
  /\ whole = [p \in Packages |-> FALSE]
  /\ replacing = [p \in Packages |-> FALSE]

Start(p) ==
  /\ Idle(p)
  /\ job' = [job EXCEPT ![p] = "active"]
  /\ \E replace \in BOOLEAN : replacing' = [replacing EXCEPT ![p] = replace]
  /\ UNCHANGED whole

Stop(p) ==
  /\ job[p] = "active"
  /\ job' = [job EXCEPT ![p] = "stopping"]
  /\ UNCHANGED <<whole, replacing>>

\* The last file is in its place.  A stop may be too late for it: the store
\* grants what NotPublishedOnceStopped denies, and run InstallerStopped shows.
Arrive(p) ==
  /\ ~Idle(p)
  /\ whole' = [whole EXCEPT ![p] = TRUE]
  /\ UNCHANGED <<job, replacing>>

\* An installation that may overwrite loses what was there.
Break(p) ==
  /\ ~Idle(p)
  /\ replacing[p]
  /\ whole' = [whole EXCEPT ![p] = FALSE]
  /\ UNCHANGED <<job, replacing>>

End(p) ==
  /\ \/ job[p] = "active" /\ whole[p] /\ job' = [job EXCEPT ![p] = "complete"]
     \/ job[p] = "active" /\ job' = [job EXCEPT ![p] = "failed"]
     \/ job[p] = "stopping" /\ job' = [job EXCEPT ![p] = "cancelled"]
  /\ replacing' = [replacing EXCEPT ![p] = FALSE]
  /\ UNCHANGED whole

\* A removal takes the package apart and, like a clean-up, ends by forgetting
\* the job.
Remove(p) ==
  /\ Idle(p)
  /\ whole' = [whole EXCEPT ![p] = FALSE]
  /\ UNCHANGED <<job, replacing>>

Forget(p) ==
  /\ Idle(p)
  /\ job' = [job EXCEPT ![p] = "none"]
  /\ UNCHANGED <<whole, replacing>>

\* Another models root.
Reset ==
  /\ \A p \in Packages : Idle(p)
  /\ job' = [p \in Packages |-> "none"]
  /\ whole' = [p \in Packages |-> FALSE]
  /\ UNCHANGED replacing

Next ==
  \/ \E p \in Packages :
       \/ Start(p) \/ Stop(p) \/ Arrive(p) \/ Break(p) \/ End(p)
       \/ Remove(p) \/ Forget(p)
  \/ Reset

Spec == Init /\ [][Next]_vars
=============================================================================
