----------------------- MODULE ModelInstaller_proofs -----------------------
(***************************************************************************)
(* What ModelInstaller keeps for any catalog and any number of callers:    *)
(* type correctness, WorkerHasJob and StagingNotForgotten; and, where no     *)
(* clean-up matches another package's staging directory and no file is     *)
(* shared, CompleteIsInstalled and the refinement of PackageStore.         *)
(***************************************************************************)
EXTENDS ModelInstaller, TLAPS

\* A request that holds model_installer_mutex_ works on a package whose job
\* is not active: the check at its start stays true to its end.
CallInv == \A c \in Callers : caller[c] # "ready" => Idle(target[c])

\* A staging directory that nobody tried to remove exists only while install is
\* inside its try block, and nothing is staged outside one; one that could not
\* be removed belongs to a worker that has a failure to report, or had.
StagingInv ==
  \A p \in Packages :
    /\ staged[p] # {} => staging[p] = "present"
    /\ staging[p] = "present" =>
         worker[p] \in {"download", "list", "publish", "unwind"}
    /\ staging[p] = "stuck" =>
         worker[p] \in {"report_failure", "none"} /\ job[p] # "complete"

InstallerInv == TypeOK /\ WorkerHasJob /\ CallInv /\ StagingInv

\* Some package stands for "none" in target.
LEMMA SomePackage == (CHOOSE p \in Packages : TRUE) \in Packages
  BY CatalogAssumption

LEMMA InitEstablishes == Init => InstallerInv
<1> SUFFICES ASSUME Init PROVE InstallerInv
  OBVIOUS
<1>1. TypeOK
  BY SomePackage, CallersAssumption
  DEF Init, TypeOK, Active, Over, WorkerPcs, CallerPcs, StagingStates
<1>2. WorkerHasJob /\ CallInv /\ StagingInv
  BY DEF Init, WorkerHasJob, CallInv, StagingInv, Active
<1> QED
  BY <1>1, <1>2 DEF InstallerInv

\* No step leaves the types.
LEMMA TypesKept == TypeOK /\ [Next]_vars => TypeOK'
<1> SUFFICES ASSUME TypeOK, [Next]_vars PROVE TypeOK'
  OBVIOUS
<1> USE CatalogAssumption, CallersAssumption, SomePackage
    DEF TypeOK, vars, jobVars, workerVars, callVars, Active, Over, WorkerPcs,
        CallerPcs, StagingStates
<1>1. ASSUME NEW p \in Packages, WorkerStart(p) PROVE TypeOK'
  BY <1>1 DEF WorkerStart, WorkerGoto
<1>2. ASSUME NEW p \in Packages, Plan(p) PROVE TypeOK'
  BY <1>2 DEF Plan, WorkerGoto
<1>3. ASSUME NEW p \in Packages, AlreadyInstalled(p) PROVE TypeOK'
  BY <1>3 DEF AlreadyInstalled, WorkerGoto
<1>4. ASSUME NEW p \in Packages, LastCancelCheck(p) PROVE TypeOK'
  BY <1>4 DEF LastCancelCheck, WorkerGoto
<1>5. ASSUME NEW p \in Packages, ListStaged(p) PROVE TypeOK'
  BY <1>5 DEF ListStaged, WorkerGoto
<1>6. ASSUME NEW p \in Packages, Published(p) PROVE TypeOK'
  BY <1>6 DEF Published, WorkerGoto
<1>7. ASSUME NEW p \in Packages, WriteManifest(p) PROVE TypeOK'
  BY <1>7 DEF WriteManifest, WorkerGoto
<1>8. ASSUME NEW p \in Packages, Throw(p) PROVE TypeOK'
  BY <1>8 DEF Throw, WorkerGoto
<1>9. ASSUME NEW p \in Packages, Unwind(p) PROVE TypeOK'
  BY <1>9 DEF Unwind, WorkerGoto
<1>10. ASSUME NEW p \in Packages, Report(p) PROVE TypeOK'
  BY <1>10 DEF Report, Ended, WorkerGoto
<1>11. ASSUME NEW p \in Packages, ReportFailure(p) PROVE TypeOK'
  BY <1>11 DEF ReportFailure, Ended, WorkerGoto
<1>12. ASSUME NEW p \in Packages, NEW f \in Paths, Download(p, f) PROVE TypeOK'
  BY <1>12 DEF Download
<1>13. ASSUME NEW p \in Packages, NEW f \in Paths, Move(p, f) PROVE TypeOK'
  BY <1>13 DEF Move
<1>14. ASSUME NEW p \in Packages, NEW f \in Paths, MoveLosesFile(p, f) PROVE TypeOK'
  BY <1>14 DEF MoveLosesFile, WorkerGoto
<1>15. ASSUME NEW c \in Callers, CleanStaging(c) PROVE TypeOK'
  BY <1>15 DEF CleanStaging, Vanish, Cleaned
<1>16. ASSUME NEW c \in Callers, CleanErase(c) PROVE TypeOK'
  BY <1>16 DEF CleanErase, Leave, EraseJob
<1>17. ASSUME NEW c \in Callers, RemovePlan(c) PROVE TypeOK'
  BY <1>17 DEF RemovePlan
<1>18. ASSUME NEW c \in Callers, RemoveDone(c) PROVE TypeOK'
  BY <1>18 DEF RemoveDone, Leave, EraseJob
<1>19. ASSUME NEW c \in Callers, RemoveThrows(c) PROVE TypeOK'
  BY <1>19 DEF RemoveThrows, Leave
<1>20. ASSUME NEW c \in Callers, SetModelsRoot(c) PROVE TypeOK'
  BY <1>20 DEF SetModelsRoot, MayCall
<1>21. ASSUME NEW c \in Callers, NEW f \in Paths, RemoveFile(c, f) PROVE TypeOK'
  BY <1>21 DEF RemoveFile
<1>22. ASSUME NEW c \in Callers, NEW p \in Packages, NEW replace \in BOOLEAN,
             Start(c, p, replace) PROVE TypeOK'
  BY <1>22 DEF Start, MayCall
<1>23. ASSUME NEW c \in Callers, NEW p \in Packages, Stop(c, p) PROVE TypeOK'
  BY <1>23 DEF Stop, MayCall
<1>24. ASSUME NEW c \in Callers, NEW p \in Packages,
             NEW label \in {"clean", "remove"}, Enter(c, p, label) PROVE TypeOK'
  BY <1>24 DEF Enter, MayCall
<1>25. CASE UNCHANGED vars
  BY <1>25
<1>26. ASSUME NEW c \in Callers, CleanThrows(c) PROVE TypeOK'
  BY <1>26 DEF CleanThrows, Leave, Vanish
<1> HIDE DEF TypeOK, vars
<1> QED
  BY <1>1, <1>2, <1>3, <1>4, <1>5, <1>6, <1>7, <1>8, <1>9, <1>10, <1>11,
     <1>12, <1>13, <1>14, <1>15, <1>16, <1>17, <1>18, <1>19, <1>20, <1>21,
     <1>22, <1>23, <1>24, <1>25, <1>26 DEF Next, Work, Serve, Request

\* No step takes a worker's job away, nor starts one behind a request's back.
LEMMA JobsKept ==
  TypeOK /\ WorkerHasJob /\ CallInv /\ [Next]_vars => WorkerHasJob' /\ CallInv'
<1> SUFFICES ASSUME TypeOK, WorkerHasJob, CallInv, [Next]_vars
             PROVE  WorkerHasJob' /\ CallInv'
  OBVIOUS
<1> USE CallersAssumption, SomePackage DEF TypeOK, WorkerHasJob, CallInv, Idle,
         vars, jobVars, workerVars, callVars, Active, Over, WorkerPcs, CallerPcs
<1>1. ASSUME NEW p \in Packages, WorkerStart(p) PROVE WorkerHasJob' /\ CallInv'
  BY <1>1 DEF WorkerStart, WorkerGoto
<1>2. ASSUME NEW p \in Packages, Plan(p) PROVE WorkerHasJob' /\ CallInv'
  BY <1>2 DEF Plan, WorkerGoto
<1>3. ASSUME NEW p \in Packages, AlreadyInstalled(p)
             PROVE  WorkerHasJob' /\ CallInv'
  BY <1>3 DEF AlreadyInstalled, WorkerGoto
<1>4. ASSUME NEW p \in Packages, LastCancelCheck(p)
             PROVE  WorkerHasJob' /\ CallInv'
  BY <1>4 DEF LastCancelCheck, WorkerGoto
<1>5. ASSUME NEW p \in Packages, ListStaged(p) PROVE WorkerHasJob' /\ CallInv'
  BY <1>5 DEF ListStaged, WorkerGoto
<1>6. ASSUME NEW p \in Packages, Published(p) PROVE WorkerHasJob' /\ CallInv'
  BY <1>6 DEF Published, WorkerGoto
<1>7. ASSUME NEW p \in Packages, WriteManifest(p)
             PROVE  WorkerHasJob' /\ CallInv'
  BY <1>7 DEF WriteManifest, WorkerGoto
<1>8. ASSUME NEW p \in Packages, Throw(p) PROVE WorkerHasJob' /\ CallInv'
  BY <1>8 DEF Throw, WorkerGoto
<1>9. ASSUME NEW p \in Packages, Unwind(p) PROVE WorkerHasJob' /\ CallInv'
  BY <1>9 DEF Unwind, WorkerGoto
<1>10. ASSUME NEW p \in Packages, Report(p) PROVE WorkerHasJob' /\ CallInv'
  BY <1>10 DEF Report, Ended, WorkerGoto
<1>11. ASSUME NEW p \in Packages, ReportFailure(p)
             PROVE  WorkerHasJob' /\ CallInv'
  BY <1>11 DEF ReportFailure, Ended, WorkerGoto
<1>12. ASSUME NEW p \in Packages, NEW f \in Paths, Download(p, f)
             PROVE  WorkerHasJob' /\ CallInv'
  BY <1>12 DEF Download
<1>13. ASSUME NEW p \in Packages, NEW f \in Paths, Move(p, f)
             PROVE  WorkerHasJob' /\ CallInv'
  BY <1>13 DEF Move
<1>14. ASSUME NEW p \in Packages, NEW f \in Paths, MoveLosesFile(p, f)
             PROVE  WorkerHasJob' /\ CallInv'
  BY <1>14 DEF MoveLosesFile, WorkerGoto
<1>15. ASSUME NEW c \in Callers, CleanStaging(c)
             PROVE  WorkerHasJob' /\ CallInv'
  BY <1>15 DEF CleanStaging, Vanish
<1>16. ASSUME NEW c \in Callers, CleanErase(c) PROVE WorkerHasJob' /\ CallInv'
  BY <1>16 DEF CleanErase, Leave, EraseJob
<1>17. ASSUME NEW c \in Callers, RemovePlan(c) PROVE WorkerHasJob' /\ CallInv'
  BY <1>17 DEF RemovePlan
<1>18. ASSUME NEW c \in Callers, RemoveDone(c) PROVE WorkerHasJob' /\ CallInv'
  BY <1>18 DEF RemoveDone, Leave, EraseJob
<1>19. ASSUME NEW c \in Callers, RemoveThrows(c)
             PROVE  WorkerHasJob' /\ CallInv'
  BY <1>19 DEF RemoveThrows, Leave
<1>20. ASSUME NEW c \in Callers, SetModelsRoot(c)
             PROVE  WorkerHasJob' /\ CallInv'
  BY <1>20 DEF SetModelsRoot, MayCall
<1>21. ASSUME NEW c \in Callers, NEW f \in Paths, RemoveFile(c, f)
             PROVE  WorkerHasJob' /\ CallInv'
  BY <1>21 DEF RemoveFile
<1>22. ASSUME NEW c \in Callers, NEW p \in Packages, NEW replace \in BOOLEAN,
             Start(c, p, replace) PROVE WorkerHasJob' /\ CallInv'
  BY <1>22 DEF Start, MayCall
<1>23. ASSUME NEW c \in Callers, NEW p \in Packages, Stop(c, p)
             PROVE  WorkerHasJob' /\ CallInv'
  BY <1>23 DEF Stop, MayCall
<1>24. ASSUME NEW c \in Callers, NEW p \in Packages,
             NEW label \in {"clean", "remove"}, Enter(c, p, label)
             PROVE  WorkerHasJob' /\ CallInv'
  BY <1>24 DEF Enter, MayCall
<1>25. CASE UNCHANGED vars
  BY <1>25
<1>26. ASSUME NEW c \in Callers, CleanThrows(c) PROVE WorkerHasJob' /\ CallInv'
  BY <1>26 DEF CleanThrows, Leave, Vanish
<1> HIDE DEF TypeOK, vars
<1> QED
  BY <1>1, <1>2, <1>3, <1>4, <1>5, <1>6, <1>7, <1>8, <1>9, <1>10, <1>11,
     <1>12, <1>13, <1>14, <1>15, <1>16, <1>17, <1>18, <1>19, <1>20, <1>21,
     <1>22, <1>23, <1>24, <1>25, <1>26 DEF Next, Work, Serve, Request

\* No step leaves a staging directory behind.
LEMMA StagingKept == TypeOK /\ WorkerHasJob /\ StagingInv /\ [Next]_vars => StagingInv'
<1> SUFFICES ASSUME TypeOK, WorkerHasJob, StagingInv, [Next]_vars
             PROVE  StagingInv'
  OBVIOUS
<1> USE DEF TypeOK, WorkerHasJob, StagingInv, StagingStates,
            vars, jobVars, workerVars, callVars, Active
<1>1. ASSUME NEW p \in Packages, WorkerStart(p) PROVE StagingInv'
  BY <1>1 DEF WorkerStart, WorkerGoto
<1>2. ASSUME NEW p \in Packages, Plan(p) PROVE StagingInv'
  BY <1>2 DEF Plan, WorkerGoto
<1>3. ASSUME NEW p \in Packages, AlreadyInstalled(p) PROVE StagingInv'
  BY <1>3 DEF AlreadyInstalled, WorkerGoto
<1>4. ASSUME NEW p \in Packages, LastCancelCheck(p) PROVE StagingInv'
  BY <1>4 DEF LastCancelCheck, WorkerGoto
<1>5. ASSUME NEW p \in Packages, ListStaged(p) PROVE StagingInv'
  BY <1>5 DEF ListStaged, WorkerGoto
<1>6. ASSUME NEW p \in Packages, Published(p) PROVE StagingInv'
  BY <1>6 DEF Published, WorkerGoto
<1>7. ASSUME NEW p \in Packages, WriteManifest(p) PROVE StagingInv'
  BY <1>7 DEF WriteManifest, WorkerGoto
<1>8. ASSUME NEW p \in Packages, Throw(p) PROVE StagingInv'
  BY <1>8 DEF Throw, WorkerGoto
<1>9. ASSUME NEW p \in Packages, Unwind(p) PROVE StagingInv'
  BY <1>9 DEF Unwind, WorkerGoto
<1>10. ASSUME NEW p \in Packages, Report(p) PROVE StagingInv'
  BY <1>10 DEF Report, Ended, WorkerGoto
<1>11. ASSUME NEW p \in Packages, ReportFailure(p) PROVE StagingInv'
  BY <1>11 DEF ReportFailure, Ended, WorkerGoto
<1>12. ASSUME NEW p \in Packages, NEW f \in Paths, Download(p, f) PROVE StagingInv'
  BY <1>12 DEF Download
<1>13. ASSUME NEW p \in Packages, NEW f \in Paths, Move(p, f) PROVE StagingInv'
  BY <1>13 DEF Move
<1>14. ASSUME NEW p \in Packages, NEW f \in Paths, MoveLosesFile(p, f) PROVE StagingInv'
  BY <1>14 DEF MoveLosesFile, WorkerGoto
<1>15. ASSUME NEW c \in Callers, CleanStaging(c) PROVE StagingInv'
  BY <1>15 DEF CleanStaging, Vanish
<1>16. ASSUME NEW c \in Callers, CleanErase(c) PROVE StagingInv'
  BY <1>16 DEF CleanErase, Leave, EraseJob
<1>17. ASSUME NEW c \in Callers, RemovePlan(c) PROVE StagingInv'
  BY <1>17 DEF RemovePlan
<1>18. ASSUME NEW c \in Callers, RemoveDone(c) PROVE StagingInv'
  BY <1>18 DEF RemoveDone, Leave, EraseJob
<1>19. ASSUME NEW c \in Callers, RemoveThrows(c) PROVE StagingInv'
  BY <1>19 DEF RemoveThrows, Leave
<1>20. ASSUME NEW c \in Callers, SetModelsRoot(c) PROVE StagingInv'
  BY <1>20 DEF SetModelsRoot, Idle
<1>21. ASSUME NEW c \in Callers, NEW f \in Paths, RemoveFile(c, f) PROVE StagingInv'
  BY <1>21 DEF RemoveFile
<1>22. ASSUME NEW c \in Callers, NEW p \in Packages, NEW replace \in BOOLEAN,
             Start(c, p, replace) PROVE StagingInv'
  BY <1>22 DEF Start, Idle
<1>23. ASSUME NEW c \in Callers, NEW p \in Packages, Stop(c, p) PROVE StagingInv'
  BY <1>23 DEF Stop
<1>24. ASSUME NEW c \in Callers, NEW p \in Packages,
             NEW label \in {"clean", "remove"}, Enter(c, p, label) PROVE StagingInv'
  BY <1>24 DEF Enter
<1>25. CASE UNCHANGED vars
  BY <1>25
<1>26. ASSUME NEW c \in Callers, CleanThrows(c) PROVE StagingInv'
  BY <1>26 DEF CleanThrows, Leave, Vanish
<1> HIDE DEF TypeOK, vars
<1> QED
  BY <1>1, <1>2, <1>3, <1>4, <1>5, <1>6, <1>7, <1>8, <1>9, <1>10, <1>11,
     <1>12, <1>13, <1>14, <1>15, <1>16, <1>17, <1>18, <1>19, <1>20, <1>21,
     <1>22, <1>23, <1>24, <1>25, <1>26 DEF Next, Work, Serve, Request

\* Jobs, workers, requests and staging directories go together as
\* model_installer_mutex_ and the catch blocks of install have it.
THEOREM InstallerInvariant == Spec => []InstallerInv
<1>1. InstallerInv /\ [Next]_vars => InstallerInv'
  BY TypesKept, JobsKept, StagingKept DEF InstallerInv
<1> QED
  BY InitEstablishes, <1>1, PTL DEF Spec

\* Type correctness for any catalog and any number of callers.
THEOREM InstallerTypes == Spec => []TypeOK
<1>1. InstallerInv => TypeOK
  BY DEF InstallerInv
<1> QED
  BY InstallerInvariant, <1>1, PTL

\* jobs.at never throws in a worker, and no job is active without a worker.
THEOREM WorkersHaveJobs == Spec => []WorkerHasJob
<1>1. InstallerInv => WorkerHasJob
  BY DEF InstallerInv
<1> QED
  BY InstallerInvariant, <1>1, PTL

\* A job that is over, cleaned or removed has left no staging directory behind
\* that was not tried to remove, and a complete one has left none.
THEOREM StagingIsNotForgotten == Spec => []StagingNotForgotten
<1>1. InstallerInv => StagingNotForgotten
  BY DEF InstallerInv, TypeOK, WorkerHasJob, StagingInv, StagingStates,
         StagingNotForgotten, Active
<1> QED
  BY InstallerInvariant, <1>1, PTL
----------------------------------------------------------------------------
(* What a job that is reported complete means, when packages keep apart.   *)
(* InstallerSiblings shows that it means less when they do not.            *)

\* No package's clean-up matches the staging directory of another, no two
\* packages share a file, and each has one.
Apart ==
  /\ \A p, q \in Packages : q \in Cleaned(p) => p = q
  /\ \A p, q \in Packages : Files[p] \cap Files[q] # {} => p = q
  /\ \A p \in Packages : Files[p] # {}

\* A file of a package being installed is in its place, or at the stage that
\* the installation has reached.
NothingLost(p) ==
  /\ worker[p] = "download" => Files[p] \subseteq disk \cup staged[p] \cup downloads[p]
  /\ worker[p] = "list" => Files[p] \subseteq disk \cup staged[p]
  /\ worker[p] = "publish" => Files[p] \subseteq disk \cup moving[p]
  /\ worker[p] \in {"manifest", "report"} => Files[p] \subseteq disk

\* A removal deletes files of its package only.
RemovesItsOwn ==
  \A c \in Callers : caller[c] = "delete" => removing[c] \subseteq Files[target[c]]

CompleteInv == RemovesItsOwn /\ \A p \in Packages : NothingLost(p)

LEMMA NoSharedFile ==
  ASSUME Apart, NEW p \in Packages, NEW q \in Packages, NEW f \in Files[p] \cap Files[q]
  PROVE  p = q
  BY DEF Apart

\* A request works on a package without a worker.
LEMMA TargetHasNoWorker ==
  ASSUME InstallerInv, NEW c \in Callers, caller[c] # "ready"
  PROVE  target[c] \in Packages /\ worker[target[c]] = "none"
  BY DEF InstallerInv, TypeOK, CallInv, WorkerHasJob, Idle, Active

\* A step of a worker that goes to a place with the files at hand, and leaves
\* those of other packages alone.
LEMMA OthersKeepTheirs ==
  ASSUME CompleteInv, NEW p \in Packages, UNCHANGED callVars,
         NothingLost(p)',
         \A q \in Packages \ {p} :
           /\ worker'[q] = worker[q] /\ staged'[q] = staged[q]
           /\ downloads'[q] = downloads[q] /\ moving'[q] = moving[q]
           /\ Files[q] \cap disk \subseteq disk'
  PROVE  CompleteInv'
<1>1. RemovesItsOwn'
  BY DEF CompleteInv, RemovesItsOwn, callVars
<1>2. ASSUME NEW q \in Packages \ {p} PROVE NothingLost(q)'
  <2>1. NothingLost(q)
    BY DEF CompleteInv
  <2> QED
    BY <2>1 DEF NothingLost
<1> QED
  BY <1>1, <1>2 DEF CompleteInv

\* A step of a request that leaves workers and disk alone.
LEMMA WorkersKeepTheirs ==
  ASSUME CompleteInv, RemovesItsOwn', UNCHANGED workerVars, disk' = disk
  PROVE  CompleteInv'
  BY DEF CompleteInv, NothingLost, workerVars

\* Nothing that others do takes a file from an installation.
LEMMA FilesKept ==
  ASSUME Apart, InstallerInv, CompleteInv, [Next]_vars
  PROVE  CompleteInv'
<1>t. /\ worker \in [Packages -> WorkerPcs]
      /\ downloads \in [Packages -> SUBSET Paths]
      /\ staged \in [Packages -> SUBSET Paths]
      /\ moving \in [Packages -> SUBSET Paths]
      /\ disk \in SUBSET Paths
      /\ caller \in [Callers -> CallerPcs]
      /\ target \in [Callers -> Packages]
      /\ removing \in [Callers -> SUBSET Paths]
      /\ Files \in [Packages -> SUBSET Paths]
  BY CatalogAssumption DEF InstallerInv, TypeOK
<1>f. \A p \in Packages : NothingLost(p)
  BY DEF CompleteInv
<1>1. ASSUME NEW p \in Packages, WorkerStart(p) PROVE CompleteInv'
  <2>1. NothingLost(p)'
    BY <1>1, <1>t DEF WorkerStart, WorkerGoto, NothingLost
  <2> QED
    BY <1>1, <1>t, <2>1, OthersKeepTheirs DEF WorkerStart, WorkerGoto
<1>2. ASSUME NEW p \in Packages, Plan(p) PROVE CompleteInv'
  <2>1. NothingLost(p)'
    BY <1>2, <1>t DEF Plan, WorkerGoto, NothingLost
  <2> QED
    BY <1>2, <1>t, <2>1, OthersKeepTheirs DEF Plan, WorkerGoto
<1>3. ASSUME NEW p \in Packages, AlreadyInstalled(p) PROVE CompleteInv'
  <2>1. NothingLost(p)'
    BY <1>3, <1>t DEF AlreadyInstalled, WorkerGoto, NothingLost
  <2> QED
    BY <1>3, <1>t, <2>1, OthersKeepTheirs DEF AlreadyInstalled, WorkerGoto
<1>4. ASSUME NEW p \in Packages, LastCancelCheck(p) PROVE CompleteInv'
  <2>1. NothingLost(p)'
    BY <1>4, <1>t, <1>f DEF LastCancelCheck, WorkerGoto, NothingLost
  <2> QED
    BY <1>4, <1>t, <2>1, OthersKeepTheirs DEF LastCancelCheck, WorkerGoto
<1>5. ASSUME NEW p \in Packages, ListStaged(p) PROVE CompleteInv'
  <2>1. NothingLost(p)'
    BY <1>5, <1>t, <1>f DEF ListStaged, WorkerGoto, NothingLost
  <2> QED
    BY <1>5, <1>t, <2>1, OthersKeepTheirs DEF ListStaged, WorkerGoto
<1>6. ASSUME NEW p \in Packages, Published(p) PROVE CompleteInv'
  <2>1. NothingLost(p)'
    BY <1>6, <1>t, <1>f DEF Published, WorkerGoto, NothingLost
  <2> QED
    BY <1>6, <1>t, <2>1, OthersKeepTheirs DEF Published, WorkerGoto
<1>7. ASSUME NEW p \in Packages, WriteManifest(p) PROVE CompleteInv'
  <2>1. NothingLost(p)'
    BY <1>7, <1>t, <1>f DEF WriteManifest, WorkerGoto, NothingLost
  <2> QED
    BY <1>7, <1>t, <2>1, OthersKeepTheirs DEF WriteManifest, WorkerGoto
<1>8. ASSUME NEW p \in Packages, Throw(p) PROVE CompleteInv'
  <2>1. NothingLost(p)'
    BY <1>8, <1>t DEF Throw, WorkerGoto, NothingLost
  <2> QED
    BY <1>8, <1>t, <2>1, OthersKeepTheirs DEF Throw, WorkerGoto
<1>9. ASSUME NEW p \in Packages, Unwind(p) PROVE CompleteInv'
  <2>1. NothingLost(p)'
    BY <1>9, <1>t DEF Unwind, WorkerGoto, NothingLost
  <2> QED
    BY <1>9, <1>t, <2>1, OthersKeepTheirs DEF Unwind, WorkerGoto
<1>10. ASSUME NEW p \in Packages, Report(p) \/ ReportFailure(p) PROVE CompleteInv'
  <2>1. NothingLost(p)'
    BY <1>10, <1>t
    DEF Report, ReportFailure, Ended, WorkerGoto, NothingLost
  <2> QED
    BY <1>10, <1>t, <2>1, OthersKeepTheirs DEF Report, ReportFailure, Ended, WorkerGoto
<1>11. ASSUME NEW p \in Packages, NEW f \in Paths, Download(p, f) PROVE CompleteInv'
  <2>1. NothingLost(p)'
    BY <1>11, <1>t, <1>f DEF Download, NothingLost
  <2> QED
    BY <1>11, <1>t, <2>1, OthersKeepTheirs DEF Download
<1>12. ASSUME NEW p \in Packages, NEW f \in Paths, Move(p, f) PROVE CompleteInv'
  <2>1. NothingLost(p)'
    BY <1>12, <1>t, <1>f DEF Move, NothingLost
  <2> QED
    BY <1>12, <1>t, <2>1, OthersKeepTheirs DEF Move
<1>13. ASSUME NEW p \in Packages, NEW f \in Paths, MoveLosesFile(p, f)
             PROVE  CompleteInv'
  <2>1. NothingLost(p)'
    BY <1>13, <1>t DEF MoveLosesFile, WorkerGoto, NothingLost
  <2>2. f \in Files[p]
    BY <1>13 DEF MoveLosesFile, InstallerInv, TypeOK
  <2>3. \A q \in Packages \ {p} : f \notin Files[q]
    BY <2>2, NoSharedFile
  <2> QED
    BY <1>13, <1>t, <2>1, <2>3, OthersKeepTheirs DEF MoveLosesFile, WorkerGoto
<1>14. ASSUME NEW c \in Callers, CleanStaging(c) \/ CleanThrows(c)
       PROVE  CompleteInv'
  <2>1. RemovesItsOwn'
    BY <1>14, <1>t
    DEF CompleteInv, RemovesItsOwn, CleanStaging, CleanThrows, Leave
  <2>2. target[c] \in Packages /\ worker[target[c]] = "none"
    BY <1>14, TargetHasNoWorker DEF CleanStaging, CleanThrows
  <2>3. /\ disk' = disk /\ worker' = worker
        /\ downloads' = downloads /\ moving' = moving
    BY <1>14 DEF CleanStaging, CleanThrows
  <2>4. \A p \in Packages \ {target[c]} : p \notin Cleaned(target[c])
    BY <2>2 DEF Apart
  <2>5. PICK gone \in SUBSET Cleaned(target[c]) : Vanish(gone)
    BY <1>14 DEF CleanStaging, CleanThrows
  <2>6. ASSUME NEW p \in Packages PROVE NothingLost(p)'
    <3>1. CASE p = target[c]
      BY <3>1, <2>2, <2>3 DEF NothingLost
    <3>2. CASE p # target[c]
      <4>1. staged'[p] = staged[p]
        BY <3>2, <2>4, <2>5 DEF Vanish
      <4> QED
        BY <4>1, <2>3, <1>f DEF NothingLost
    <3> QED
      BY <3>1, <3>2
  <2> QED
    BY <2>1, <2>6 DEF CompleteInv
<1>15. ASSUME NEW c \in Callers, NEW f \in Paths, RemoveFile(c, f) PROVE CompleteInv'
  <2>1. RemovesItsOwn'
    BY <1>15, <1>t DEF CompleteInv, RemovesItsOwn, RemoveFile
  <2>2. target[c] \in Packages /\ worker[target[c]] = "none"
    BY <1>15, TargetHasNoWorker DEF RemoveFile
  <2>3. f \in Files[target[c]]
    BY <1>15 DEF CompleteInv, RemovesItsOwn, RemoveFile
  <2>4. ASSUME NEW p \in Packages PROVE NothingLost(p)'
    <3>1. CASE p = target[c]
      BY <3>1, <1>15, <1>t, <2>2 DEF RemoveFile, workerVars, NothingLost
    <3>2. CASE p # target[c]
      <4>1. f \notin Files[p]
        BY <3>2, <2>2, <2>3, NoSharedFile
      <4> QED
        BY <4>1, <1>15, <1>f DEF RemoveFile, workerVars, NothingLost
    <3> QED
      BY <3>1, <3>2
  <2> QED
    BY <2>1, <2>4 DEF CompleteInv
<1>16. ASSUME NEW c \in Callers, CleanErase(c) \/ RemoveDone(c) \/ RemoveThrows(c)
             PROVE  CompleteInv'
  <2>1. RemovesItsOwn'
    BY <1>16, <1>t
    DEF CompleteInv, RemovesItsOwn, CleanErase, RemoveDone, RemoveThrows, Leave
  <2> QED
    BY <1>16, <2>1, WorkersKeepTheirs
    DEF CleanErase, RemoveDone, RemoveThrows, workerVars
<1>17. ASSUME NEW c \in Callers, RemovePlan(c) PROVE CompleteInv'
  <2>1. RemovesItsOwn'
    BY <1>17, <1>t DEF CompleteInv, RemovesItsOwn, RemovePlan
  <2> QED
    BY <1>17, <2>1, WorkersKeepTheirs DEF RemovePlan
<1>18. ASSUME NEW c \in Callers, SetModelsRoot(c) PROVE CompleteInv'
  <2>1. RemovesItsOwn'
    BY <1>18 DEF CompleteInv, RemovesItsOwn, SetModelsRoot, callVars
  <2>2. \A p \in Packages : worker[p] = "none"
    BY <1>18 DEF SetModelsRoot, InstallerInv, WorkerHasJob, Idle, Active
  <2>3. \A p \in Packages : NothingLost(p)'
    BY <1>18, <1>t, <2>2 DEF SetModelsRoot, NothingLost
  <2> QED
    BY <2>1, <2>3 DEF CompleteInv
<1>19. ASSUME NEW c \in Callers, NEW p \in Packages, NEW replace \in BOOLEAN,
             Start(c, p, replace) PROVE CompleteInv'
  <2>1. NothingLost(p)'
    BY <1>19, <1>t DEF Start, NothingLost
  <2> QED
    BY <1>19, <1>t, <2>1, OthersKeepTheirs DEF Start
<1>20. ASSUME NEW c \in Callers, NEW p \in Packages, Stop(c, p) PROVE CompleteInv'
  <2>1. RemovesItsOwn'
    BY <1>20 DEF CompleteInv, RemovesItsOwn, Stop, callVars
  <2> QED
    BY <1>20, <2>1, WorkersKeepTheirs DEF Stop
<1>21. ASSUME NEW c \in Callers, NEW p \in Packages,
             NEW label \in {"clean", "remove"}, Enter(c, p, label)
             PROVE  CompleteInv'
  <2>1. RemovesItsOwn'
    BY <1>21, <1>t DEF CompleteInv, RemovesItsOwn, Enter
  <2> QED
    BY <1>21, <2>1, WorkersKeepTheirs DEF Enter
<1>22. CASE UNCHANGED vars
  <2>1. RemovesItsOwn'
    BY <1>22 DEF CompleteInv, RemovesItsOwn, vars, callVars
  <2> QED
    BY <1>22, <2>1, WorkersKeepTheirs DEF vars
<1> QED
  BY <1>1, <1>2, <1>3, <1>4, <1>5, <1>6, <1>7, <1>8, <1>9, <1>10, <1>11,
     <1>12, <1>13, <1>14, <1>15, <1>16, <1>17, <1>18, <1>19, <1>20, <1>21,
     <1>22 DEF Next, Work, Serve, Request

LEMMA NothingLostAtFirst == Init => CompleteInv
  BY CatalogAssumption DEF Init, CompleteInv, RemovesItsOwn, NothingLost

\* When no package's clean-up matches another's staging directory and no file
\* is shared, the files of a package are in their place when its job is
\* reported complete, whatever is installed, stopped, cleaned and removed
\* meanwhile.
THEOREM CompleteMeansInstalled ==
  ASSUME Apart
  PROVE  Spec => CompleteIsInstalled
<1>1. InstallerInv /\ CompleteInv /\ [Next]_vars => CompleteInv'
  BY FilesKept
<1>2. InstallerInv /\ CompleteInv
        => [\A p \in Packages : WholeWhenComplete(p)]_vars
  BY DEF CompleteInv, NothingLost, WholeWhenComplete, Report, Installed, Apart
<1> QED
  BY InstallerInvariant, NothingLostAtFirst, <1>1, <1>2, PTL
  DEF Spec, CompleteIsInstalled
----------------------------------------------------------------------------
(* Packages that keep apart are a PackageStore.                            *)

\* While a job is active, the flag its worker looks at and the state its
\* clients see say the same.
StopInv ==
  \A p \in Packages : job[p] \in Active => (stopped[p] <=> job[p] = "cancelling")

LEMMA StopKept == InstallerInv /\ StopInv /\ [Next]_vars => StopInv'
<1> SUFFICES ASSUME InstallerInv, StopInv, [Next]_vars PROVE StopInv'
  OBVIOUS
<1>t. /\ job \in [Packages -> Active \cup Over \cup {"none"}]
      /\ stopped \in [Packages -> BOOLEAN]
      /\ target \in [Callers -> Packages]
  BY DEF InstallerInv, TypeOK
<1>1. ASSUME UNCHANGED jobVars PROVE StopInv'
  BY <1>1 DEF StopInv, jobVars
<1>2. ASSUME NEW p \in Packages, WorkerStart(p) PROVE StopInv'
  BY <1>2, <1>t DEF WorkerStart, StopInv, Active, Over
<1>3. ASSUME NEW p \in Packages, Report(p) \/ ReportFailure(p) PROVE StopInv'
  BY <1>3, <1>t DEF Report, ReportFailure, Ended, StopInv, Active, Over
<1>4. ASSUME NEW c \in Callers, CleanErase(c) \/ RemoveDone(c) PROVE StopInv'
  BY <1>4, <1>t DEF CleanErase, RemoveDone, EraseJob, StopInv, Active
<1>5. ASSUME NEW c \in Callers, SetModelsRoot(c) PROVE StopInv'
  BY <1>5 DEF SetModelsRoot, StopInv, Active
<1>6. ASSUME NEW c \in Callers, NEW p \in Packages, NEW replace \in BOOLEAN,
             Start(c, p, replace) PROVE StopInv'
  BY <1>6, <1>t DEF Start, StopInv, Active
<1>7. ASSUME NEW c \in Callers, NEW p \in Packages, Stop(c, p) PROVE StopInv'
  BY <1>7, <1>t DEF Stop, StopInv, Active
<1>8. ASSUME NEW p \in Packages,
             \/ Plan(p) \/ AlreadyInstalled(p) \/ LastCancelCheck(p) \/ ListStaged(p)
             \/ Published(p) \/ WriteManifest(p) \/ Throw(p) \/ Unwind(p)
             \/ \E f \in Paths : Download(p, f) \/ Move(p, f) \/ MoveLosesFile(p, f)
      PROVE  StopInv'
  BY <1>8, <1>1
  DEF Plan, AlreadyInstalled, LastCancelCheck, ListStaged, Published, WriteManifest,
      Throw, Unwind, Download, Move, MoveLosesFile
<1>9. ASSUME NEW c \in Callers,
             \/ CleanStaging(c) \/ CleanThrows(c)
             \/ RemovePlan(c) \/ RemoveThrows(c)
             \/ \E f \in Paths : RemoveFile(c, f)
             \/ \E p \in Packages : Enter(c, p, "clean") \/ Enter(c, p, "remove")
      PROVE  StopInv'
  BY <1>9, <1>1 DEF CleanStaging, CleanThrows, RemovePlan, RemoveThrows,
                       RemoveFile, Enter
<1>10. CASE UNCHANGED vars
  BY <1>10, <1>1 DEF vars
<1> QED
  BY <1>2, <1>3, <1>4, <1>5, <1>6, <1>7, <1>8, <1>9, <1>10
  DEF Next, Work, Serve, Request

StoreInv == InstallerInv /\ CompleteInv /\ StopInv

\* What a step does to jobs, disk and overwrite is all that a client sees.
LEMMA StoreSeesNothing ==
  ASSUME disk' = disk, overwrite' = overwrite,
         \A p \in Packages : ShownJob(p)' = ShownJob(p)
  PROVE  UNCHANGED Store!vars
  BY DEF Store!vars, Installed

\* A file of one package is of no other.
LEMMA OneIsTouched ==
  ASSUME Apart, NEW p \in Packages, NEW f \in Files[p],
         disk' = disk \cup {f} \/ disk' = disk \ {f}
  PROVE  \A q \in Packages \ {p} : Installed(q)' = Installed(q)
<1> SUFFICES ASSUME NEW q \in Packages \ {p} PROVE Installed(q)' = Installed(q)
  OBVIOUS
<1>1. f \notin Files[q]
  BY NoSharedFile
<1> QED
  BY <1>1 DEF Installed

LEMMA StoreMove ==
  ASSUME Apart, StoreInv, NEW p \in Packages, NEW f \in Paths, Move(p, f)
  PROVE  Store!Arrive(p) \/ UNCHANGED Store!vars
<1>1. f \in Files[p] /\ worker[p] = "publish" /\ disk' = disk \cup {f}
  BY DEF Move, StoreInv, InstallerInv, TypeOK
<1>2. \A q \in Packages \ {p} : Installed(q)' = Installed(q)
  BY <1>1, OneIsTouched
<1>3. job' = job /\ overwrite' = overwrite
  BY DEF Move, jobVars
<1>4. \A q \in Packages : ShownJob(q)' = ShownJob(q)
  BY <1>3 DEF ShownJob
<1>5. CASE Installed(p)' = Installed(p)
  BY <1>5, <1>2, <1>3, <1>4 DEF Store!vars
<1>6. CASE Installed(p)' # Installed(p)
  <2>1. Installed(p)'
    BY <1>1, <1>6 DEF Installed
  <2>2. ~Store!Idle(p)
    BY <1>1
    DEF StoreInv, InstallerInv, WorkerHasJob, Active, Store!Idle, ShownJob
  <2> QED
    BY <1>2, <1>3, <1>4, <2>1, <2>2 DEF Store!Arrive
<1> QED
  BY <1>5, <1>6

LEMMA StoreLosesFile ==
  ASSUME Apart, StoreInv, NEW p \in Packages, NEW f \in Paths, MoveLosesFile(p, f)
  PROVE  Store!Break(p)
<1>1. /\ f \in Files[p] /\ worker[p] = "publish" /\ disk' = disk \ {f}
      /\ overwrite[p]
  BY DEF MoveLosesFile, StoreInv, InstallerInv, TypeOK
<1>2. \A q \in Packages \ {p} : Installed(q)' = Installed(q)
  BY <1>1, OneIsTouched
<1>3. job' = job /\ overwrite' = overwrite
  BY DEF MoveLosesFile, jobVars
<1>4. \A q \in Packages : ShownJob(q)' = ShownJob(q)
  BY <1>3 DEF ShownJob
<1>5. Installed(p)' = FALSE
  BY <1>1 DEF Installed
<1>6. ~Store!Idle(p)
  BY <1>1 DEF StoreInv, InstallerInv, WorkerHasJob, Active, Store!Idle, ShownJob
<1> QED
  BY <1>1, <1>2, <1>3, <1>4, <1>5, <1>6 DEF Store!Break

LEMMA StoreRemoveFile ==
  ASSUME Apart, StoreInv, NEW c \in Callers, NEW f \in Paths, RemoveFile(c, f)
  PROVE  Store!Remove(target[c])
<1>1. target[c] \in Packages /\ worker[target[c]] = "none"
  BY TargetHasNoWorker DEF RemoveFile, StoreInv
<1>2. f \in Files[target[c]] /\ disk' = disk \ {f}
  BY DEF RemoveFile, StoreInv, CompleteInv, RemovesItsOwn
<1>3. \A q \in Packages \ {target[c]} : Installed(q)' = Installed(q)
  BY <1>1, <1>2, OneIsTouched
<1>4. job' = job /\ overwrite' = overwrite
  BY DEF RemoveFile, jobVars, workerVars
<1>5. \A q \in Packages : ShownJob(q)' = ShownJob(q)
  BY <1>4 DEF ShownJob
<1>6. \A q \in Packages : q = target[c] => Installed(q)' = FALSE
  BY <1>2 DEF Installed
<1>7. Store!Idle(target[c])
  BY <1>1
  DEF StoreInv, InstallerInv, TypeOK, WorkerHasJob, Active, Over, Store!Idle, ShownJob
<1> QED
  BY <1>1, <1>3, <1>4, <1>5, <1>6, <1>7 DEF Store!Remove

LEMMA StoreEnd ==
  ASSUME Apart, StoreInv, NEW p \in Packages, Report(p) \/ ReportFailure(p)
  PROVE  Store!End(p)
<1>t. /\ job \in [Packages -> Active \cup Over \cup {"none"}]
      /\ stopped \in [Packages -> BOOLEAN]
      /\ overwrite \in [Packages -> BOOLEAN]
      /\ worker \in [Packages -> WorkerPcs]
  BY DEF StoreInv, InstallerInv, TypeOK
<1>1. disk' = disk /\ overwrite' = [overwrite EXCEPT ![p] = FALSE]
  BY DEF Report, ReportFailure, Ended
<1>2. \A q \in Packages : Installed(q)' = Installed(q)
  BY <1>1 DEF Installed
<1>3. job[p] \in Active /\ (stopped[p] <=> job[p] = "cancelling")
  BY DEF StoreInv, InstallerInv, WorkerHasJob, StopInv, Report, ReportFailure
<1>4. ASSUME NEW result \in {"complete", "failed"}, Ended(p, result)
      PROVE  \A q \in Packages : ShownJob(q)' =
               IF q = p THEN IF stopped[p] THEN "cancelled" ELSE result ELSE ShownJob(q)
  BY <1>4, <1>t DEF Ended, ShownJob
<1>5. CASE Report(p)
  <2>1. ~stopped[p] => Installed(p)
    BY <1>5 DEF StoreInv, CompleteInv, NothingLost, Report, Installed, Apart
  <2>2. Ended(p, "complete")
    BY <1>5 DEF Report
  <2> QED
    BY <1>1, <1>2, <1>3, <1>4, <2>1, <2>2 DEF Store!End, ShownJob, Active
<1>6. CASE ReportFailure(p)
  <2>1. Ended(p, "failed")
    BY <1>6 DEF ReportFailure
  <2> QED
    BY <1>1, <1>2, <1>3, <1>4, <2>1 DEF Store!End, ShownJob, Active
<1> QED
  BY <1>5, <1>6

LEMMA StoreForget ==
  ASSUME StoreInv, NEW c \in Callers, CleanErase(c) \/ RemoveDone(c)
  PROVE  Store!Forget(target[c])
<1>1. target[c] \in Packages /\ worker[target[c]] = "none"
  BY TargetHasNoWorker DEF CleanErase, RemoveDone, StoreInv
<1>2. job \in [Packages -> Active \cup Over \cup {"none"}]
  BY DEF StoreInv, InstallerInv, TypeOK
<1>3. disk' = disk /\ overwrite' = overwrite /\ EraseJob(target[c])
  BY DEF CleanErase, RemoveDone
<1>4. \A q \in Packages : Installed(q)' = Installed(q)
  BY <1>3 DEF Installed
<1>5. \A q \in Packages :
        ShownJob(q)' = IF q = target[c] THEN "none" ELSE ShownJob(q)
  BY <1>1, <1>2, <1>3 DEF EraseJob, ShownJob
<1>6. Store!Idle(target[c])
  BY <1>1, <1>2
  DEF StoreInv, InstallerInv, WorkerHasJob, Active, Over, Store!Idle, ShownJob
<1> QED
  BY <1>1, <1>3, <1>4, <1>5, <1>6 DEF Store!Forget

LEMMA StoreReset ==
  ASSUME Apart, StoreInv, NEW c \in Callers, SetModelsRoot(c)
  PROVE  Store!Reset
<1>1. job \in [Packages -> Active \cup Over \cup {"none"}]
  BY DEF StoreInv, InstallerInv, TypeOK
<1>2. \A p \in Packages : Installed(p)' = FALSE /\ ShownJob(p)' = "none"
  BY DEF SetModelsRoot, Installed, ShownJob, Apart
<1>3. \A p \in Packages : Store!Idle(p)
  BY <1>1 DEF SetModelsRoot, Idle, Active, Over, Store!Idle, ShownJob
<1> QED
  BY <1>2, <1>3 DEF Store!Reset, SetModelsRoot

LEMMA StoreStart ==
  ASSUME StoreInv, NEW c \in Callers, NEW p \in Packages, NEW replace \in BOOLEAN,
         Start(c, p, replace)
  PROVE  Store!Start(p)
<1>1. job \in [Packages -> Active \cup Over \cup {"none"}]
  BY DEF StoreInv, InstallerInv, TypeOK
<1>2. \A q \in Packages : Installed(q)' = Installed(q)
  BY DEF Start, Installed
<1>3. \A q \in Packages : ShownJob(q)' = IF q = p THEN "active" ELSE ShownJob(q)
  BY <1>1 DEF Start, ShownJob
<1>4. Store!Idle(p)
  BY <1>1 DEF Start, Idle, Active, Over, Store!Idle, ShownJob
<1> QED
  BY <1>2, <1>3, <1>4 DEF Store!Start, Start

LEMMA StoreStop ==
  ASSUME StoreInv, NEW c \in Callers, NEW p \in Packages, Stop(c, p)
  PROVE  Store!Stop(p) \/ UNCHANGED Store!vars
<1>1. job \in [Packages -> Active \cup Over \cup {"none"}]
  BY DEF StoreInv, InstallerInv, TypeOK
<1>2. disk' = disk /\ overwrite' = overwrite
  BY DEF Stop, workerVars
<1>3. \A q \in Packages : Installed(q)' = Installed(q)
  BY <1>2 DEF Installed
<1>4. \A q \in Packages : ShownJob(q)' = IF q = p THEN "stopping" ELSE ShownJob(q)
  BY <1>1 DEF Stop, ShownJob
<1>5. CASE job[p] = "cancelling"
  <2>1. \A q \in Packages : ShownJob(q)' = ShownJob(q)
    BY <1>4, <1>5 DEF ShownJob
  <2> QED
    BY <1>2, <2>1, StoreSeesNothing
<1>6. CASE job[p] # "cancelling"
  <2>1. ShownJob(p) = "active"
    BY <1>6 DEF Stop, Active, ShownJob
  <2> QED
    BY <1>2, <1>3, <1>4, <2>1 DEF Store!Stop
<1> QED
  BY <1>5, <1>6

\* What is left to the worker and to the requests is out of sight.
LEMMA StoreUnseen ==
  ASSUME StoreInv,
         \/ UNCHANGED vars
         \/ \E p \in Packages :
              \/ WorkerStart(p) \/ Plan(p) \/ AlreadyInstalled(p)
              \/ LastCancelCheck(p) \/ ListStaged(p) \/ Published(p)
              \/ WriteManifest(p) \/ Throw(p) \/ Unwind(p)
              \/ \E f \in Paths : Download(p, f)
         \/ \E c \in Callers :
              \/ CleanStaging(c) \/ CleanThrows(c)
              \/ RemovePlan(c) \/ RemoveThrows(c)
              \/ \E p \in Packages : Enter(c, p, "clean") \/ Enter(c, p, "remove")
  PROVE  UNCHANGED Store!vars
<1>t. job \in [Packages -> Active \cup Over \cup {"none"}]
  BY DEF StoreInv, InstallerInv, TypeOK
<1>1. ASSUME NEW p \in Packages, WorkerStart(p) PROVE UNCHANGED Store!vars
  <2>1. job[p] \in Active /\ (stopped[p] <=> job[p] = "cancelling")
    BY <1>1 DEF StoreInv, InstallerInv, WorkerHasJob, StopInv, WorkerStart
  <2>2. \A q \in Packages : ShownJob(q)' = ShownJob(q)
    BY <1>1, <1>t, <2>1 DEF WorkerStart, ShownJob, Active
  <2> QED
    BY <1>1, <2>2, StoreSeesNothing DEF WorkerStart
<1>2. ASSUME disk' = disk, overwrite' = overwrite, job' = job
      PROVE  UNCHANGED Store!vars
  BY <1>2, StoreSeesNothing DEF ShownJob
<1>3. ASSUME NEW p \in Packages,
             \/ Plan(p) \/ AlreadyInstalled(p) \/ LastCancelCheck(p) \/ ListStaged(p)
             \/ Published(p) \/ WriteManifest(p) \/ Throw(p) \/ Unwind(p)
             \/ \E f \in Paths : Download(p, f)
      PROVE  UNCHANGED Store!vars
  BY <1>3, <1>2
  DEF Plan, AlreadyInstalled, LastCancelCheck, ListStaged, Published, WriteManifest,
      Throw, Unwind, Download, jobVars
<1>4. ASSUME NEW c \in Callers,
             \/ CleanStaging(c) \/ CleanThrows(c)
             \/ RemovePlan(c) \/ RemoveThrows(c)
             \/ \E p \in Packages : Enter(c, p, "clean") \/ Enter(c, p, "remove")
      PROVE  UNCHANGED Store!vars
  BY <1>4, <1>2
  DEF CleanStaging, CleanThrows, RemovePlan, RemoveThrows, Enter, jobVars,
      workerVars
<1>5. CASE UNCHANGED vars
  BY <1>5, <1>2 DEF vars, jobVars, workerVars
<1> QED
  BY <1>1, <1>3, <1>4, <1>5

LEMMA StoreStep ==
  ASSUME Apart, StoreInv, [Next]_vars
  PROVE  [Store!Next]_(Store!vars)
<1> SUFFICES Store!Next \/ UNCHANGED Store!vars
  OBVIOUS
<1>1. ASSUME NEW p \in Packages, NEW f \in Paths, Move(p, f) \/ MoveLosesFile(p, f)
      PROVE  Store!Next \/ UNCHANGED Store!vars
  BY <1>1, StoreMove, StoreLosesFile DEF Store!Next
<1>2. ASSUME NEW p \in Packages, Report(p) \/ ReportFailure(p) PROVE Store!Next
  BY <1>2, StoreEnd DEF Store!Next
<1>3. ASSUME NEW c \in Callers, NEW f \in Paths, RemoveFile(c, f) PROVE Store!Next
  <2>1. target[c] \in Packages
    BY DEF StoreInv, InstallerInv, TypeOK
  <2> QED
    BY <1>3, <2>1, StoreRemoveFile DEF Store!Next
<1>4. ASSUME NEW c \in Callers, CleanErase(c) \/ RemoveDone(c) PROVE Store!Next
  <2>1. target[c] \in Packages
    BY DEF StoreInv, InstallerInv, TypeOK
  <2> QED
    BY <1>4, <2>1, StoreForget DEF Store!Next
<1>5. ASSUME NEW c \in Callers, SetModelsRoot(c) PROVE Store!Next
  BY <1>5, StoreReset DEF Store!Next
<1>6. ASSUME NEW c \in Callers, NEW p \in Packages, NEW replace \in BOOLEAN,
             Start(c, p, replace) PROVE Store!Next
  BY <1>6, StoreStart DEF Store!Next
<1>7. ASSUME NEW c \in Callers, NEW p \in Packages, Stop(c, p)
      PROVE  Store!Next \/ UNCHANGED Store!vars
  BY <1>7, StoreStop DEF Store!Next
<1> QED
  BY <1>1, <1>2, <1>3, <1>4, <1>5, <1>6, <1>7, StoreUnseen
  DEF Next, Work, Serve, Request

\* When no package's clean-up matches another's staging directory and no file
\* is shared, ModelInstaller implements PackageStore, for any catalog and any
\* callers: start, stop, clean_partial and remove keep to the package they name,
\* and a job ends as it was asked to (which is not to say that a stopped one
\* was not published: InstallerStopped).
THEOREM InstallerIsPackageStore ==
  ASSUME Apart
  PROVE  Spec => IsPackageStore
<1>e. \A p \in Packages : Files[p] # {}
  BY DEF Apart
<1>1. Init => Store!Init
  BY <1>e DEF Init, Store!Init, ShownJob, Installed
<1>2. Init => StopInv
  BY DEF Init, StopInv, Active
<1>3. InstallerInv /\ CompleteInv /\ [Next]_vars => CompleteInv'
  BY FilesKept
<1>4. InstallerInv /\ CompleteInv /\ StopInv /\ [Next]_vars => [Store!Next]_(Store!vars)
  BY StoreStep DEF StoreInv
<1> QED
  BY <1>1, <1>2, <1>3, <1>4, InstallerInvariant, NothingLostAtFirst, StopKept, PTL
  DEF Spec, IsPackageStore, Store!Spec
=============================================================================
