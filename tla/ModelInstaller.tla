--------------------------- MODULE ModelInstaller ---------------------------
(***************************************************************************)
(* Installing and removing model packages while the server runs:           *)
(* ModelInstaller (app/server/model_installer.cpp) over PackageManager     *)
(* (framework/package_manager/manager.cpp).                                *)
(*   - Every request holds the server's model_installer_mutex_ to its end, *)
(*     so requests exclude each other.                                     *)
(*   - Every installation has a worker thread, which takes no part in that *)
(*     mutex: it downloads to a staging directory, moves the files to the  *)
(*     package's directory one by one and reports through its job.         *)
(* The jobs are behind State::mutex, whose critical sections are single    *)
(* steps here; the file system is behind no lock at all.  Variants of a    *)
(* model share a target directory, and may share files in it.  The         *)
(* deprecated converter branch (a Python child process) is left out.       *)
(***************************************************************************)
EXTENDS Integers, Sequences

CONSTANTS
  Packages,     \* package ids of the catalog
  Paths,        \* destinations of files below the models root
  Files,        \* package -> the paths it declares
  StagingName,  \* package -> its target_directory as make_staging spells it:
                \* "_" for every "/"; here cut at its dots, <<"a_b", "v2">>
  Callers,      \* connection threads
  Nobody

ASSUME CatalogAssumption ==
  /\ Packages # {}
  /\ Files \in [Packages -> SUBSET Paths]
  /\ \A p \in Packages : StagingName[p] \in Seq(STRING)

ASSUME CallersAssumption == Nobody \notin Callers

VARIABLES
  disk,           \* paths that exist
  job,            \* package -> state of its entry in jobs, "none" if there is none
  stopped,        \* package -> cancel_requested and cancel_flag of the job
  worker,         \* package -> where its worker thread is, "none" if it has none
  overwrite,      \* package -> the argument of the installation
  downloads,      \* package -> files still to download
  staging,        \* package -> the staging directory of its last installation
  staged,         \* package -> files in it
  moving,         \* package -> staged_files not yet moved
  installerLock,  \* caller that holds model_installer_mutex_
  caller,         \* caller -> where its request is
  target,         \* caller -> the package it is about
  removing        \* caller -> outputs the removal has yet to delete

jobVars == <<job, stopped>>
workerVars == <<worker, overwrite, downloads, staging, staged, moving>>
callVars == <<installerLock, caller, target, removing>>
vars == <<disk, jobVars, workerVars, callVars>>

Active == {"queued", "running", "cancelling"}
Over == {"complete", "cancelled", "failed"}
WorkerPcs == {"none", "start", "plan", "download", "list", "publish", "manifest",
              "unwind", "report_failure", "report"}
CallerPcs == {"ready", "clean", "clean_erase", "remove", "delete"}

\* "stuck": it could not be removed (what is still in it is left out).
StagingStates == {"absent", "present", "stuck"}

Installed(p) == Files[p] # {} /\ Files[p] \subseteq disk

\* shared_outputs: outputs of p that another installed package has too.
SharedOutputs(p) ==
  Files[p] \cap UNION {Files[q] : q \in {o \in Packages \ {p} : Installed(o)}}

Init ==
  /\ disk = {}
  /\ job = [p \in Packages |-> "none"]
  /\ stopped = [p \in Packages |-> FALSE]
  /\ worker = [p \in Packages |-> "none"]
  /\ overwrite = [p \in Packages |-> FALSE]
  /\ downloads = [p \in Packages |-> {}]
  /\ staging = [p \in Packages |-> "absent"]
  /\ staged = [p \in Packages |-> {}]
  /\ moving = [p \in Packages |-> {}]
  /\ installerLock = Nobody
  /\ caller = [c \in Callers |-> "ready"]
  /\ target = [c \in Callers |-> CHOOSE p \in Packages : TRUE]
  /\ removing = [c \in Callers |-> {}]

----------------------------------------------------------------------------
(* The requests.                                                           *)

MayCallUnlocked(c) == caller[c] = "ready"
MayCall(c) == caller[c] = "ready" /\ installerLock = Nobody

\* An active job refuses another installation, clean-up and removal, and a
\* change of the models root (has_active_jobs).
IdleUnlessQueued(p) == job[p] \notin {"running", "cancelling"}
Idle(p) == job[p] \notin Active

\* start; it is refused while a job of the package is active.  A directory
\* that an earlier installation left is out of its way: make_staging draws a
\* new name.
Start(c, p, replace) ==
  /\ MayCall(c)
  /\ Idle(p)
  /\ job' = [job EXCEPT ![p] = "queued"]
  /\ stopped' = [stopped EXCEPT ![p] = FALSE]
  /\ worker' = [worker EXCEPT ![p] = "start"]
  /\ overwrite' = [overwrite EXCEPT ![p] = replace]
  /\ staging' = [staging EXCEPT ![p] = "absent"]
  /\ UNCHANGED <<disk, downloads, staged, moving, callVars>>

Stop(c, p) ==
  /\ MayCall(c)
  /\ job[p] \in Active
  /\ job' = [job EXCEPT ![p] = "cancelling"]
  /\ stopped' = [stopped EXCEPT ![p] = TRUE]
  /\ UNCHANGED <<disk, workerVars, callVars>>

\* clean_partial and remove up to the call of the package manager.
Enter(c, p, label) ==
  /\ MayCall(c)
  /\ Idle(p)
  /\ installerLock' = c
  /\ caller' = [caller EXCEPT ![c] = label]
  /\ target' = [target EXCEPT ![c] = p]
  /\ UNCHANGED <<disk, jobVars, workerVars, removing>>

Leave(c) ==
  /\ installerLock' = Nobody
  /\ caller' = [caller EXCEPT ![c] = "ready"]
  /\ target' = [target EXCEPT ![c] = CHOOSE p \in Packages : TRUE]
  /\ removing' = [removing EXCEPT ![c] = {}]

EraseJob(p) ==
  /\ job' = [job EXCEPT ![p] = "none"]
  /\ stopped' = [stopped EXCEPT ![p] = FALSE]

\* Every directory of the models root whose name begins with the package's,
\* up to a dot: those of all packages that share its directory, and of those
\* whose directory extends its name after a dot.
CleanedByAll(p) == Packages
Cleaned(p) ==
  {q \in Packages :
     /\ Len(StagingName[p]) <= Len(StagingName[q])
     /\ SubSeq(StagingName[q], 1, Len(StagingName[p])) = StagingName[p]}

Vanish(gone) ==
  /\ staging' = [p \in Packages |-> IF p \in gone THEN "absent" ELSE staging[p]]
  /\ staged' = [p \in Packages |-> IF p \in gone THEN {} ELSE staged[p]]

\* PackageManager::clean_partial.
CleanStaging(c) ==
  /\ caller[c] = "clean"
  /\ Vanish(Cleaned(target[c]))
  /\ caller' = [caller EXCEPT ![c] = "clean_erase"]
  /\ UNCHANGED <<disk, jobVars, worker, overwrite, downloads, moving,
                 installerLock, target, removing>>

\* A directory cannot be removed: the job stays.
CleanThrows(c) ==
  /\ caller[c] = "clean"
  /\ \E gone \in SUBSET Cleaned(target[c]) : Vanish(gone)
  /\ Leave(c)
  /\ UNCHANGED <<disk, jobVars, worker, overwrite, downloads, moving>>

CleanErase(c) ==
  /\ caller[c] = "clean_erase"
  /\ EraseJob(target[c])
  /\ Leave(c)
  /\ UNCHANGED <<disk, worker, overwrite, downloads, staging, staged, moving>>

\* PackageManager::remove settles what to delete, or throws.
RemovePlan(c) ==
  /\ caller[c] = "remove"
  /\ Installed(target[c])
  /\ removing' = [removing EXCEPT ![c] = Files[target[c]] \ SharedOutputs(target[c])]
  /\ caller' = [caller EXCEPT ![c] = "delete"]
  /\ UNCHANGED <<disk, jobVars, workerVars, installerLock, target>>

RemoveFile(c, f) ==
  /\ caller[c] = "delete"
  /\ f \in removing[c]
  /\ disk' = disk \ {f}
  /\ removing' = [removing EXCEPT ![c] = @ \ {f}]
  /\ UNCHANGED <<jobVars, workerVars, installerLock, caller, target>>

RemoveDone(c) ==
  /\ caller[c] = "delete"
  /\ removing[c] = {}
  /\ EraseJob(target[c])
  /\ Leave(c)
  /\ UNCHANGED <<disk, worker, overwrite, downloads, staging, staged, moving>>

\* The package is not installed, or a file cannot be deleted: the job stays.
RemoveThrows(c) ==
  /\ \/ caller[c] = "remove" /\ ~Installed(target[c])
     \/ caller[c] = "delete"
  /\ Leave(c)
  /\ UNCHANGED <<disk, jobVars, workerVars>>

\* handle_models_root_set: a new installer over an empty folder, unless
\* has_active_jobs.
SetModelsRoot(c) ==
  /\ MayCall(c)
  /\ \A p \in Packages : Idle(p)
  /\ disk' = {}
  /\ job' = [p \in Packages |-> "none"]
  /\ stopped' = [p \in Packages |-> FALSE]
  /\ staging' = [p \in Packages |-> "absent"]
  /\ UNCHANGED <<worker, overwrite, downloads, staged, moving, callVars>>

----------------------------------------------------------------------------
(* A worker: PackageManager::install, and the report of its result.        *)

WorkerGoto(p, label) == worker' = [worker EXCEPT ![p] = label]

WorkerStart(p) ==
  /\ worker[p] = "start"
  /\ job' = [job EXCEPT ![p] = IF stopped[p] THEN @ ELSE "running"]
  /\ WorkerGoto(p, "plan")
  /\ UNCHANGED <<disk, stopped, overwrite, downloads, staging, staged, moving,
                 callVars>>

\* Files that are there, not shared, and may not be overwritten.
Clash(p) == IF overwrite[p] THEN {} ELSE (Files[p] \cap disk) \ SharedOutputs(p)

\* What is to be downloaded; make_staging.
Plan(p) ==
  /\ worker[p] = "plan"
  /\ Clash(p) = {}
  /\ downloads' = [downloads EXCEPT
                     ![p] = IF overwrite[p] THEN Files[p] ELSE Files[p] \ disk]
  /\ staging' = [staging EXCEPT ![p] = "present"]
  /\ WorkerGoto(p, "download")
  /\ UNCHANGED <<disk, jobVars, overwrite, staged, moving, callVars>>

AlreadyInstalled(p) ==
  /\ worker[p] = "plan"
  /\ Clash(p) # {}
  /\ Files[p] \subseteq disk
  /\ WorkerGoto(p, "report")
  /\ UNCHANGED <<disk, jobVars, overwrite, downloads, staging, staged, moving,
                 callVars>>

\* download_file creates the directories it needs.
Download(p, f) ==
  /\ worker[p] = "download"
  /\ f \in downloads[p]
  /\ ~stopped[p]
  /\ downloads' = [downloads EXCEPT ![p] = @ \ {f}]
  /\ staging' = [staging EXCEPT ![p] = "present"]
  /\ staged' = [staged EXCEPT ![p] = @ \cup {f}]
  /\ UNCHANGED <<disk, jobVars, worker, overwrite, moving, callVars>>

\* The last look at the flag before anything is published.
LastCancelCheck(p) ==
  /\ worker[p] = "download"
  /\ downloads[p] = {}
  /\ ~stopped[p]
  /\ WorkerGoto(p, "list")
  /\ UNCHANGED <<disk, jobVars, overwrite, downloads, staging, staged, moving,
                 callVars>>

ListStaged(p) ==
  /\ worker[p] = "list"
  /\ staging[p] = "present"
  /\ moving' = [moving EXCEPT ![p] = staged[p]]
  /\ WorkerGoto(p, "publish")
  /\ UNCHANGED <<disk, jobVars, overwrite, downloads, staging, staged, callVars>>

\* A file that exists is an error unless it may be overwritten; it is removed,
\* and the staged file renamed.
Move(p, f) ==
  /\ worker[p] = "publish"
  /\ f \in moving[p] \cap staged[p]
  /\ f \in disk => overwrite[p]
  /\ disk' = disk \cup {f}
  /\ staged' = [staged EXCEPT ![p] = @ \ {f}]
  /\ moving' = [moving EXCEPT ![p] = @ \ {f}]
  /\ UNCHANGED <<jobVars, worker, overwrite, downloads, staging, callVars>>

\* The old file is removed and the rename fails.
MoveLosesFile(p, f) ==
  /\ worker[p] = "publish"
  /\ f \in moving[p] \cap disk
  /\ overwrite[p]
  /\ disk' = disk \ {f}
  /\ WorkerGoto(p, "unwind")
  /\ UNCHANGED <<jobVars, overwrite, downloads, staging, staged, moving,
                 callVars>>

Published(p) ==
  /\ worker[p] = "publish"
  /\ moving[p] = {}
  /\ staging' = [staging EXCEPT ![p] = "absent"]
  /\ staged' = [staged EXCEPT ![p] = {}]
  /\ WorkerGoto(p, "manifest")
  /\ UNCHANGED <<disk, jobVars, overwrite, downloads, moving, callVars>>

WriteManifest(p) ==
  /\ worker[p] = "manifest"
  /\ WorkerGoto(p, "report")
  /\ UNCHANGED <<disk, jobVars, overwrite, downloads, staging, staged, moving,
                 callVars>>

\* Any step of install may throw: Cancelled, an error of the network or of
\* the file system, a file that exists already, a staging directory that is
\* gone or cannot be removed.
Throw(p) ==
  /\ worker[p] \in {"plan", "download", "list", "publish", "manifest"}
  /\ WorkerGoto(p, "unwind")
  /\ UNCHANGED <<disk, jobVars, overwrite, downloads, staging, staged, moving,
                 callVars>>

UnwindKeepsStaging(p) ==
  /\ worker[p] = "unwind"
  /\ downloads' = [downloads EXCEPT ![p] = {}]
  /\ moving' = [moving EXCEPT ![p] = {}]
  /\ WorkerGoto(p, "report_failure")
  /\ UNCHANGED <<disk, jobVars, overwrite, staging, staged, callVars>>

\* The catch block drops the error of its remove_all: the directory may stay.
Unwind(p) ==
  /\ worker[p] = "unwind"
  /\ \E left \in {"absent", "stuck"} :
       staging' = [staging EXCEPT ![p] = IF @ = "absent" THEN @ ELSE left]
  /\ staged' = [staged EXCEPT ![p] = {}]
  /\ downloads' = [downloads EXCEPT ![p] = {}]
  /\ moving' = [moving EXCEPT ![p] = {}]
  /\ WorkerGoto(p, "report_failure")
  /\ UNCHANGED <<disk, jobVars, overwrite, callVars>>

EndedUnheeding(p, state) ==
  /\ job' = [job EXCEPT ![p] = state]
  /\ WorkerGoto(p, "none")
  /\ overwrite' = [overwrite EXCEPT ![p] = FALSE]
  /\ UNCHANGED <<disk, stopped, downloads, staging, staged, moving, callVars>>

Ended(p, state) ==
  /\ job' = [job EXCEPT ![p] = IF stopped[p] THEN "cancelled" ELSE state]
  /\ WorkerGoto(p, "none")
  /\ overwrite' = [overwrite EXCEPT ![p] = FALSE]
  /\ UNCHANGED <<disk, stopped, downloads, staging, staged, moving, callVars>>

Report(p) == worker[p] = "report" /\ Ended(p, "complete")

\* A second exception would leave the job as it is.
FailureUnreported(p) ==
  /\ worker[p] = "report_failure"
  /\ WorkerGoto(p, "none")
  /\ UNCHANGED <<disk, jobVars, overwrite, downloads, staging, staged, moving,
                 callVars>>
ReportFailure(p) == worker[p] = "report_failure" /\ Ended(p, "failed")

----------------------------------------------------------------------------
Work(p) ==
  \/ WorkerStart(p) \/ Plan(p) \/ AlreadyInstalled(p)
  \/ LastCancelCheck(p) \/ ListStaged(p) \/ Published(p) \/ WriteManifest(p)
  \/ Throw(p) \/ Unwind(p) \/ Report(p) \/ ReportFailure(p)
  \/ \E f \in Paths : Download(p, f) \/ Move(p, f) \/ MoveLosesFile(p, f)

Serve(c) ==
  \/ CleanStaging(c) \/ CleanThrows(c) \/ CleanErase(c)
  \/ RemovePlan(c) \/ RemoveDone(c) \/ RemoveThrows(c)
  \/ \E f \in Paths : RemoveFile(c, f)

Request(c) ==
  \/ SetModelsRoot(c)
  \/ \E p \in Packages :
       \/ \E replace \in BOOLEAN : Start(c, p, replace)
       \/ Stop(c, p)
       \/ Enter(c, p, "clean")
       \/ Enter(c, p, "remove")

Next ==
  \/ \E p \in Packages : Work(p)
  \/ \E c \in Callers : Request(c) \/ Serve(c)

Spec == Init /\ [][Next]_vars

\* Threads keep running; the downloads have timeouts (configure_client).
InstallerFairness ==
  /\ \A p \in Packages : WF_vars(Work(p))
  /\ \A c \in Callers : WF_vars(Serve(c))

----------------------------------------------------------------------------
(* Properties.                                                             *)

\* Every variable has its type; an installation deals with files of its
\* package only, and a caller is inside a request exactly while it holds
\* model_installer_mutex_.
TypeOK ==
  /\ disk \in SUBSET Paths
  /\ job \in [Packages -> Active \cup Over \cup {"none"}]
  /\ worker \in [Packages -> WorkerPcs]
  /\ stopped \in [Packages -> BOOLEAN]
  /\ overwrite \in [Packages -> BOOLEAN]
  /\ staging \in [Packages -> StagingStates]
  /\ downloads \in [Packages -> SUBSET Paths]
  /\ staged \in [Packages -> SUBSET Paths]
  /\ moving \in [Packages -> SUBSET Paths]
  /\ \A p \in Packages :
       downloads[p] \cup staged[p] \cup moving[p] \subseteq Files[p]
  /\ installerLock \in Callers \cup {Nobody}
  /\ caller \in [Callers -> CallerPcs]
  /\ target \in [Callers -> Packages]
  /\ removing \in [Callers -> SUBSET Paths]
  /\ \A c \in Callers : caller[c] # "ready" <=> installerLock = c

\* A worker always finds its job: jobs.at never throws, neither in the thread
\* nor in its catch block, where it would end the server; and no job is left
\* active without a worker (model_installer.cpp 356, 380, 436, 559, 583).
WorkerHasJob ==
  \A p \in Packages : worker[p] # "none" <=> job[p] \in Active

\* A job is over only when its staging directory is gone or has been tried
\* in vain, and complete only when it is gone: no exception passes the
\* removal by, and no failure to remove is reported as success
\* (manager.cpp 716, 745-749; model_manager.md 257-259 "deletes its staging
\* directory before reporting the job as cancelled").
StagingNotForgotten ==
  \A p \in Packages :
    /\ job[p] \notin Active => staging[p] # "present" /\ staged[p] = {}
    /\ job[p] = "complete" => staging[p] = "absent"

\* Every installation comes to an end, stopped or not, whatever is cleaned or
\* removed meanwhile.
EveryJobEnds == \A p \in Packages : job[p] \in Active ~> job[p] \notin Active

\* When a job is reported complete, the files of its package are in their
\* place: no clean-up or removal meant for another package has taken them
\* (model_manager.md 189 "clean <package> removes incomplete staging data for
\* one package").  It holds of packages without a common file that no other's
\* clean-up matches: directories that differ once "/" is "_", and of which
\* none is another's name up to a dot.
WholeWhenComplete(p) == Report(p) /\ ~stopped[p] => Installed(p)
CompleteIsInstalled == [][\A p \in Packages : WholeWhenComplete(p)]_vars

\* Once its stop has been accepted, a package is not published any more
\* (test_server_model_installer.cpp 119-120 "cancelled package is never
\* published to its final path").
NotPublishedOnceStopped ==
  [][\A p \in Packages : stopped[p] /\ Installed(p)' => Installed(p)]_vars

\* The installer as its clients know it: a package comes into being by its own
\* installation, is taken apart by its own removal or overwriting installation
\* alone, and its job ends as it was asked to (PackageStore.tla).
ShownJob(p) ==
  IF job[p] \in {"queued", "running"} THEN "active"
  ELSE IF job[p] = "cancelling" THEN "stopping" ELSE job[p]
Store == INSTANCE PackageStore WITH
  job <- [p \in Packages |-> ShownJob(p)],
  whole <- [p \in Packages |-> Installed(p)],
  replacing <- overwrite
IsPackageStore == Store!Spec
=============================================================================
