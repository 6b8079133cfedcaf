-------------------------- MODULE PackageInventory --------------------------
(***************************************************************************)
(* The listing of installed packages behind                                *)
(* GET /v1/ui/models/package-sizes: ModelInstaller::package_sizes          *)
(* (app/server/model_installer.cpp) and PackageManager::inventory          *)
(* (framework/package_manager/manager.cpp), beside the installations and   *)
(* removals of ModelInstaller.                                             *)
(*   - A request takes a first listing itself, under State::mutex, and     *)
(*     starts a thread that asks the remote hosts and lists again.         *)
(*   - The files it reads are behind no lock: workers move them meanwhile. *)
(*   - An installation or removal that ends bumps size_generation, and a   *)
(*     scan that finds another generation than its own publishes nothing.  *)
(* Of a generation only "the newest" is kept.  Sizes, revisions and the    *)
(* text of the rows are left out, and so is that a listing longer than     *)
(* 64 KiB is answered as an empty one.                                     *)
(***************************************************************************)
EXTENDS ModelInstaller

CONSTANT Scanners   \* scan threads that may be there at once (a bound)

VARIABLES
  sizeState,   \* size_state
  scan,        \* scanner -> "current" while its generation is the newest
  rows,        \* scanner -> rows it has read: <<package, installed>>
  shown,       \* rows a request is answered with
  asker,       \* caller that is taking the first listing
  silent       \* history: something ended without a bump since the last listing

inventoryVars == <<sizeState, scan, rows, shown, asker, silent>>

SizeStates == {"idle", "running", "complete", "failed"}

Row(p) == <<p, Installed(p)>>
Unread(listing) == {p \in Packages : \A row \in listing : row[1] # p}

StillCurrent(s) == scan[s]
Outdated(s) == IF scan[s] = "none" THEN "none" ELSE "outdated"

InventoryInit ==
  /\ Init
  /\ sizeState = "idle"
  /\ scan = [s \in Scanners |-> "none"]
  /\ rows = [s \in Scanners |-> {}]
  /\ shown = {}
  /\ asker = Nobody
  /\ silent = FALSE

----------------------------------------------------------------------------
(* package_sizes: the request.  It holds State::mutex from here to the     *)
(* start of the thread.                                                    *)

AskSizes(c) ==
  /\ MayCall(c)
  /\ asker = Nobody
  /\ sizeState = "idle"
  /\ \E s \in Scanners : scan[s] = "none"
  /\ asker' = c
  /\ sizeState' = "running"
  /\ scan' = [s \in Scanners |-> Outdated(s)]
  /\ shown' = {}
  /\ silent' = FALSE
  /\ UNCHANGED <<vars, rows>>

\* A row of inventory(false).
ListPackage(p) ==
  /\ asker # Nobody
  /\ p \in Unread(shown)
  /\ shown' = shown \cup {Row(p)}
  /\ UNCHANGED <<vars, sizeState, scan, rows, asker, silent>>

StartScan(s) ==
  /\ asker # Nobody
  /\ Unread(shown) = {}
  /\ scan[s] = "none"
  /\ scan' = [scan EXCEPT ![s] = "current"]
  /\ asker' = Nobody
  /\ UNCHANGED <<vars, sizeState, rows, shown, silent>>

\* inventory, write_text_atomic or the start of the thread throws: nothing
\* is listed, and size_state stays running.
AskThrows ==
  /\ asker # Nobody
  /\ shown' = {}
  /\ asker' = Nobody
  /\ UNCHANGED <<vars, sizeState, scan, rows, silent>>

----------------------------------------------------------------------------
(* The scan: inventory(true), in any order of the packages.                *)

ReadRow(s, p) ==
  /\ scan[s] # "none"
  /\ p \in Unread(rows[s])
  /\ rows' = [rows EXCEPT ![s] = @ \cup {Row(p)}]
  /\ UNCHANGED <<vars, sizeState, scan, shown, asker, silent>>

ScanOver(s) ==
  /\ scan' = [scan EXCEPT ![s] = "none"]
  /\ rows' = [rows EXCEPT ![s] = {}]
  /\ UNCHANGED <<vars, asker, silent>>

ScanPublishes(s) ==
  /\ scan[s] = "current"
  /\ Unread(rows[s]) = {}
  /\ asker = Nobody
  /\ sizeState' = "complete"
  /\ shown' = rows[s]
  /\ ScanOver(s)

ScanFails(s) ==
  /\ scan[s] = "current"
  /\ asker = Nobody
  /\ sizeState' = "failed"
  /\ ScanOver(s)
  /\ UNCHANGED shown

ScanDropped(s) ==
  /\ scan[s] = "outdated"
  /\ asker = Nobody
  /\ ScanOver(s)
  /\ UNCHANGED <<sizeState, shown>>

----------------------------------------------------------------------------
(* Installations and removals.                                             *)

\* What a worker does without State::mutex.
FileStep(p) ==
  \/ Plan(p) \/ AlreadyInstalled(p) \/ LastCancelCheck(p) \/ ListStaged(p)
  \/ Published(p) \/ WriteManifest(p) \/ Throw(p) \/ Unwind(p)
  \/ \E f \in Paths : Move(p, f) \/ MoveLosesFile(p, f)

Unannounced == UNCHANGED inventoryVars

\* size_generation is bumped.
Refresh ==
  /\ sizeState' = "idle"
  /\ scan' = [s \in Scanners |-> Outdated(s)]
  /\ UNCHANGED <<rows, shown, asker, silent>>

\* A stopped job, a failed one and a removal that throws end without a bump,
\* whatever they did to the files.
EndsSilently ==
  /\ silent' = TRUE
  /\ UNCHANGED <<sizeState, scan, rows, shown, asker>>

WorkerReports(p) ==
  \/ Report(p) /\ ~stopped[p] /\ Refresh
  \/ Report(p) /\ stopped[p] /\ EndsSilently
  \/ ReportFailure(p) /\ EndsSilently

RequestEnds(c) ==
  \/ RemoveDone(c) /\ Refresh
  \/ RemoveThrows(c) /\ EndsSilently
  \/ SetModelsRoot(c) /\ Refresh   \* a new installer

Elsewhere ==
  \/ \E p \in Packages : WorkerStart(p) \/ \E f \in Paths : Download(p, f)
  \/ \E c \in Callers :
       \/ CleanStaging(c) \/ CleanThrows(c) \/ CleanErase(c) \/ RemovePlan(c)
       \/ \E f \in Paths : RemoveFile(c, f)
       \/ \E p \in Packages :
            \/ \E replace \in BOOLEAN : Start(c, p, replace)
            \/ Stop(c, p) \/ Enter(c, p, "clean") \/ Enter(c, p, "remove")

InstallerStep ==
  \/ asker = Nobody /\ \E p \in Packages : WorkerReports(p)
  \/ asker = Nobody /\ \E c \in Callers : RequestEnds(c)
  \/ asker = Nobody /\ Elsewhere /\ UNCHANGED inventoryVars
  \/ (\E p \in Packages : FileStep(p)) /\ UNCHANGED inventoryVars

InventoryStep ==
  \/ \E c \in Callers : AskSizes(c)
  \/ \E p \in Packages : ListPackage(p)
  \/ AskThrows
  \/ \E s \in Scanners :
       \/ StartScan(s) \/ ScanPublishes(s) \/ ScanFails(s) \/ ScanDropped(s)
       \/ \E p \in Packages : ReadRow(s, p)

InventoryNext == InstallerStep \/ InventoryStep

InventorySpec == InventoryInit /\ [][InventoryNext]_<<vars, inventoryVars>>

\* A worker may wait for State::mutex: the request that holds it goes on.
InventoryFairness ==
  /\ InstallerFairness
  /\ WF_inventoryVars(\/ AskThrows
                      \/ \E p \in Packages : ListPackage(p)
                      \/ \E s \in Scanners : StartScan(s))

----------------------------------------------------------------------------
(* Properties.                                                             *)

\* Every variable has its type; one scan at most may still publish, and only
\* while a listing is running: a scan that was overtaken can neither complete
\* nor fail the listing of another (model_installer.cpp 627, 634).
InventoryTypeOK ==
  /\ sizeState \in SizeStates
  /\ scan \in [Scanners -> {"none", "current", "outdated"}]
  /\ rows \in [Scanners -> SUBSET (Packages \X BOOLEAN)]
  /\ shown \in SUBSET (Packages \X BOOLEAN)
  /\ asker \in Callers \cup {Nobody}
  /\ silent \in BOOLEAN
  /\ \A s, t \in Scanners : scan[s] = "current" /\ scan[t] = "current" => s = t
  /\ \A s \in Scanners : scan[s] = "current" => sizeState = "running" /\ asker = Nobody
  /\ asker # Nobody => sizeState = "running"

Right(listing) == \A row \in listing : row[2] = Installed(row[1])

\* Nothing is being installed or removed, and what was has been announced.
Quiet ==
  /\ \A p \in Packages : job[p] \notin Active
  /\ \A c \in Callers : caller[c] # "delete"
  /\ ~silent

\* What package-sizes answers is what is on the disk, once the installations
\* and removals that were announced are over: no row read before a package
\* was installed or removed outlives it, whichever of the scan, the first
\* listing and the change came first (model_installer.cpp 388, 584, 627).
InventoryCurrent ==
  Quiet /\ asker = Nobody /\ sizeState \in {"running", "complete"} => Right(shown)
=============================================================================
