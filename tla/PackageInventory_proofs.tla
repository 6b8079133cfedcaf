---------------------- MODULE PackageInventory_proofs ----------------------
(***************************************************************************)
(* What PackageInventory keeps for any catalog, any callers and any number *)
(* of scans: its types and InventoryCurrent.                               *)
(***************************************************************************)
EXTENDS PackageInventory, ModelInstaller_proofs

\* A scan that does not run has no rows, and what is listed, or may yet be, is
\* right whenever the disk is quiet.
Listed == asker # Nobody \/ sizeState \in {"running", "complete"}
ListingsRight ==
  /\ Listed => Right(shown)
  /\ \A s \in Scanners : scan[s] = "current" => Right(rows[s])

NoRows == \A s \in Scanners : scan[s] = "none" => rows[s] = {}

InventoryInv == InventoryTypeOK /\ NoRows /\ (Quiet => ListingsRight)

LEMMA RowType == \A p \in Packages : Row(p) \in Packages \X BOOLEAN
<1>1. \A p \in Packages : Installed(p) \in BOOLEAN
  BY DEF Installed
<1> QED
  BY <1>1 DEF Row

LEMMA InventoryInitEstablishes == InventoryInit => InventoryInv
  BY CallersAssumption
  DEF InventoryInit, InventoryInv, InventoryTypeOK, NoRows, ListingsRight,
      Right, Listed, SizeStates

\* The installer does what it does without the listing.
LEMMA StepIsInstallers == InventoryNext => [Next]_vars
<1>1. ASSUME NEW p \in Packages, WorkerReports(p) PROVE Next
  BY <1>1 DEF WorkerReports, Next, Work
<1>2. ASSUME NEW c \in Callers, RequestEnds(c) PROVE Next
  BY <1>2 DEF RequestEnds, Next, Serve, Request
<1>3. ASSUME Elsewhere PROVE Next
  BY <1>3 DEF Elsewhere, Next, Work, Serve, Request
<1>4. ASSUME NEW p \in Packages, FileStep(p) PROVE Next
  BY <1>4 DEF FileStep, Next, Work
<1>5. InventoryStep => UNCHANGED vars
  BY DEF InventoryStep, AskSizes, ListPackage, AskThrows, StartScan,
         ScanPublishes, ScanFails, ScanDropped, ScanOver, ReadRow
<1> QED
  BY <1>1, <1>2, <1>3, <1>4, <1>5 DEF InventoryNext, InstallerStep

LEMMA InstallerBelow == InventorySpec => []InstallerInv
<1>1. InventoryInit => Init
  BY DEF InventoryInit
<1>2. [InventoryNext]_<<vars, inventoryVars>> => [Next]_vars
  BY StepIsInstallers
<1> QED
  BY <1>1, <1>2, InstallerInvariant, PTL DEF InventorySpec, Spec

----------------------------------------------------------------------------

\* The types: one step per action of the listing, and one for the others.
LEMMA InventoryTypesKept ==
  InventoryInv /\ [InventoryNext]_<<vars, inventoryVars>>
    => InventoryTypeOK' /\ NoRows'
<1> SUFFICES ASSUME InventoryInv, [InventoryNext]_<<vars, inventoryVars>>
             PROVE InventoryTypeOK' /\ NoRows'
  OBVIOUS
<1> USE CallersAssumption
    DEF InventoryInv, InventoryTypeOK, NoRows, SizeStates, inventoryVars
<1>1. ASSUME NEW c \in Callers, AskSizes(c) PROVE InventoryTypeOK' /\ NoRows'
  BY <1>1 DEF AskSizes, Outdated
<1>2. ASSUME NEW p \in Packages, ListPackage(p)
      PROVE InventoryTypeOK' /\ NoRows'
  BY <1>2, RowType DEF ListPackage
<1>3. CASE AskThrows
  BY <1>3 DEF AskThrows
<1>4. ASSUME NEW s \in Scanners, StartScan(s) PROVE InventoryTypeOK' /\ NoRows'
  BY <1>4 DEF StartScan
<1>5. ASSUME NEW s \in Scanners, NEW p \in Packages, ReadRow(s, p)
      PROVE InventoryTypeOK' /\ NoRows'
  BY <1>5, RowType DEF ReadRow
<1>6. ASSUME NEW s \in Scanners, ScanPublishes(s)
      PROVE InventoryTypeOK' /\ NoRows'
  BY <1>6 DEF ScanPublishes, ScanOver
<1>7. ASSUME NEW s \in Scanners, ScanFails(s) PROVE InventoryTypeOK' /\ NoRows'
  BY <1>7 DEF ScanFails, ScanOver
<1>8. ASSUME NEW s \in Scanners, ScanDropped(s)
      PROVE InventoryTypeOK' /\ NoRows'
  BY <1>8 DEF ScanDropped, ScanOver
<1>9. ASSUME asker = Nobody, Refresh PROVE InventoryTypeOK' /\ NoRows'
  BY <1>9 DEF Refresh, Outdated
<1>10. CASE EndsSilently
  BY <1>10 DEF EndsSilently
<1>11. CASE UNCHANGED inventoryVars
  BY <1>11
<1> HIDE DEF InventoryInv, InventoryTypeOK, NoRows, inventoryVars
<1>12. CASE InventoryStep
  BY <1>12, <1>1, <1>2, <1>3, <1>4, <1>5, <1>6, <1>7, <1>8 DEF InventoryStep
<1>13. CASE InstallerStep
  BY <1>13, <1>9, <1>10, <1>11 DEF InstallerStep, WorkerReports, RequestEnds
<1> QED
  BY <1>11, <1>12, <1>13 DEF InventoryNext

----------------------------------------------------------------------------

\* A worker moves files only while its job is active.
LEMMA FileStepIsNotQuiet ==
  ASSUME InstallerInv, NEW p \in Packages, FileStep(p)
  PROVE  ~Quiet'
<1>1. worker[p] # "none" /\ job' = job
  BY DEF FileStep, Plan, AlreadyInstalled, LastCancelCheck, ListStaged,
         Published, WriteManifest, Throw, Unwind, Move, MoveLosesFile, jobVars
<1>2. job[p] \in Active
  BY <1>1 DEF InstallerInv, WorkerHasJob
<1> QED
  BY <1>1, <1>2 DEF Quiet, Active

\* The steps that neither announce their end nor touch the files as a worker
\* leave the disk as it is, unless an installation or removal is under way.
LEMMA ElsewhereIsQuiet ==
  ASSUME InstallerInv, Elsewhere, silent' = silent, Quiet'
  PROVE  Quiet /\ disk' = disk
<1> USE DEF InstallerInv
<1>1. ASSUME NEW p \in Packages,
             WorkerStart(p) \/ \E f \in Paths : Download(p, f)
      PROVE FALSE
  <2>1. worker[p] # "none" /\ job[p] \in Active
    BY <1>1 DEF WorkerStart, Download, WorkerHasJob
  <2>2. job'[p] \in Active
    BY <1>1, <2>1 DEF WorkerStart, Download, jobVars, Active, TypeOK
  <2> QED
    BY <2>2 DEF Quiet
<1>2. ASSUME NEW c \in Callers, CleanStaging(c) \/ CleanThrows(c)
      PROVE  Quiet /\ disk' = disk
  BY <1>2 DEF CleanStaging, CleanThrows, Leave, Quiet, jobVars, TypeOK
<1>3. ASSUME NEW c \in Callers, CleanErase(c) PROVE Quiet /\ disk' = disk
  <2>1. caller[c] = "clean_erase" /\ Idle(target[c])
    BY <1>3 DEF CleanErase, CallInv
  <2>2. caller' = [caller EXCEPT ![c] = "ready"]
        /\ job' = [job EXCEPT ![target[c]] = "none"]
        /\ disk' = disk
    BY <1>3 DEF CleanErase, Leave, EraseJob
  <2>3. \A p \in Packages : job[p] \notin Active
    BY <2>1, <2>2 DEF Quiet, Idle, TypeOK
  <2>4. \A d \in Callers : caller[d] # "delete"
    BY <2>1, <2>2 DEF Quiet, TypeOK
  <2> QED
    BY <2>2, <2>3, <2>4 DEF Quiet
<1>4. ASSUME NEW c \in Callers,
             RemovePlan(c) \/ \E f \in Paths : RemoveFile(c, f)
      PROVE FALSE
  BY <1>4 DEF RemovePlan, RemoveFile, Quiet, TypeOK
<1>5. ASSUME NEW c \in Callers, NEW p \in Packages,
             Stop(c, p) \/ \E replace \in BOOLEAN : Start(c, p, replace)
      PROVE FALSE
  BY <1>5 DEF Stop, Start, Quiet, TypeOK, Active
<1>6. ASSUME NEW c \in Callers, NEW p \in Packages,
             Enter(c, p, "clean") \/ Enter(c, p, "remove")
      PROVE Quiet /\ disk' = disk
  BY <1>6 DEF Enter, MayCall, Quiet, jobVars, TypeOK
<1> QED
  BY <1>1, <1>2, <1>3, <1>4, <1>5, <1>6 DEF Elsewhere

\* Rows stay right while the disk stays as it is.
LEMMA RightStays ==
  ASSUME disk' = disk, UNCHANGED <<sizeState, scan, rows, shown, asker>>,
         ListingsRight
  PROVE  ListingsRight'
  BY DEF ListingsRight, Listed, Right, Installed

LEMMA InstallerStepKeeps ==
  ASSUME InventoryInv, InstallerInv, InstallerStep, Quiet'
  PROVE  ListingsRight'
<1> USE DEF InventoryInv
<1>1. ASSUME asker = Nobody, Refresh PROVE ListingsRight'
  BY <1>1 DEF Refresh, Outdated, ListingsRight, Listed, InventoryTypeOK
<1>2. ~EndsSilently
  BY DEF EndsSilently, Quiet
<1>3. ASSUME Elsewhere, UNCHANGED inventoryVars PROVE ListingsRight'
  <2>1. Quiet /\ disk' = disk
    BY <1>3, ElsewhereIsQuiet DEF inventoryVars
  <2> QED
    BY <1>3, <2>1, RightStays DEF inventoryVars
<1> QED
  BY <1>1, <1>2, <1>3, FileStepIsNotQuiet
  DEF InstallerStep, WorkerReports, RequestEnds

LEMMA InventoryStepKeeps ==
  ASSUME InventoryInv, InventoryStep, Quiet'
  PROVE  ListingsRight'
<1>1. disk' = disk /\ job' = job /\ caller' = caller
  BY DEF InventoryStep, AskSizes, ListPackage, AskThrows, StartScan, ReadRow,
         ScanPublishes, ScanFails, ScanDropped, ScanOver, vars, jobVars, callVars
<1>2. \A p \in Packages : Installed(p)' = Installed(p)
  BY <1>1 DEF Installed
<1>3. silent' = silent => ListingsRight
  BY <1>1 DEF Quiet, InventoryInv
<1> USE DEF ListingsRight, Listed, Right, InventoryInv, InventoryTypeOK
<1>4. ASSUME NEW c \in Callers, AskSizes(c) PROVE ListingsRight'
  BY <1>4 DEF AskSizes, Outdated
<1>5. ASSUME NEW p \in Packages, ListPackage(p) PROVE ListingsRight'
  BY <1>5, <1>2, <1>3 DEF ListPackage, Row
<1>6. CASE AskThrows
  BY <1>6, <1>3 DEF AskThrows
<1>7. ASSUME NEW s \in Scanners, StartScan(s) PROVE ListingsRight'
  BY <1>7, <1>2, <1>3 DEF StartScan, NoRows
<1>8. ASSUME NEW s \in Scanners, NEW p \in Packages, ReadRow(s, p)
      PROVE ListingsRight'
  BY <1>8, <1>2, <1>3 DEF ReadRow, Row
<1>9. ASSUME NEW s \in Scanners, ScanPublishes(s) PROVE ListingsRight'
  BY <1>9, <1>2, <1>3 DEF ScanPublishes, ScanOver
<1>10. ASSUME NEW s \in Scanners, ScanFails(s) PROVE ListingsRight'
  BY <1>10, <1>2, <1>3 DEF ScanFails, ScanOver
<1>11. ASSUME NEW s \in Scanners, ScanDropped(s) PROVE ListingsRight'
  BY <1>11, <1>2, <1>3 DEF ScanDropped, ScanOver
<1> HIDE DEF ListingsRight, Listed, Right, InventoryInv, InventoryTypeOK
<1> QED
  BY <1>4, <1>5, <1>6, <1>7, <1>8, <1>9, <1>10, <1>11 DEF InventoryStep

LEMMA InventoryInvariant == InventorySpec => []InventoryInv
<1>1. InventoryInv /\ InstallerInv /\ [InventoryNext]_<<vars, inventoryVars>>
        => InventoryInv'
  <2> SUFFICES ASSUME InventoryInv, InstallerInv,
                      [InventoryNext]_<<vars, inventoryVars>>, Quiet'
               PROVE ListingsRight'
    BY InventoryTypesKept DEF InventoryInv
  <2>1. CASE UNCHANGED <<vars, inventoryVars>>
    <3>1. disk' = disk /\ job' = job /\ caller' = caller
      BY <2>1 DEF vars, jobVars, callVars
    <3>2. Quiet /\ UNCHANGED <<sizeState, scan, rows, shown, asker>>
      BY <2>1, <3>1 DEF Quiet, inventoryVars
    <3> QED
      BY <3>1, <3>2, RightStays DEF InventoryInv
  <2> QED
    BY <2>1, InstallerStepKeeps, InventoryStepKeeps DEF InventoryNext
<1> QED
  BY InventoryInitEstablishes, InstallerBelow, <1>1, PTL DEF InventorySpec

\* A scan that was overtaken cannot end the listing of another, however many
\* scans are under way.
THEOREM InventoryTypes == InventorySpec => []InventoryTypeOK
<1>1. InventoryInv => InventoryTypeOK
  BY DEF InventoryInv
<1> QED
  BY InventoryInvariant, <1>1, PTL

\* No row read before a package was installed or removed outlives that change.
THEOREM ListingIsCurrent == InventorySpec => []InventoryCurrent
<1>1. InventoryInv => InventoryCurrent
  BY DEF InventoryInv, InventoryCurrent, ListingsRight, Listed
<1> QED
  BY InventoryInvariant, <1>1, PTL
=============================================================================
