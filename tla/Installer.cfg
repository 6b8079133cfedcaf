\* Two packages that share neither a directory nor a file, installed, stopped,
\* cleaned and removed by two clients; or one of them, which is listed in
\* between by up to two scans at once.
CONSTANTS
  c1 = c1
  c2 = c2
  s1 = s1
  s2 = s2
  q8 = q8
  solo = solo
  Packages = {q8, solo}
  Callers = {c1, c2}
  Scanners = {s1, s2}
  Nobody = Nobody
  Paths <- MCPaths
  Files <- MCFiles
  StagingName <- MCStagingName
SPECIFICATION MCSpec
INVARIANTS TypeOK WorkerHasJob StagingNotForgotten InventoryTypeOK InventoryCurrent
PROPERTIES CompleteIsInstalled IsPackageStore EveryJobEnds
