\* One package, installed and stopped by one client.
CONSTANTS
  c1 = c1
  q8 = q8
  f16 = f16
  Packages = {q8}
  Callers = {c1}
  Nobody = Nobody
  Paths <- MCPaths
  Files <- MCFiles
  StagingName <- MCStagingName
SPECIFICATION Spec
PROPERTY NotPublishedOnceStopped
