\* Two precisions of one model, which share a directory and a sidecar.
CONSTANTS
  c1 = c1
  q8 = q8
  f16 = f16
  Packages = {q8, f16}
  Callers = {c1}
  Nobody = Nobody
  Paths <- MCPaths
  Files <- MCFiles
  StagingName <- MCStagingName
SPECIFICATION Spec
PROPERTY CompleteIsInstalled
