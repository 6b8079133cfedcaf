\* A limit and --ui-management: the listings deadlock with a reload.
CONSTANTS
  m1 = m1
  m2 = m2
  c1 = c1
  c2 = c2
  Ids = {m1, m2}
  Clients = {c1, c2}
  Configs <- TwoConfigs
  Rejected <- MCRejected
  Key <- MCKey
  InitialConfig = "q8"
  Nobody = Nobody
  NoConfig = NoConfig
  Deployments <- ManagedTwo
SPECIFICATION Spec
INVARIANT NoCircularWait
CHECK_DEADLOCK FALSE
