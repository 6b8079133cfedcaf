\* Two clients register, reconfigure, run and list two models, without a limit;
\* and the same on a fixed list of two with a limit of one.
CONSTANTS
  m1 = m1
  m2 = m2
  c1 = c1
  c2 = c2
  Ids = {m1, m2}
  Clients = {c1, c2}
  Configs <- ThreeConfigs
  Rejected <- MCRejected
  Key <- MCKey
  InitialConfig = "q8"
  Nobody = Nobody
  NoConfig = NoConfig
  Deployments <- ManagedOrFixed
SPECIFICATION ReturningSpec
INVARIANTS TypeOK SessionMatchesConfig RegisteredOnce NoCircularWait
PROPERTIES RunUndisturbed EveryRequestAnswered
