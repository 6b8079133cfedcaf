\* Fairness, with limit and memory guard: one model fits; inferences may be wedged,
\* and requests are answered when they are not; the idle thread runs beside them.
CONSTANTS
  c1 = c1
  c2 = c2
  m1 = m1
  m2 = m2
  m3 = m3
  m4 = m4
  Models = {m1, m2}
  Lazy = {m2}
  Clients = {c1, c2}
  IdleThread = IdleThread
  Nobody = Nobody
  MaxLoadedModels = 1
  MinFreeMemory = 1
  Capacity = 2
  Footprint <- MCFootprint
  Estimate <- MCEstimate
  Estimable = {m1, m2}
  BusyTimeoutMs = 1
  IdleUnloadMs = 1
  MaxTime = 1
SPECIFICATION FairSpec
INVARIANT NeverUnloadedMidRun
PROPERTIES WedgeContained EveryRequestAnswered
