\* Two clients, four models of which three may be resident: an eviction has up
\* to three candidates to sort.  The memory guard has an estimate for the large
\* model only, so that it never stands in for the limit.  ResidencyFair has the
\* idle thread.
CONSTANTS
  c1 = c1
  c2 = c2
  m1 = m1
  m2 = m2
  m3 = m3
  m4 = m4
  Models = {m1, m2, m3, m4}
  Lazy = {}
  Clients = {c1, c2}
  IdleThread = IdleThread
  Nobody = Nobody
  MaxLoadedModels = 3
  MinFreeMemory = 1
  Capacity = 4
  Footprint <- MCFootprint
  Estimate <- MCEstimate
  Estimable = {m3}
  BusyTimeoutMs = 1
  IdleUnloadMs = 0
  MaxTime = 1
SPECIFICATION Spec
SYMMETRY SmallModelSymmetry
INVARIANTS TypeOK NeverUnloadedMidRun ResidentBound WaitsEnd
PROPERTIES HeadroomKept LruRespected IsModelPool
