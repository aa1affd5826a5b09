SPECIFICATION Spec
CONSTANTS
  w1 = w1
  w2 = w2
  hns = hns
  ens = ens
  None = None
  Workers <- MCWorkers
  Plugins <- MCPlugins
  Routes <- MCRoutes
  Requests <- MCRequests
  CanonName <- MCCanonName
  Canon <- MCCanon
  Blank = ""
  Default = "default"
  TTLs = {1}
  Timeout = 1
  MaxTime = 0
  MaxGen = 2
SYMMETRY MCSymmetry
INVARIANTS
  DisableFence
  ReloadFence
