SPECIFICATION Spec
CONSTANTS
  w1 = w1
  w2 = w2
  hns = hns
  ens = ens
  None = None
  Workers <- MCWorkers
  Plugins <- MCOnePlugin
  Routes <- MCOneConfig
  Requests <- MCViews
  CanonName <- MCCanonName
  Canon <- MCCanon
  Blank = ""
  Default = "default"
  TTLs = {0, 1}
  Timeout = 1
  MaxTime = 3
  MaxGen = 1
SYMMETRY MCSymmetry
INVARIANTS
  TypeOK
  
  AgeBound
  FlushFence
