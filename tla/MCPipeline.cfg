SPECIFICATION Spec
CONSTANTS
  w1 = w1
  w2 = w2
  client = client
  None = None
  Workers <- MCWorkers
  Clients <- MCClients
  Bases <- MCBases
  Labels <- MCLabels
  Policy <- MCPolicy
  Queries <- MCQueries
  HookTimeout = 1
  RequestTimeout = 1
  HoneypotTimeout = 1
SYMMETRY MCSymmetry
INVARIANTS
  AuditMatchesReply
  
  
  RightResolver
  QueryRateBound
  NXDomainBound
