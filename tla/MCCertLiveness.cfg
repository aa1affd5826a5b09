SPECIFICATION FairSpec
CONSTANTS
  k1 = k1
  k2 = k2
  d1 = d1
  d2 = d2
  i1 = i1
  i2 = i2
  c1 = c1
  c2 = c2
  None = None
  MaxAttempts = 2
  Keys <- MCKeys
  Domains <- MCOneDomain
  Issuers <- MCTwoIssuers
  Callers <- MCNoCaller
INVARIANT IssuerFence
PROPERTY JobsEnd
