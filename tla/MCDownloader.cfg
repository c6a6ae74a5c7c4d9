SPECIFICATION Spec
CONSTANTS
  p1 = p1
  p2 = p2
  Peers = {p1, p2}
  Master = p1
  Honest = {p2}
  Height = 3
  CacheLimit = 2
  ForceVerify = 1
  EmptyParts <- MCEmptyParts
  Pivots = {0, 1}
  Capacities = {2}
  ExpiryLimit = 1
  MaxFaults = 1
INVARIANTS
  
  EachPartOnce
  NoLostWakeup
  
