SPECIFICATION FairSpec
CONSTANTS
  p1 = p1
  p2 = p2
  Peers = {p1, p2}
  Master = p1
  Honest = {p1}
  Height = 2
  CacheLimit = 1
  ForceVerify = 0
  EmptyParts <- MCNoEmptyParts
  Pivots = {0}
  Capacities = {1}
  ExpiryLimit = 0
  MaxFaults = 1
PROPERTY SessionEnds
