SPECIFICATION FairSpec
CONSTANTS
  a = a
  b = b
  self = self
  Nodes = {a, b}
  Self = self
  Barred = {}
  Trusted = {b}
  StaticNodes = {a}
  Managed = {a}
  Bootnodes <- MCBoot
  Slots = {i1}
  MaxPeers = 1
  MaxDynDials = 1
  MaxActiveDialTasks = 2
  MaxResults = 1
PROPERTIES
  StopReturns
CHECK_DEADLOCK FALSE
