SPECIFICATION FairSpec
CONSTANTS
  a = a
  b = b
  self = self
  Nodes = {a, b, self}
  Self = self
  Barred = {}
  Trusted = {}
  StaticNodes = {a, self}
  Managed = {a}
  Bootnodes <- MCBoot
  Slots = {i1}
  MaxPeers = 1
  MaxDynDials = 1
  MaxActiveDialTasks = 2
  MaxResults = 1
INVARIANTS
  DynLimit
  PeerLimit
PROPERTIES
  NeverReplaced
  KeptDialled
CHECK_DEADLOCK FALSE
