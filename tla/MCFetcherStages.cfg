SPECIFICATION Spec
VIEW MCView
INVARIANTS
  QueuedExactlyOnce
  NoLeakedCharge
  HonestNotDropped
CONSTANTS
  h1 = h1
  h2 = h2
  p1 = p1
  p2 = p2
  p3 = p3
  Genesis = Genesis
  None = None
  Number <- MCNumber
  Parent <- MCParent
  Body <- MCBody
  Peers = {p1, p2}
  Hashes = {h1, h2}
  EmptyBlocks = {h1}
  BadHeaders = {h2}
  Claims = {0, 1, 2}
  Honest = {p1}
  HashLimit = 1
  BlockLimit = 1
  MaxUncleDist = 0
  MaxQueueDist = 1
  MaxAnnounces = 2
  MaxDeficit = 0
CHECK_DEADLOCK FALSE
