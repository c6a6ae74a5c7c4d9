SPECIFICATION FairSpec
PROPERTIES
  AnnouncementsServed
  FetchesExpire
CONSTANTS
  h1 = h1
  h2 = h2
  p1 = p1
  p2 = p2
  p3 = p3
  Genesis = Genesis
  None = None
  Number <- MCNumberForged
  Parent <- MCParent
  Body <- MCBody
  Peers = {p1}
  Hashes = {h1, h2}
  EmptyBlocks = {h2}
  BadHeaders = {h2}
  Claims = {1}
  Honest = {}
  HashLimit = 1
  BlockLimit = 1
  MaxUncleDist = 0
  MaxQueueDist = 2
  MaxAnnounces = 2
  MaxDeficit = 0
CHECK_DEADLOCK FALSE
