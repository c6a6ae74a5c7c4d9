CONSTANTS
  g = g  a1 = a1  a2 = a2  a3 = a3  b1 = b1  b2 = b2  b3 = b3  c1 = c1  d2 = d2
  s = s  t = t  u = u
  Blocks = {g, a1, a2, a3, b1, b2, b3, c1, d2}
  Genesis = g
  None = None
  Parent <- MCParent
  Number <- MCNumber
  Td <- MCTd
  Ancestors <- MCAncestors
  TxsOf <- MCTxsOf
  Txs = {s, t, u}
  MaxNumber = 3
  Mined = {a3, c1, d2}
  Worlds <- MCWorlds
  MinFullBlocks = 1
  PivotInterval = 1
  ForceVerify = 1
  SafetyNet = 2
SPECIFICATION FastSpec
INVARIANTS HeadComplete NeverStuck  HeaviestHead LookupCanonical DatabaseClosed
CHECK_DEADLOCK FALSE
