CONSTANTS
  None = None
  Index <- MCIndex
  AddrHash <- MCAddrHash
  Slots = {s1}
  Words <- MCWords
  Codes = {c1}
  Ripemd = "ripemd"
  Worlds <- MCWorlds
  MaxBalance = 1
  MaxNonce = 1
SPECIFICATION Spec
INVARIANTS
  RevertExact
  RootIsState
  
