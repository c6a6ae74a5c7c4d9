CONSTANTS
  alice = alice  bob = bob  a0 = a0  a0x = a0x  a1 = a1  a2 = a2  b0 = b0  b1 = b1 
  g = g  x = x  y = y
  Accounts = {alice, bob}  Wallets = {alice}
  Txs = {a0, a0x, a1, a2, b0, b1}
  From <- MCFrom  Nonce <- MCNonce  Price <- MCPrice  Cost <- MCCost
  Blocks = {g, x, y}  Genesis = g  Parent <- MCParent
  BlockTxs <- MCBlockTxs  Balance <- MCBalance  Batches <- MCBatches
  PriceLimit = 1  GasPrices = {1, 2}
  PriceBump = 10  AccountSlots = 1  GlobalSlots = 2  AccountQueue = 1  GlobalQueue = 2
  MaxReorgDepth = 64  MaxHeap = 5  MaxDrift = 1
SPECIFICATION Spec
INVARIANTS
  
  StillPayable
  
  NothingReadyQueued
PROPERTIES
  GapsOnlyByReset
  LocalsNeverLost
