------------------------------ MODULE MCTxPool ------------------------------
EXTENDS TxPool

CONSTANTS alice, bob, a0, a0x, a1, a2, b0, b1, g, x, y

MCFrom == [t \in Txs |-> IF t \in {b0, b1} THEN bob ELSE alice]
MCNonce == [t \in Txs |-> CASE t \in {a1, b1} -> 1 [] t = a2 -> 2 [] OTHER -> 0]
MCPrice == [t \in Txs |-> IF t \in {a0x, b1} THEN 2 ELSE 1]
MCCost == [t \in Txs |-> IF t = a1 THEN 2 ELSE 1]
MCParent == x :> g @@ y :> g
MCBlockTxs == g :> <<>> @@ x :> <<a0, a1>> @@ y :> <<b0>>
MCBalance == [blk \in Blocks |-> [c \in Accounts |-> IF blk = y THEN 1 ELSE 2]]
MCBatches == {<<t>> : t \in Txs} \cup {<<a1, a0>>}
=============================================================================
