---------------------------- MODULE MCBlockChain ----------------------------
(***************************************************************************)
(* Instances of BlockChain and FastSync.  From the genesis block g grow    *)
(*   a1 - a2 - a3    total difficulty 2, 4, 5                              *)
(*   b1 - b2 - b3    total difficulty 1, 2, 5: b3 overtakes a2 with a      *)
(*                   reorg of three blocks, and ties with a3 at the same   *)
(*                   number; b2 ties with a1 at a higher number            *)
(*   b1 - d2         total difficulty 4: ties with a2                      *)
(*   c1              total difficulty 6: heavier than every longer chain   *)
(* Transaction s is in a1, b2 and d2, t in a2, u in a3, b1 and c1.         *)
(***************************************************************************)
EXTENDS FastSync

CONSTANTS g, a1, a2, b1, b2, a3, b3, c1, d2, s, t, u

Tree ==
  [b \in {g, a1, a2, a3, b1, b2, b3, c1, d2} |->
     CASE b = g  -> [up |-> g,  num |-> 0, td |-> 0, txs |-> {}]
       [] b = a1 -> [up |-> g,  num |-> 1, td |-> 2, txs |-> {s}]
       [] b = a2 -> [up |-> a1, num |-> 2, td |-> 4, txs |-> {t}]
       [] b = a3 -> [up |-> a2, num |-> 3, td |-> 5, txs |-> {u}]
       [] b = b1 -> [up |-> g,  num |-> 1, td |-> 1, txs |-> {u}]
       [] b = b2 -> [up |-> b1, num |-> 2, td |-> 2, txs |-> {s}]
       [] b = b3 -> [up |-> b2, num |-> 3, td |-> 5, txs |-> {}]
       [] b = d2 -> [up |-> b1, num |-> 2, td |-> 4, txs |-> {s}]
       [] b = c1 -> [up |-> g,  num |-> 1, td |-> 6, txs |-> {u}]]

MCParent == [b \in Blocks \ {Genesis} |-> Tree[b].up]
MCNumber == [b \in Blocks |-> Tree[b].num]
MCTd == [b \in Blocks |-> Tree[b].td]
MCTxsOf == [b \in Blocks |-> Tree[b].txs]
MCAncestors ==
  LET Up[b \in Blocks] == {b} \cup (IF b = Genesis THEN {} ELSE Up[MCParent[b]])
  IN  Up

\* The whole tree without faults; a fork of a short heavy branch with them; fast
\* sync with one peer and crashes, with peers on two branches, and with peers on
\* one branch while another is imported afterwards.
MCWorlds ==
  {[blocks |-> Blocks \ {g}, goals |-> {}, rewind |-> FALSE, crash |-> FALSE],
   [blocks |-> {a1, a2, c1}, goals |-> {}, rewind |-> TRUE, crash |-> TRUE],
   [blocks |-> {}, goals |-> {a3}, rewind |-> FALSE, crash |-> TRUE],
   [blocks |-> {}, goals |-> {a3, d2}, rewind |-> FALSE, crash |-> FALSE],
   [blocks |-> {b1, b2, b3}, goals |-> {a2, a3}, rewind |-> FALSE, crash |-> FALSE]}
=============================================================================
