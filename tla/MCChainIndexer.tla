--------------------------- MODULE MCChainIndexer ---------------------------
(* A small instance of the chain indexer. *)
EXTENDS ChainIndexer

\* The chains fork after block 2, inside the second section, and after block 3.
MCBranches == {<<"a0", "a1", "a2", "a3", "a4", "a5", "a6">>,
               <<"a0", "a1", "a2", "b3", "b4", "b5", "b6">>,
               <<"a0", "a1", "a2", "a3", "c4", "c5", "c6">>}
MCSize == [i \in Indexers |-> 2]
MCConfirms == [i \in Indexers |-> IF i = "parent" THEN 1 ELSE 0]
=============================================================================
