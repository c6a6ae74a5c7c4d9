----------------------------- MODULE MCFetcher -----------------------------
(* Small instances of Fetcher for TLC: a chain of at most two blocks on    *)
(* top of the genesis block.                                               *)
EXTENDS Fetcher, TLC

CONSTANTS h1, h2, p1, p2, p3

Restrict(f) == [h \in Hashes |-> f[h]]
MCNumber == Restrict(h1 :> 1 @@ h2 :> 2)
MCNumberForged == Restrict(h1 :> 1 @@ h2 :> 1)   \* h2 claims the number of its parent
MCParent == Restrict(h1 :> Genesis @@ h2 :> h1)
MCBody == Restrict(h1 :> "txs1" @@ h2 :> "txs2")

\* No action reads dropped, and the invariants ask for the honest peers in it.
MCView == <<pc, stages, imports, timers, aged, chain, dropped \cap Honest>>
============================================================================
