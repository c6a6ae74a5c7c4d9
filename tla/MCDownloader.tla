---------------------------- MODULE MCDownloader ----------------------------
(* Small instances of Downloader for TLC. *)
EXTENDS Downloader, TLC

CONSTANTS p1, p2

\* Block 2 has no transactions and so no receipts.
MCEmptyParts == [k \in Kinds |-> {2}]
MCNoEmptyParts == [k \in Kinds |-> {}]
============================================================================
