------------------------------ MODULE MCClique ------------------------------
(* Small instances of Clique. *)
EXTENDS Clique

CONSTANTS A, B, C, D
=============================================================================
