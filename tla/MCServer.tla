------------------------------ MODULE MCServer ------------------------------
(* Small instances of the peer-to-peer server. *)
EXTENDS Server

CONSTANTS a, b, self

MCBoot == <<b>>
=============================================================================
