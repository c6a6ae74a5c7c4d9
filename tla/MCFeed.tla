------------------------------- MODULE MCFeed -------------------------------
(* A small instance of the event feed. *)
EXTENDS Feed

CONSTANTS s1, s2, s3

MCEarly == <<s1, s2>>
=============================================================================
