--------------------------- MODULE MCSessionStream ---------------------------
(* An instance of SessionStream for TLC. *)
EXTENDS SessionStream

CONSTANTS s1
=============================================================================
