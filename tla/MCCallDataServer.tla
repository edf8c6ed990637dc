-------------------------- MODULE MCCallDataServer --------------------------
(* CallDataServer with a few heap addresses, for TLC. *)
EXTENDS CallDataServer

CONSTANTS c1, c2, c3

=============================================================================
