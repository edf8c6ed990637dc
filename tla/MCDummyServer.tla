--------------------------- MODULE MCDummyServer ---------------------------
(* The dummy server with requests of two names. *)
EXTENDS DummyServer, TLC

CONSTANTS j1, j2, j3, j4, j5

MCRoute == <<"anna", "bert">>

\* Addresses differ only in name.
JobSymmetry == Permutations(Jobs)
=============================================================================
