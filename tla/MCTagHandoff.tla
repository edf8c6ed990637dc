---------------------------- MODULE MCTagHandoff ----------------------------
(* TagHandoff with three interchangeable completions, for TLC. *)
EXTENDS TagHandoff, TLC

CONSTANTS t1, t2, t3

=============================================================================
