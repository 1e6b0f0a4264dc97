--------------------------- MODULE MCMessageBuffer ---------------------------
(* MessageBuffer for TLC. *)
EXTENDS MessageBuffer, TLC

Symmetry == Permutations(Lines)
=============================================================================
