------------------------------- MODULE MCToken ------------------------------
(* Token for TLC. *)
EXTENDS Token, TLC

AnyAmounts == -1..3
Symmetry == Permutations(Account)
=============================================================================
