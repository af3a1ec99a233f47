------------------------------- MODULE MCVote -------------------------------
(* Vote with small constants for TLC. *)
EXTENDS Vote, TLC

MCFixBlocks == [t \in FixType |-> IF t = "fvote.a" THEN 1 ELSE 2]
MCFixPower == [t \in FixType |-> IF t = "fvote.a" THEN 2 ELSE 3]

Symmetry == Permutations(Voter) \cup Permutations(BP)
=============================================================================
