------------------------------ MODULE MCBudget ------------------------------
(* Budget for TLC. *)
EXTENDS Budget

CONSTANTS pa, pb, m1, m2, m3

BothPledged == [p \in Proposer |-> 2]
OnlyA == [p \in Proposer |-> IF p = pa THEN 2 ELSE 1]
ThreeOrOne == {{m1, m2, m3}, {m2}}
OneMember == {{m1}}
Minus == {-1, 2}
=============================================================================
