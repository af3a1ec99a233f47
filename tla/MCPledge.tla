------------------------------ MODULE MCPledge ------------------------------
(* Pledge for TLC. *)
EXTENDS Pledge

CONSTANTS a1, a2

OneType == {"block.out"}

\* Lists of one, two and three rewarders, one of them with a repetition.
Lists == {<<a2>>, <<a1, a2>>, <<a2, a1, a2>>}
LongLists == {<<a1, a2>>, <<a2, a1, a2>>}

\* Amendments that forgive a debt, or grant a pledge.
Backed == {[pledge |-> 0, deduction |-> 0], [pledge |-> 2, deduction |-> 0]}
NoAmends == {}
=============================================================================
