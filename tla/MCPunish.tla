------------------------------ MODULE MCPunish ------------------------------
(* Punish for TLC: two of three producers at a time, two schedules; the    *)
(* third has the pledge a proposal needs and is not in the first schedule. *)
EXTENDS Punish

OneConfig == {[weight_limit |-> 1, reset_num |-> 0]}
TwoSchedules == {{1, 2}, {2, 3}}
TwoHavePledged ==
    [p \in Producer |-> [exists |-> p \in {2, 3}, amount |-> <<0, 3, 2>>[p]]]
NoPledged == {}
SecondIsVoted == {[p \in Producer |-> IF p = 2 THEN 1 ELSE 0]}
SecondAtThree == {<<2, 3>>}
AllOpen == {{"c.heartbeat", "c.bppunish"}}
=============================================================================
