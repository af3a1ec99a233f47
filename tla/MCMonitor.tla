----------------------------- MODULE MCMonitor ------------------------------
(* Monitor for TLC. *)
EXTENDS Monitor

OneConfig == {[weight_limit |-> 3, reset_num |-> 0]}
FourHasPledged == [p \in Producer |-> [exists |-> p = 4, amount |-> IF p = 4 THEN 3 ELSE 0]]
Second == {<<2, 2>>}
TwoSchedules == {{1, 2, 4}, {2, 3, 4}}
SecondIsVoted == {[p \in Producer |-> IF p = 2 THEN 2 ELSE 0]}
SecondAtThree == {<<2, 3>>}
NoneOpen == {{}}
=============================================================================
