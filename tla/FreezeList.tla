----------------------------- MODULE FreezeList -----------------------------
(***************************************************************************)
(* What eosio.freeze promises to is_account_freezed (eosio.system,         *)
(* freeze.cpp): one list of accounts is put in force, once, and accounts   *)
(* are only ever released from it.                                         *)
(***************************************************************************)
CONSTANT Account

VARIABLES
    inForce,   \* whether a list is in force
    frozen     \* the accounts in it

Init == inForce = FALSE /\ frozen = {}

Enforce ==
    /\ ~inForce /\ inForce' = TRUE
    /\ frozen' \in SUBSET Account

Release ==
    /\ inForce /\ inForce' = TRUE
    /\ \E account \in frozen : frozen' = frozen \ {account}

Next == Enforce \/ Release
Spec == Init /\ [][Next]_<<inForce, frozen>>
=============================================================================
