\* Three accounts, two tokens of either precision and one that is never created.
CONSTANTS
    Account = {a1, a2, a3}
    Code = {"EOS", "TOK", "COIN"}
    CoreCode = "EOS"
    Precision = {2, 4}
    NoStat = NoStat
    Supplies = {0, 3}
    Amounts <- AnyAmounts
SPECIFICATION Spec
INVARIANTS TypeOK SupplyIsSum
SYMMETRY Symmetry
