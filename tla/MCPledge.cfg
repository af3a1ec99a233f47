\* Two pledgers who are also rewarded; amendments that are backed by grants.
CONSTANTS
    Account = {a1, a2}
    a1 = a1
    a2 = a2
    PledgeType <- OneType
    Genesis = 3
    Quantities = {1, 3}
    Rewarders <- LongLists
    Amendments <- Backed
    MaxDebt = 2
    MaxGrant = 2
SPECIFICATION Spec
INVARIANTS TypeOK Solvent DebtIsUnspent
PROPERTIES DealLosesLittle
CHECK_DEADLOCK FALSE
