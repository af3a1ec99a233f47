\* One open motion at a time, with two takecoins, a hand-over at any moment.
CONSTANTS
    pa = pa  pb = pb  m1 = m1  m2 = m2  m3 = m3
    Proposer = {pa, pb}
    Pledge <- OnlyA
    MIN_BUDGET_PLEDGE = 1
    Committee <- ThreeOrOne
    APPROVE_BLOCK_NUM = 1
    Asked = {2}
    Taken <- Minus
    Funds = 4
    MaxBlock = 3
    MaxMotion = 0
    MaxTakeCoin = 1
SPECIFICATION Spec
INVARIANTS TypeOK VerdictBacked PaidWithinAsked
CHECK_DEADLOCK FALSE
