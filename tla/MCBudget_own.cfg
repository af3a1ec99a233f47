\* Two proposers, one member in the committee.
CONSTANTS
    pa = pa  pb = pb  m1 = m1  m2 = m2  m3 = m3
    Proposer = {pa, pb}
    Pledge <- BothPledged
    MIN_BUDGET_PLEDGE = 1
    Committee <- OneMember
    APPROVE_BLOCK_NUM = 1
    Asked = {2}
    Taken = {1}
    Funds = 3
    MaxBlock = 3
    MaxMotion = 0
    MaxTakeCoin = 0
SPECIFICATION Spec
PROPERTIES PaidToItsProposer
CHECK_DEADLOCK FALSE
