\* A change of schedule in the middle of a round.
CONSTANTS
    Producer = {1, 2, 3, 4}
    NUM_OF_TOP_BPS = 3
    BASE_BLOCK_OUT_WEIGHT = 1
    BP_PUBISH_DRAIN_NUM = 1
    BASE_BLOCK_OUT_PLEDGE = 1
    DRAIN_BLOCK_PUNISH = 1
    BLOCK_OUT_REWARD = 2
    MIN_CLAIM_BP = 5
    Configs <- OneConfig
    BpAccountRewards <- SecondIsVoted
    HbMax = {1}
    OpenFuncs <- NoneOpen
    Beating <- SecondAtThree
    Intervals = {1}
    Elected <- TwoSchedules
    FirstPledge <- FourHasPledged
    Pledged <- Second
    MaxBlock = 5
    MaxMiss = 1
    MaxVersion = 2
SPECIFICATION Spec
PROPERTY ChargedForMisses
CHECK_DEADLOCK FALSE
