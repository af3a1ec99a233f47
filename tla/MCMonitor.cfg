\* Three of four producers at a time, two schedules, at most one slot missed
\* by a producer between two settlements.
CONSTANTS
    Producer = {1, 2, 3, 4}
    NUM_OF_TOP_BPS = 3
    BASE_BLOCK_OUT_WEIGHT = 1
    BP_PUBISH_DRAIN_NUM = 1
    BASE_BLOCK_OUT_PLEDGE = 1
    DRAIN_BLOCK_PUNISH = 1
    BLOCK_OUT_REWARD = 2
    MIN_CLAIM_BP = 7
    Configs <- OneConfig
    BpAccountRewards <- SecondIsVoted
    HbMax = {1}
    OpenFuncs <- NoneOpen
    Beating <- SecondAtThree
    Intervals = {1}
    Elected <- TwoSchedules
    FirstPledge <- FourHasPledged
    Pledged <- Second
    MaxBlock = 6
    MaxMiss = 1
    MaxVersion = 2
SPECIFICATION Spec
INVARIANTS TypeOK RoundBounded EveryBlockCounted BlockAgeAccounted
PROPERTIES ChargedForMissesInRound ClaimsIndependent
CHECK_DEADLOCK FALSE
