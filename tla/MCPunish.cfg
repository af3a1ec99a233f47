\* A run of two missed blocks can be punished, two approvals are needed,
\* proposals and punishments last two blocks.
CONSTANTS
    Producer = {1, 2, 3}
    NUM_OF_TOP_BPS = 2
    BASE_BLOCK_OUT_WEIGHT = 1
    BP_PUBISH_DRAIN_NUM = 1
    BASE_BLOCK_OUT_PLEDGE = 0
    DRAIN_BLOCK_PUNISH = 1
    BLOCK_OUT_REWARD = 0
    MIN_CLAIM_BP = 9
    Configs <- OneConfig
    BpAccountRewards <- SecondIsVoted
    HbMax = {1}
    OpenFuncs <- AllOpen
    Beating <- SecondAtThree
    Intervals = {1}
    Elected <- TwoSchedules
    FirstPledge <- TwoHavePledged
    Pledged <- NoPledged
    MaxBlock = 7
    MaxMiss = 1
    MaxVersion = 2
    APPROVE_TO_PUNISH_NUM = 2
    PUNISH_BP_LIMIT = 2
    PROPOSAL_PLEDGE = 1
    MAX_LAST_PRODUCER_SIZE = 2
    Proposaler = {3}
SPECIFICATION PunishSpec
INVARIANTS PunishTypeOK RewardsFromDrains
PROPERTIES PunishedByRecentQuorum PunishedGetNoVoteReward
CHECK_DEADLOCK FALSE
