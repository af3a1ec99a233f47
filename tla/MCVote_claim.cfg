\* Two voters vote for one producer, unstake and claim.
CONSTANTS
    Voter = {v1, v2}
    BP = {b1}
    NoBP = NoBP
    PRECISION = 1
    FROZEN_DELAY = 1
    FixType = {}
    FixBlocks <- MCFixBlocks
    FixPower <- MCFixPower
    MaxKey = 0
    Genesis = 1
    Quantities = {}
    Stakes = {0, 1, 2}
    RamStakes = {}
    FixStakes = {}
    PoolRewards = {0, 3}
    FreezeTables = {}
    Removable = {}
    VoteStatExists = TRUE
    MaxBlock = 4
SPECIFICATION HSpec
INVARIANTS TypeOK VoteAgeCovered
PROPERTIES ClaimsIndependent
SYMMETRY Symmetry
CHECK_DEADLOCK FALSE
