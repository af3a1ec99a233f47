\* One voter moves stake over two producers, in votes, votes4ram and fix-time votes.
CONSTANTS
    Voter = {v1}
    BP = {b1, b2}
    NoBP = NoBP
    PRECISION = 2
    FROZEN_DELAY = 0
    FixType = {"fvote.a"}
    FixBlocks <- MCFixBlocks
    FixPower <- MCFixPower
    MaxKey = 0
    Genesis = 5
    Quantities = {2}
    Stakes = {0, 2, 4}
    RamStakes = {0, 2}
    FixStakes = {2}
    PoolRewards = {0}
    FreezeTables = {{v1}}
    Removable = {b1}
    VoteStatExists = TRUE
    MaxBlock = 2
SPECIFICATION Spec
INVARIANTS StakeAccounting GlobalStakeIsSum Vote4RamSum
PROPERTIES FrozenIsInert
CHECK_DEADLOCK FALSE
