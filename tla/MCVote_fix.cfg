\* One voter with current and fix-time votes on one producer, two at a time.
CONSTANTS
    Voter = {v1}
    BP = {b1}
    NoBP = NoBP
    PRECISION = 1
    FROZEN_DELAY = 1
    FixType = {"fvote.a"}
    FixBlocks <- MCFixBlocks
    FixPower <- MCFixPower
    MaxKey = 1
    Genesis = 3
    Quantities = {}
    Stakes = {0, 2}
    RamStakes = {}
    FixStakes = {1}
    PoolRewards = {0, 2}
    FreezeTables = {}
    Removable = {}
    VoteStatExists = TRUE
    MaxBlock = 5
SPECIFICATION HSpec
INVARIANTS NoAgeUnderflow
PROPERTIES SupplyConserved FixVoteLocked ThawDelay
CHECK_DEADLOCK FALSE
