------------------------------ MODULE Monitor -------------------------------
(***************************************************************************)
(* What onblock keeps about the producers (onblock.cpp): the blocks each   *)
(* has produced under the current schedule, a settlement once per round    *)
(* that pays a block age for produced blocks and charges a missed one to   *)
(* the producer's pledge, and bpclaim, which pays a producer's share of    *)
(* what the blocks have earned.                                            *)
(*                                                                         *)
(* The chain gives each time slot to the producer at its index, in the     *)
(* order of names; a slot without a block is MissSlot. What it tells       *)
(* onblock is the producer and the schedule version of the block before.   *)
(* Votes, the blacklist, commissions and the election are in other         *)
(* modules: here each block pays any of the lists of rewards the votes may *)
(* come to, to those with a heartbeat, a pledge and no punishment.         *)
(***************************************************************************)
EXTENDS Integers, FiniteSets, Functions

CONSTANTS
    Producer,                 \* names of producers, ordered as numbers are
    NUM_OF_TOP_BPS,           \* producers in a schedule
    BASE_BLOCK_OUT_WEIGHT,    \* age of a block at the lowest stability
    BP_PUBISH_DRAIN_NUM,      \* a longer run of missed blocks can be punished
    BASE_BLOCK_OUT_PLEDGE,    \* blocks earn nothing with a smaller pledge
    DRAIN_BLOCK_PUNISH,       \* charged for a missed block
    BLOCK_OUT_REWARD,         \* earned by each block
    MIN_CLAIM_BP,             \* a bpclaim needs more than this
    Configs,                  \* values of the two configurations read
    BpAccountRewards,         \* lists of what producers' votes earn them in a block
    HbMax,                    \* seconds a heartbeat may count, configured as hb.max
    OpenFuncs,                \* sets of functions that is_func_open may find open
    Beating,                  \* producers, and times when they may call heartbeat
    Intervals,                \* seconds from a block to the next
    Elected,                  \* schedules an election can propose
    FirstPledge,              \* the pledges at the start
    Pledged,                  \* producers, and amounts they bring their pledge to
    MaxBlock, MaxMiss, MaxVersion    \* bounds

ASSUME ProducerAssumption ==
    /\ IsFiniteSet(Producer) /\ Producer \subseteq Nat
    /\ NUM_OF_TOP_BPS \in Nat \ {0}
    /\ \A S \in Elected : S \subseteq Producer /\ Cardinality(S) = NUM_OF_TOP_BPS
ASSUME AmountAssumption ==
    /\ BASE_BLOCK_OUT_WEIGHT \in Nat \ {0} /\ BP_PUBISH_DRAIN_NUM \in Nat \ {0}
    /\ BASE_BLOCK_OUT_PLEDGE \in Nat /\ DRAIN_BLOCK_PUNISH \in Nat
    /\ BLOCK_OUT_REWARD \in Nat /\ MIN_CLAIM_BP \in Nat
    /\ Configs \subseteq [weight_limit : Nat, reset_num : Nat]
    /\ BpAccountRewards \subseteq [Producer -> Nat]
    /\ FirstPledge \in [Producer -> [exists : BOOLEAN, amount : Int]]
    /\ Pledged \subseteq Producer \X Int
ASSUME HeartbeatAssumption ==
    /\ HbMax \subseteq Nat /\ OpenFuncs \subseteq SUBSET {"c.heartbeat", "c.bppunish"}
    /\ Beating \subseteq Producer \X Nat /\ Intervals \subseteq Nat \ {0}
ASSUME BoundAssumption == MaxBlock \in Nat /\ MaxMiss \in Nat /\ MaxVersion \in Nat

\* onblock.cpp counts rounds of one block.
BP_CYCLE_BLOCK_OUT == 1

VARIABLES
    block,        \* current_block_num of the last onblock
    slot,         \* index of the next time slot in the schedule
    active,       \* the chain's schedule: a set, in the order of names
    activeVersion,
    missed,       \* history: slots each has missed since it was last settled
    version,      \* version of the last schedules row, 0 without a row
    schedule,     \* the producers of that row
    amount,       \* blocks each producer has in that row
    monitors,     \* bpmonitor rows
    drainblocks,  \* sum of the drainblocks rows of each producer
    blockreward,  \* the blockreward row
    pledge,       \* pledges under block.out
    config,       \* systemconfig
    bpsreward,    \* bpsreward rows; no row is a reward of 0
    available,    \* what bpclaim has paid
    now,          \* current_time_point, of the block
    heartbeat     \* timestamps of the hbs rows, 0 without a row

chainVars == <<slot, active, activeVersion, missed>>
rewardVars == <<monitors, drainblocks, blockreward>>
beatVars == <<now, heartbeat>>
vars == <<block, chainVars, version, schedule, amount, rewardVars, pledge, config,
          bpsreward, available, beatVars>>

\* Index of p in the schedule S, and 0, as the loop of reward_block leaves
\* it, when p is not there.
Index(p, S) == IF p \in S THEN Cardinality({q \in S : q < p}) ELSE 0

NewMonitor == [exists |-> FALSE, last_block_num |-> 0,
               consecutive_drain_block |-> 0, consecutive_produce_block |-> 0,
               total_drain_block |-> 0, stability |-> BASE_BLOCK_OUT_WEIGHT,
               bock_age |-> 0, bp_status |-> "NORMAL"]
NoBlockReward == [exists |-> FALSE, last_standard_bp |-> 0, reward_block_out |-> 0,
                  total_block_age |-> 0, last_reward_block_num |-> 0]

Monitors == [exists : BOOLEAN, last_block_num : Nat,
             consecutive_drain_block : Nat, consecutive_produce_block : Nat,
             total_drain_block : Nat, stability : Nat, bock_age : Nat,
             bp_status : {"NORMAL", "LACK_PLEDGE", "PUNISHED"}]

TypeOK ==
    /\ block \in Nat /\ slot \in 0..(NUM_OF_TOP_BPS - 1)
    /\ active \in Elected /\ activeVersion \in Nat \ {0}
    /\ missed \in [Producer -> Nat]
    /\ version \in {activeVersion, activeVersion - 1}
    /\ schedule \in Elected \cup {{}} /\ (version = activeVersion => schedule = active)
    /\ amount \in [Producer -> Nat]
    /\ monitors \in [Producer -> Monitors]
    /\ drainblocks \in [Producer -> Nat]
    /\ blockreward \in [exists : BOOLEAN, last_standard_bp : Nat, reward_block_out : Nat,
                        total_block_age : Nat, last_reward_block_num : Nat]
    /\ pledge \in [Producer -> [exists : BOOLEAN, amount : Int]]
    /\ config \in Configs
    /\ bpsreward \in [Producer -> Nat] /\ available \in [Producer -> Nat]
    /\ now \in Nat \ {0} /\ heartbeat \in [Producer -> 0..now]

\* The first block of a chain, or of the first one with this code: onblock
\* has a row for the schedule, but has never settled.
Init ==
    /\ block = 0 /\ slot = 0
    /\ active \in Elected /\ activeVersion = 1
    /\ \/ version = 0 /\ schedule = {}
       \/ version = 1 /\ schedule = active
    /\ missed = [p \in Producer |-> 0]
    /\ amount = [p \in Producer |-> 0]
    /\ monitors = [p \in Producer |-> NewMonitor]
    /\ drainblocks = [p \in Producer |-> 0]
    /\ blockreward = NoBlockReward
    /\ pledge = FirstPledge
    /\ config \in Configs
    /\ bpsreward = [p \in Producer |-> 0]
    /\ available = [p \in Producer |-> 0]
    /\ now = 1 /\ heartbeat = [p \in Producer |-> 0]

-----------------------------------------------------------------------------
(* reward_block *)

\* Between the producer of the last settlement and this one, slots in a
\* round have come up once more than elsewhere.
Between(index, ifirst, ilast) ==
    \/ ifirst <= index /\ index < ilast
    \/ ifirst > ilast /\ (ifirst <= index \/ index < ilast)

CalDrainNumLate(change, index, ifirst, ilast, last, current) ==
    LET result == last + BP_CYCLE_BLOCK_OUT - current
                    + (IF Between(index, ifirst, (ilast + 1) % NUM_OF_TOP_BPS) THEN 1 ELSE 0)
                    - (IF change /\ ifirst # ilast THEN 1 ELSE 0)
    IN  IF result \in 0..BP_CYCLE_BLOCK_OUT THEN result ELSE BP_CYCLE_BLOCK_OUT
\* cal_drain_num. A negative result is compared with an unsigned constant,
\* as a large number, so it becomes BP_CYCLE_BLOCK_OUT and never 0.
CalDrainNum(change, index, ifirst, ilast, last, current) ==
    LET result == last + BP_CYCLE_BLOCK_OUT - current
                    + (IF Between(index, ifirst, ilast) THEN 1 ELSE 0)
                    - (IF change /\ ifirst # ilast THEN 1 ELSE 0)
    IN  IF result \in 0..BP_CYCLE_BLOCK_OUT THEN result ELSE BP_CYCLE_BLOCK_OUT

\* A run of missed blocks has ended and is long enough for a record.
RecordedRun(m, drain) ==
    IF drain <= 0 /\ m.consecutive_drain_block > config.reset_num
    THEN m.consecutive_drain_block ELSE 0

HasPledge(p) == pledge[p].exists /\ pledge[p].amount > BASE_BLOCK_OUT_PLEDGE

\* bp_age: what the blocks p has produced since the last settlement count
BpAge(p, produced) == IF HasPledge(p) THEN produced * monitors[p].stability ELSE 0

NextStability(m, produce, drain) ==
    LET raised == IF (produce + 1) % BP_PUBISH_DRAIN_NUM = 0 /\ m.stability < config.weight_limit
                  THEN m.stability + 1 ELSE m.stability
        reset == IF drain > config.reset_num THEN BASE_BLOCK_OUT_WEIGHT ELSE raised
    IN  IF reset > config.weight_limit THEN config.weight_limit ELSE reset

LastBlockNumKept(change, current) == current
LastBlockNum(change, current) == IF change THEN 0 ELSE current

\* The row of a producer after its settlement.
Settled(m, change, drain, produced, current, age) ==
    LET drains == IF drain > 0 THEN m.consecutive_drain_block + drain ELSE 0
        produce == IF drain > 0 THEN 0 ELSE m.consecutive_produce_block + produced
    IN  [exists |-> TRUE,
         last_block_num |-> LastBlockNum(change, current),
         consecutive_drain_block |-> drains,
         consecutive_produce_block |-> produce,
         total_drain_block |-> m.total_drain_block + drain,
         stability |-> NextStability(m, produce, drains),
         bock_age |-> m.bock_age + age,
         bp_status |-> IF drains > BP_PUBISH_DRAIN_NUM /\ m.bp_status = "NORMAL"
                       THEN "LACK_PLEDGE" ELSE m.bp_status]

IsRewardBlockLate(change, bp) == change \/ amount[bp] > monitors[bp].last_block_num + 1
\* is_reward_block: the schedule has changed, or bp begins its next round
IsRewardBlock(change, bp) == change \/ amount[bp] > monitors[bp].last_block_num

Settle(bp, change) ==
    LET ilast == Index(bp, schedule)
        ifirst == Index(blockreward.last_standard_bp, schedule)
        Produced(p) == amount[p] - monitors[p].last_block_num
        Drain(p) == CalDrainNum(change, Index(p, schedule), ifirst, ilast,
                                monitors[p].last_block_num, amount[p])
        age == [p \in Producer |-> IF p \in schedule THEN BpAge(p, Produced(p)) ELSE 0]
    IN  /\ monitors' = [p \in Producer |->
             IF p \in schedule
             THEN Settled(monitors[p], change, Drain(p), Produced(p), amount[p], age[p])
             ELSE monitors[p]]
        /\ drainblocks' = [p \in Producer |->
             IF p \in schedule THEN drainblocks[p] + RecordedRun(monitors[p], Drain(p))
             ELSE drainblocks[p]]
        /\ pledge' = [p \in Producer |->
             IF p \in schedule /\ pledge[p].exists
             THEN [pledge[p] EXCEPT !.amount = @ - Drain(p) * DRAIN_BLOCK_PUNISH]
             ELSE pledge[p]]
        /\ blockreward' = [blockreward EXCEPT
             !.last_standard_bp = bp,
             !.last_reward_block_num = block + 1,
             !.total_block_age = @ + SumFunction(age),
             !.reward_block_out = @ + (block + 1 - blockreward.last_reward_block_num) * BLOCK_OUT_REWARD]

\* The first change of schedule makes the row and settles nothing.
BeginRewards(bp) ==
    /\ blockreward' = [NoBlockReward EXCEPT !.exists = TRUE, !.last_standard_bp = bp,
                                            !.last_reward_block_num = block + 1]
    /\ UNCHANGED <<monitors, drainblocks, pledge>>

RewardBlock(bp, change) ==
    \/ blockreward.exists /\ Settle(bp, change)
    \/ ~blockreward.exists /\ change /\ BeginRewards(bp)
    \/ ~blockreward.exists /\ ~change /\ UNCHANGED <<rewardVars, pledge>>

-----------------------------------------------------------------------------
\* heartbeat_imp
HeartbeatImp(bp, timestamp) == heartbeat' = [heartbeat EXCEPT ![bp] = timestamp]

\* bp has a heartbeat, no older than hb_max, when reward_bps looks for it.
Beats(bp, hb_max) == heartbeat'[bp] # 0 /\ now' <= heartbeat'[bp] + hb_max

\* reward_bps, as far as producers' own rewards go. The deductions reward_block
\* has sent are not yet done: they are inline actions, run after onblock. Some
\* may earn 0 in a block: those on the blacklist, without the stake or the
\* commission it takes, and all where there is no stake.
RewardBps ==
    \E earned \in BpAccountRewards, hb_max \in HbMax, open \in OpenFuncs :
        bpsreward' = [p \in Producer |->
            IF /\ "c.heartbeat" \in open => Beats(p, hb_max)
               /\ "c.bppunish" \in open => HasPledge(p)
               /\ monitors'[p].bp_status # "PUNISHED"
            THEN bpsreward[p] + earned[p] ELSE bpsreward[p]]

\* onblock, told that bp has produced the last block under activeVersion, in
\* the next block, for which some slots may have passed (the rows of
\* lastproducers and the election are left out)
OnBlock(bp) ==
    LET change == version # activeVersion
    IN  /\ block < MaxBlock
        /\ bp \in active /\ Index(bp, active) = slot
        /\ IF IsRewardBlock(change, bp)
           THEN RewardBlock(bp, change) /\ missed' = [p \in Producer |-> 0]
           ELSE UNCHANGED <<rewardVars, pledge, missed>>
        /\ \E d \in Intervals : now' = now + d
        /\ HeartbeatImp(bp, now')
        /\ RewardBps
        /\ version' = activeVersion /\ schedule' = active
        /\ amount' = IF change THEN [p \in Producer |-> IF p = bp THEN 1 ELSE 0]
                     ELSE [amount EXCEPT ![bp] = @ + 1]
        /\ block' = block + 1
        /\ slot' = (slot + 1) % NUM_OF_TOP_BPS
        /\ UNCHANGED <<active, activeVersion, config, available>>

\* heartbeat, in the block of the last onblock
Heartbeat(bp) ==
    /\ HeartbeatImp(bp, now)
    /\ UNCHANGED <<block, chainVars, version, schedule, amount, rewardVars, pledge, config,
                   bpsreward, available, now>>

\* A time slot passes without a block of its producer.
MissSlot(bp) ==
    /\ bp \in active /\ Index(bp, active) = slot
    /\ missed[bp] < MaxMiss /\ block < MaxBlock
    /\ missed' = [missed EXCEPT ![bp] = @ + 1]
    /\ slot' = (slot + 1) % NUM_OF_TOP_BPS
    /\ UNCHANGED <<block, active, activeVersion, version, schedule, amount, rewardVars,
                   pledge, config, bpsreward, available, beatVars>>

\* The chain starts to use an elected schedule S, perhaps with the same
\* names and other keys. It does not again before a block under it.
Promote(S) ==
    /\ version = activeVersion /\ activeVersion < MaxVersion
    /\ active' = S /\ activeVersion' = activeVersion + 1
    /\ UNCHANGED <<block, slot, missed, version, schedule, amount, rewardVars, pledge,
                   config, bpsreward, available, beatVars>>

\* The producer brings its pledge to x, by eosio.pledge.
BringPledge(p, x) ==
    /\ pledge' = [pledge EXCEPT ![p] = [exists |-> TRUE, amount |-> x]]
    /\ UNCHANGED <<block, chainVars, version, schedule, amount, rewardVars, config,
                   bpsreward, available, beatVars>>

UpdateConfig(c) ==
    /\ config' = c
    /\ UNCHANGED <<block, chainVars, version, schedule, amount, rewardVars, pledge,
                   bpsreward, available, beatVars>>

\* bpclaim's share of reward_block_out
ClaimedBlockReward(bp) ==
    (monitors[bp].bock_age * blockreward.reward_block_out) \div blockreward.total_block_age

AgeLeftKept(bp) == blockreward.total_block_age
AgeLeft(bp) == blockreward.total_block_age - monitors[bp].bock_age

\* bpclaim of a producer that has been settled: a division by zero, when no
\* producer has block age, aborts the call.
ClaimBlockReward(bp) ==
    LET reward == ClaimedBlockReward(bp)
    IN  /\ blockreward.exists /\ monitors[bp].exists
        /\ blockreward.total_block_age # 0
        /\ reward < blockreward.reward_block_out
        /\ MIN_CLAIM_BP < bpsreward[bp] + reward
        /\ blockreward' = [blockreward EXCEPT !.total_block_age = AgeLeft(bp),
                                              !.reward_block_out = @ - reward]
        /\ monitors' = [monitors EXCEPT ![bp].bock_age = 0]
        /\ available' = [available EXCEPT ![bp] = @ + bpsreward[bp] + reward]
        /\ bpsreward' = [bpsreward EXCEPT ![bp] = 0]
        /\ UNCHANGED <<block, chainVars, version, schedule, amount, drainblocks, pledge, config,
                       beatVars>>

\* bpclaim of one that has not: only the reward for its votes
ClaimVoteReward(bp) ==
    /\ ~(blockreward.exists /\ monitors[bp].exists)
    /\ MIN_CLAIM_BP < bpsreward[bp]
    /\ available' = [available EXCEPT ![bp] = @ + bpsreward[bp]]
    /\ bpsreward' = [bpsreward EXCEPT ![bp] = 0]
    /\ UNCHANGED <<block, chainVars, version, schedule, amount, rewardVars, pledge, config,
                   beatVars>>

BpClaim(bp) == ClaimBlockReward(bp) \/ ClaimVoteReward(bp)

Next ==
    \/ \E p \in Producer : OnBlock(p) \/ MissSlot(p) \/ BpClaim(p)
    \/ \E b \in Beating : now = b[2] /\ Heartbeat(b[1])
    \/ \E S \in Elected : Promote(S)
    \/ \E d \in Pledged : BringPledge(d[1], d[2])
    \/ \E c \in Configs : UpdateConfig(c)

Spec == Init /\ [][Next]_vars

-----------------------------------------------------------------------------
\* A round ends no later than the second block of any producer in it, so a
\* producer has at most one block more than at its last settlement, never
\* less, and none if it is not in the schedule. reward_block subtracts these
\* unsigned numbers, and a producer ahead by two would be charged for
\* producing (onblock.cpp:325, 417, 428).
RoundBounded ==
    blockreward.exists =>
        \A p \in Producer :
            /\ monitors[p].last_block_num <= amount[p]
            /\ amount[p] <= monitors[p].last_block_num + (IF p \in schedule THEN 1 ELSE 0)

\* Every block since rewards began is counted for its producer in exactly
\* one settlement, also when the schedule changes: what the producers have
\* produced since the last one is what bpclaim's pot will grow for.
EveryBlockCounted ==
    blockreward.exists =>
        SumFunction([p \in Producer |-> amount[p] - monitors[p].last_block_num])
          = block - blockreward.last_reward_block_num + 1

\* total_block_age, by which bpclaim divides, is the sum of the producers'
\* block ages, so the shares of all producers make up the whole.
BlockAgeAccounted ==
    blockreward.total_block_age = SumFunction([p \in Producer |-> monitors[p].bock_age])

\* The recorded runs of missed blocks and the one that still lasts are
\* disjoint parts of total_drain_block, which monitorevise recomputes from
\* the records.
DrainsRecorded ==
    \A p \in Producer :
        drainblocks[p] + monitors[p].consecutive_drain_block <= monitors[p].total_drain_block

\* The settlement of a complete round charges no producer that has missed
\* no slot since the last settlement.
ChargedForMissesInRound ==
    [][version = activeVersion =>
         \A p \in Producer :
            monitors'[p].total_drain_block - monitors[p].total_drain_block <= missed[p]]_vars

\* A bpclaim never lowers what another producer would get from the pot.
ClaimsIndependent ==
    [][\A p, q \in Producer :
         /\ ClaimBlockReward(p) /\ p # q
         /\ blockreward'.total_block_age > 0
         => (monitors[q].bock_age * blockreward.reward_block_out) \div blockreward.total_block_age
              <= (monitors'[q].bock_age * blockreward'.reward_block_out)
                    \div blockreward'.total_block_age]_vars

-----------------------------------------------------------------------------
(* Violated: what a comment and the documentation say and the code does not do. *)

\* "10.0000 EOSC of the pledge are deducted for every missed block"
\* (README_zh.md:944), and "if change producer all producer do not drain one
\* block" (onblock.cpp:425): nobody is charged more than it has missed, also
\* by a change of schedule. Producers that missed nothing are.
ChargedForMisses ==
    [][\A p \in Producer :
         monitors'[p].total_drain_block - monitors[p].total_drain_block <= missed[p]]_vars
=============================================================================
