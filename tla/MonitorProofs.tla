--------------------------- MODULE MonitorProofs ----------------------------
(***************************************************************************)
(* Proofs about Monitor and about Punish, which extends it.                *)
(*                                                                         *)
(* The parts of the monitor's inductive invariant need each other: the     *)
(* unsigned subtractions of reward_block have natural results because no   *)
(* producer is behind its last settlement; no settlement leaves one        *)
(* behind, also at a change of schedule, because a producer outside of the *)
(* schedule has no blocks in its row and no block number left.             *)
(*                                                                         *)
(* The actions of Punish are the monitor's and changes of a producer's     *)
(* status, which keep that invariant.  Its own invariant ties the status   *)
(* to the block of the sentence, and the approvals of a proposal to the    *)
(* block in which it was made: only so is an approval that is counted      *)
(* known to be recent.                                                     *)
(***************************************************************************)
EXTENDS Punish, Sums

\* Before the first settlement there is nothing to account for.
NothingSettled ==
    ~blockreward.exists =>
        /\ blockreward = NoBlockReward
        /\ \A p \in Producer : monitors[p] = NewMonitor

\* A row of schedules counts blocks of its producers only.
RowOfSchedule == \A p \in Producer \ schedule : amount[p] = 0

IInv ==
    /\ TypeOK /\ NothingSettled /\ RowOfSchedule
    /\ RoundBounded /\ EveryBlockCounted /\ BlockAgeAccounted /\ DrainsRecorded

-----------------------------------------------------------------------------
(* Sums *)

LEMMA FiniteProducers == IsFiniteSet(Producer)
    BY ProducerAssumption

LEMMA SumIs ==
    ASSUME NEW f, DOMAIN f = Producer
    PROVE  SumFunction(f) = SumFunctionOnSet(f, Producer)
    BY DEF SumFunction

\* A sum of zeros, and of zeros and one 1.
LEMMA ZeroSum ==
    ASSUME NEW f, DOMAIN f = Producer, \A p \in Producer : f[p] = 0
    PROVE  SumFunction(f) = 0
    BY FiniteProducers, SumIs, SumZero

LEMMA OneSum ==
    ASSUME NEW f, DOMAIN f = Producer, NEW b \in Producer,
           \A p \in Producer : f[p] = IF p = b THEN 1 ELSE 0
    PROVE  SumFunction(f) = 1
  <1> DEFINE z == [p \in Producer |-> 0]
  <1>1. \A p \in Producer : z[p] = 0 /\ z[p] \in Int /\ f[p] \in Int
    OBVIOUS
  <1>2. f[b] = 1 /\ z[b] = 0 /\ \A p \in Producer \ {b} : f[p] = z[p]
    OBVIOUS
  <1> HIDE DEF z
  <1>3. SumFunctionOnSet(z, Producer) = 0
    BY <1>1, FiniteProducers, SumZero
  <1>4. SumFunctionOnSet(f, Producer) = SumFunctionOnSet(z, Producer) - z[b] + f[b]
    BY <1>1, <1>2, FiniteProducers, SumChange
  <1>5. QED
    BY <1>2, <1>3, <1>4, SumIs

LEMMA NatSum ==
    ASSUME NEW f, DOMAIN f = Producer, \A p \in Producer : f[p] \in Nat
    PROVE  /\ SumFunction(f) \in Nat
           /\ \A p \in Producer : f[p] <= SumFunction(f)
  <1>1. SumFunction(f) = SumFunctionOnSet(f, Producer)
    BY SumIs
  <1>2. SumFunctionOnSet(f, Producer) \in Nat
    BY FiniteProducers, SumNat
  <1>3. ASSUME NEW p \in Producer
        PROVE  f[p] <= SumFunctionOnSet(f, Producer)
    BY FiniteProducers, SumAtLeast
  <1>4. QED
    BY <1>1, <1>2, <1>3

LEMMA SumMoves ==
    ASSUME NEW f, NEW g, DOMAIN f = Producer, DOMAIN g = Producer, NEW b \in Producer,
           \A p \in Producer : f[p] \in Int /\ g[p] \in Int,
           \A p \in Producer \ {b} : g[p] = f[p]
    PROVE  SumFunction(g) = SumFunction(f) - f[b] + g[b]
  <1>1. SumFunctionOnSet(g, Producer) = SumFunctionOnSet(f, Producer) - f[b] + g[b]
    BY FiniteProducers, SumChange
  <1>2. QED
    BY <1>1, SumIs

LEMMA SumOfSums ==
    ASSUME NEW f, NEW g, NEW h,
           DOMAIN f = Producer, DOMAIN g = Producer, DOMAIN h = Producer,
           \A p \in Producer : f[p] \in Int /\ g[p] \in Int /\ h[p] = f[p] + g[p]
    PROVE  SumFunction(h) = SumFunction(f) + SumFunction(g)
  <1>1. SumFunctionOnSet(h, Producer) =
          SumFunctionOnSet(f, Producer) + SumFunctionOnSet(g, Producer)
    BY FiniteProducers, SumAdd
  <1>2. QED
    BY <1>1, SumIs

LEMMA NatProduct ==
    ASSUME NEW x \in Nat, NEW y \in Nat
    PROVE  x * y \in Nat
    OBVIOUS

LEMMA NatQuotient ==
    ASSUME NEW x \in Nat, NEW y \in Nat, y # 0
    PROVE  x \div y \in Nat
    OBVIOUS

-----------------------------------------------------------------------------
(* One row of a settlement *)

LEMMA DrainIsBit ==
    ASSUME NEW change, NEW i, NEW f, NEW l, NEW last, NEW current
    PROVE  CalDrainNum(change, i, f, l, last, current) \in {0, 1}
  <1> DEFINE r == last + BP_CYCLE_BLOCK_OUT - current
                    + (IF Between(i, f, l) THEN 1 ELSE 0)
                    - (IF change /\ f # l THEN 1 ELSE 0)
  <1>1. CalDrainNum(change, i, f, l, last, current)
          = IF r \in 0..BP_CYCLE_BLOCK_OUT THEN r ELSE BP_CYCLE_BLOCK_OUT
    BY DEF CalDrainNum
  <1> HIDE DEF r
  <1>2. QED
    BY <1>1 DEF BP_CYCLE_BLOCK_OUT

LEMMA ConfigType ==
    ASSUME TypeOK
    PROVE  config.weight_limit \in Nat /\ config.reset_num \in Nat
    BY AmountAssumption DEF TypeOK

LEMMA StabilityNat ==
    ASSUME TypeOK, NEW m \in Monitors, NEW produce \in Nat, NEW drain \in Nat
    PROVE  NextStability(m, produce, drain) \in Nat
  <1>1. m.stability \in Nat
    BY DEF Monitors
  <1>2. QED
    BY <1>1, ConfigType, AmountAssumption DEF NextStability

IsSettled(row, m, change, drain, current, age) ==
    /\ row \in Monitors
    /\ row.last_block_num = LastBlockNum(change, current)
    /\ row.bock_age = m.bock_age + age
    /\ row.consecutive_drain_block
         = IF drain > 0 THEN m.consecutive_drain_block + drain ELSE 0
    /\ row.total_drain_block = m.total_drain_block + drain

LEMMA SettledRow ==
    ASSUME TypeOK, NEW m \in Monitors, NEW change, NEW drain \in {0, 1},
           NEW produced \in Nat, NEW current \in Nat, NEW age \in Nat
    PROVE  IsSettled(Settled(m, change, drain, produced, current, age), m, change, drain,
                     current, age)
  <1> DEFINE drains == IF drain > 0 THEN m.consecutive_drain_block + drain ELSE 0
             produce == IF drain > 0 THEN 0 ELSE m.consecutive_produce_block + produced
             weight == NextStability(m, produce, drains)
             status == IF drains > BP_PUBISH_DRAIN_NUM /\ m.bp_status = "NORMAL"
                       THEN "LACK_PLEDGE" ELSE m.bp_status
  <1>1. /\ m.consecutive_drain_block \in Nat /\ m.consecutive_produce_block \in Nat
        /\ m.total_drain_block \in Nat /\ m.bock_age \in Nat
        /\ m.bp_status \in {"NORMAL", "LACK_PLEDGE", "PUNISHED"}
    BY DEF Monitors
  <1>2. drains \in Nat /\ produce \in Nat
    BY <1>1
  <1>3. weight \in Nat
    <2> HIDE DEF drains, produce
    <2>1. QED
      BY <1>2, StabilityNat
  <1>4. status \in {"NORMAL", "LACK_PLEDGE", "PUNISHED"}
    BY <1>1
  <1>5. Settled(m, change, drain, produced, current, age) =
          [exists |-> TRUE, last_block_num |-> LastBlockNum(change, current),
           consecutive_drain_block |-> drains, consecutive_produce_block |-> produce,
           total_drain_block |-> m.total_drain_block + drain, stability |-> weight,
           bock_age |-> m.bock_age + age, bp_status |-> status]
    BY DEF Settled
  <1>6. /\ LastBlockNum(change, current) = (IF change THEN 0 ELSE current)
        /\ LastBlockNum(change, current) \in Nat
        /\ m.total_drain_block + drain \in Nat /\ m.bock_age + age \in Nat
    BY <1>1 DEF LastBlockNum
  <1>7. drains = IF drain > 0 THEN m.consecutive_drain_block + drain ELSE 0
    OBVIOUS
  <1> HIDE DEF drains, produce, weight, status
  <1>8. QED
    BY <1>2, <1>3, <1>4, <1>5, <1>6, <1>7 DEF Monitors, IsSettled

-----------------------------------------------------------------------------
(* What the invariant says of one producer *)

BlockRewards == [exists : BOOLEAN, last_standard_bp : Nat, reward_block_out : Nat,
                 total_block_age : Nat, last_reward_block_num : Nat]
Pledges == [exists : BOOLEAN, amount : Int]

LEMMA RowFacts ==
    ASSUME IInv, NEW p \in Producer
    PROVE  /\ monitors \in [Producer -> Monitors] /\ monitors[p] \in Monitors
           /\ monitors[p].last_block_num \in Nat /\ monitors[p].bock_age \in Nat
           /\ monitors[p].stability \in Nat /\ monitors[p].consecutive_drain_block \in Nat
           /\ monitors[p].total_drain_block \in Nat
           /\ amount \in [Producer -> Nat] /\ amount[p] \in Nat
           /\ drainblocks \in [Producer -> Nat] /\ drainblocks[p] \in Nat
           /\ pledge \in [Producer -> Pledges] /\ pledge[p] \in Pledges
           /\ bpsreward[p] \in Nat /\ available[p] \in Nat /\ missed[p] \in Nat
           /\ drainblocks[p] + monitors[p].consecutive_drain_block
                <= monitors[p].total_drain_block
  <1>1. /\ monitors \in [Producer -> Monitors] /\ amount \in [Producer -> Nat]
        /\ drainblocks \in [Producer -> Nat] /\ pledge \in [Producer -> Pledges]
        /\ bpsreward \in [Producer -> Nat] /\ available \in [Producer -> Nat]
        /\ missed \in [Producer -> Nat]
    BY DEF IInv, TypeOK, Pledges
  <1>2. drainblocks[p] + monitors[p].consecutive_drain_block <= monitors[p].total_drain_block
    BY DEF IInv, DrainsRecorded
  <1>3. monitors[p] \in Monitors
    BY <1>1
  <1>4. QED
    BY <1>1, <1>2, <1>3 DEF Monitors

LEMMA ChainFacts ==
    ASSUME IInv
    PROVE  /\ block \in Nat /\ slot \in 0..(NUM_OF_TOP_BPS - 1)
           /\ blockreward \in BlockRewards
           /\ blockreward.reward_block_out \in Nat /\ blockreward.total_block_age \in Nat
           /\ blockreward.last_reward_block_num \in Nat
           /\ active \subseteq Producer /\ schedule \subseteq Producer
           /\ (version = activeVersion => schedule = active)
  <1>1. /\ block \in Nat /\ slot \in 0..(NUM_OF_TOP_BPS - 1)
        /\ blockreward \in BlockRewards /\ active \in Elected
        /\ schedule \in Elected \cup {{}}
        /\ (version = activeVersion => schedule = active)
    BY DEF IInv, TypeOK, BlockRewards
  <1>2. active \subseteq Producer /\ schedule \subseteq Producer
    BY <1>1, ProducerAssumption
  <1>3. QED
    BY <1>1, <1>2 DEF BlockRewards

\* Once rewards have begun, a producer is at its last settlement or, if it is
\* in the schedule, one block ahead.
LEMMA RoundFacts ==
    ASSUME IInv, blockreward.exists, NEW p \in Producer
    PROVE  /\ amount[p] - monitors[p].last_block_num \in {0, 1}
           /\ p \notin schedule => amount[p] = 0 /\ monitors[p].last_block_num = 0
  <1>1. /\ monitors[p].last_block_num <= amount[p]
        /\ amount[p] <= monitors[p].last_block_num + (IF p \in schedule THEN 1 ELSE 0)
    BY DEF IInv, RoundBounded
  <1>2. p \notin schedule => amount[p] = 0
    BY DEF IInv, RowOfSchedule
  <1>3. amount[p] \in Nat /\ monitors[p].last_block_num \in Nat
    BY RowFacts
  <1>4. QED
    BY <1>1, <1>2, <1>3

\* No settlement is ahead of the block.
LEMMA SettledBefore ==
    ASSUME IInv, blockreward.exists
    PROVE  block + 1 - blockreward.last_reward_block_num \in Nat
  <1> DEFINE f == [p \in Producer |-> amount[p] - monitors[p].last_block_num]
  <1>1. DOMAIN f = Producer /\ \A p \in Producer : f[p] \in Nat
    BY RoundFacts
  <1>2. SumFunction(f) \in Nat
    <2> HIDE DEF f
    <2>1. QED
      BY <1>1, NatSum
  <1>3. SumFunction(f) = block - blockreward.last_reward_block_num + 1
    BY DEF IInv, EveryBlockCounted
  <1>4. QED
    BY <1>2, <1>3, ChainFacts

-----------------------------------------------------------------------------
(* A settlement *)

LEMMA BpAgeNat ==
    ASSUME IInv, NEW p \in Producer, NEW produced \in Nat
    PROVE  BpAge(p, produced) \in Nat
  <1>1. monitors[p].stability \in Nat
    BY RowFacts
  <1>2. produced * monitors[p].stability \in Nat
    BY <1>1, NatProduct
  <1>3. QED
    BY <1>2 DEF BpAge

\* One producer's row after a settlement.
LEMMA SettleRow ==
    ASSUME IInv, blockreward.exists, NEW bp, NEW change, Settle(bp, change),
           NEW p \in schedule
    PROVE  \E drain \in {0, 1}, age \in Nat :
             /\ age = BpAge(p, amount[p] - monitors[p].last_block_num)
             /\ monitors'[p] = Settled(monitors[p], change, drain,
                                       amount[p] - monitors[p].last_block_num, amount[p], age)
             /\ monitors'[p] \in Monitors
             /\ monitors'[p].last_block_num = LastBlockNum(change, amount[p])
             /\ monitors'[p].bock_age = monitors[p].bock_age + age
             /\ drainblocks'[p] = drainblocks[p] + RecordedRun(monitors[p], drain)
             /\ drainblocks'[p] \in Nat
             /\ drainblocks'[p] + monitors'[p].consecutive_drain_block
                  <= monitors'[p].total_drain_block
             /\ pledge'[p] \in Pledges
  <1> DEFINE ifirst == Index(blockreward.last_standard_bp, schedule)
             drain == CalDrainNum(change, Index(p, schedule), ifirst, Index(bp, schedule),
                                  monitors[p].last_block_num, amount[p])
             produced == amount[p] - monitors[p].last_block_num
             age == BpAge(p, produced)
             row == Settled(monitors[p], change, drain, produced, amount[p], age)
  <1>1. p \in Producer
    BY ChainFacts
  <1>2. drain \in {0, 1}
    BY DrainIsBit
  <1>3. produced \in Nat
    BY <1>1, RoundFacts
  <1>4. age \in Nat
    <2> HIDE DEF produced
    <2>1. QED
      BY <1>1, <1>3, BpAgeNat
  <1>5. monitors'[p] = row
    BY <1>1 DEF Settle
  <1>6. drainblocks'[p] = drainblocks[p] + RecordedRun(monitors[p], drain)
    BY <1>1 DEF Settle
  <1>7. pledge'[p] = IF pledge[p].exists
                     THEN [pledge[p] EXCEPT !.amount = @ - drain * DRAIN_BLOCK_PUNISH]
                     ELSE pledge[p]
    BY <1>1 DEF Settle
  <1>8. TypeOK /\ monitors[p] \in Monitors /\ amount[p] \in Nat /\ pledge[p] \in Pledges
        /\ drainblocks[p] \in Nat /\ monitors[p].consecutive_drain_block \in Nat
        /\ monitors[p].total_drain_block \in Nat
        /\ drainblocks[p] + monitors[p].consecutive_drain_block <= monitors[p].total_drain_block
    BY <1>1, RowFacts DEF IInv
  <1> HIDE DEF drain, produced, age, ifirst
  <1>9. IsSettled(row, monitors[p], change, drain, amount[p], age)
    BY <1>2, <1>3, <1>4, <1>8, SettledRow
  <1>10. /\ RecordedRun(monitors[p], drain) \in Nat
         /\ drain = 1 => RecordedRun(monitors[p], drain) = 0
         /\ RecordedRun(monitors[p], drain) <= monitors[p].consecutive_drain_block
    BY <1>2, <1>8, ConfigType DEF RecordedRun
  <1>11. pledge'[p] \in Pledges
    <2>1. drain * DRAIN_BLOCK_PUNISH \in Int
      BY <1>2, AmountAssumption
    <2>2. QED
      BY <1>7, <1>8, <2>1 DEF Pledges
  <1> HIDE DEF row
  <1>12. /\ drainblocks'[p] \in Nat
         /\ drainblocks'[p] + row.consecutive_drain_block <= row.total_drain_block
    BY <1>2, <1>6, <1>8, <1>9, <1>10 DEF IsSettled
  <1>13. QED
    BY <1>2, <1>4, <1>5, <1>6, <1>9, <1>11, <1>12 DEF row, age, produced, IsSettled

\* What a settlement leaves: sums, types and the counters of every producer.
LEMMA SettleFacts ==
    ASSUME IInv, blockreward.exists, NEW bp \in Producer, NEW change, Settle(bp, change)
    PROVE  /\ monitors' \in [Producer -> Monitors]
           /\ drainblocks' \in [Producer -> Nat]
           /\ pledge' \in [Producer -> Pledges]
           /\ blockreward' \in BlockRewards
           /\ blockreward'.exists /\ blockreward'.last_reward_block_num = block + 1
           /\ \A p \in Producer :
                monitors'[p].last_block_num = IF p \in schedule
                                              THEN LastBlockNum(change, amount[p])
                                              ELSE monitors[p].last_block_num
           /\ BlockAgeAccounted' /\ DrainsRecorded'
  <1> DEFINE age == [p \in Producer |-> IF p \in schedule
                          THEN BpAge(p, amount[p] - monitors[p].last_block_num) ELSE 0]
             ages == [p \in Producer |-> monitors[p].bock_age]
             agesNew == [p \in Producer |-> monitors'[p].bock_age]
             blocks == block + 1 - blockreward.last_reward_block_num
  <1>1. ASSUME NEW p \in Producer
        PROVE  /\ monitors'[p] \in Monitors /\ drainblocks'[p] \in Nat /\ pledge'[p] \in Pledges
               /\ age[p] \in Nat /\ monitors'[p].bock_age = monitors[p].bock_age + age[p]
               /\ monitors'[p].last_block_num = IF p \in schedule
                                                THEN LastBlockNum(change, amount[p])
                                                ELSE monitors[p].last_block_num
               /\ drainblocks'[p] + monitors'[p].consecutive_drain_block
                    <= monitors'[p].total_drain_block
    <2>1. CASE p \in schedule
      <3>1. PICK drain \in {0, 1}, a \in Nat :
               /\ a = BpAge(p, amount[p] - monitors[p].last_block_num)
               /\ monitors'[p] \in Monitors
               /\ monitors'[p].last_block_num = LastBlockNum(change, amount[p])
               /\ monitors'[p].bock_age = monitors[p].bock_age + a
               /\ drainblocks'[p] \in Nat
               /\ drainblocks'[p] + monitors'[p].consecutive_drain_block
                    <= monitors'[p].total_drain_block
               /\ pledge'[p] \in Pledges
        BY <2>1, SettleRow
      <3>2. age[p] = a
        BY <2>1, <3>1
      <3> HIDE DEF age
      <3>3. QED
        BY <2>1, <3>1, <3>2
    <2>2. CASE p \notin schedule
      <3>1. monitors'[p] = monitors[p] /\ drainblocks'[p] = drainblocks[p] /\ pledge'[p] = pledge[p]
        BY <2>2 DEF Settle
      <3>2. age[p] = 0
        BY <2>2
      <3> HIDE DEF age
      <3>3. QED
        BY <2>2, <3>1, <3>2, RowFacts
    <2>3. QED
      BY <2>1, <2>2
  <1>2. /\ monitors' \in [Producer -> Monitors] /\ drainblocks' \in [Producer -> Nat]
        /\ pledge' \in [Producer -> Pledges]
    <2>1. /\ monitors' = [p \in Producer |-> monitors'[p]]
          /\ drainblocks' = [p \in Producer |-> drainblocks'[p]]
          /\ pledge' = [p \in Producer |-> pledge'[p]]
      BY DEF Settle
    <2> HIDE DEF age
    <2>2. QED
      BY <1>1, <2>1
  <1>3. DrainsRecorded'
    BY <1>1 DEF DrainsRecorded
  <1>4. SumFunction(age) \in Nat
    <2> DOMAIN age = Producer
      OBVIOUS
    <2> HIDE DEF age
    <2>1. QED
      BY <1>1, NatSum
  <1>5. blocks \in Nat /\ blocks * BLOCK_OUT_REWARD \in Nat
    <2>1. blocks \in Nat
      BY SettledBefore
    <2> HIDE DEF blocks
    <2>2. QED
      BY <2>1, NatProduct, AmountAssumption
  <1>6. blockreward' = [blockreward EXCEPT
             !.last_standard_bp = bp, !.last_reward_block_num = block + 1,
             !.total_block_age = @ + SumFunction(age),
             !.reward_block_out = @ + blocks * BLOCK_OUT_REWARD]
    BY DEF Settle
  <1>7. /\ blockreward' \in BlockRewards
        /\ blockreward'.exists /\ blockreward'.last_reward_block_num = block + 1
        /\ blockreward'.total_block_age = blockreward.total_block_age + SumFunction(age)
    <2>1. bp \in Nat
      BY ProducerAssumption
    <2>2. blockreward \in BlockRewards /\ block \in Nat /\ blockreward.exists
          /\ blockreward.reward_block_out \in Nat /\ blockreward.total_block_age \in Nat
      BY ChainFacts
    <2>3. /\ blockreward.total_block_age + SumFunction(age) \in Nat
          /\ blockreward.reward_block_out + blocks * BLOCK_OUT_REWARD \in Nat
          /\ block + 1 \in Nat
      <3> HIDE DEF age, blocks
      <3>1. QED
        BY <1>4, <1>5, <2>2
    <2> HIDE DEF age, blocks
    <2>4. QED
      BY <1>6, <2>1, <2>2, <2>3 DEF BlockRewards
  <1>8. SumFunction(agesNew) = SumFunction(ages) + SumFunction(age)
    <2>1. DOMAIN age = Producer /\ DOMAIN ages = Producer /\ DOMAIN agesNew = Producer
      OBVIOUS
    <2>2. ASSUME NEW p \in Producer
          PROVE  /\ ages[p] \in Int /\ age[p] \in Int
                 /\ agesNew[p] = ages[p] + age[p]
      <3>1. ages[p] = monitors[p].bock_age /\ agesNew[p] = monitors'[p].bock_age
        OBVIOUS
      <3>2. monitors[p].bock_age \in Nat
        BY RowFacts
      <3> HIDE DEF age, ages, agesNew
      <3>3. QED
        BY <1>1, <3>1, <3>2
    <2> HIDE DEF age, ages, agesNew
    <2>3. QED
      BY <2>1, <2>2, SumOfSums
  <1>9. blockreward.total_block_age = SumFunction(ages)
    BY DEF IInv, BlockAgeAccounted
  <1>10. BlockAgeAccounted'
    BY <1>7, <1>8, <1>9 DEF BlockAgeAccounted
  <1>11. QED
    BY <1>1, <1>2, <1>3, <1>7, <1>10

-----------------------------------------------------------------------------
(* The actions *)

LEMMA CountsOne ==
    ASSUME NEW bp \in Producer,
           block' = block + 1, block \in Nat,
           blockreward'.last_reward_block_num = block + 1,
           \A p \in Producer :
             amount'[p] - monitors'[p].last_block_num = IF p = bp THEN 1 ELSE 0
    PROVE  EveryBlockCounted'
  <1> DEFINE f == [p \in Producer |-> amount'[p] - monitors'[p].last_block_num]
  <1>1. DOMAIN f = Producer /\ \A p \in Producer : f[p] = IF p = bp THEN 1 ELSE 0
    OBVIOUS
  <1>2. SumFunction(f) = 1
    <2> HIDE DEF f
    <2>1. QED
      BY <1>1, OneSum
  <1>3. block' - blockreward'.last_reward_block_num + 1 = 1
    OBVIOUS
  <1>4. QED
    BY <1>2, <1>3 DEF EveryBlockCounted

\* The part of onblock that settles, and the row of the schedule.
LEMMA OnBlockRewards ==
    ASSUME IInv, NEW bp \in Producer, OnBlock(bp)
    PROVE  /\ monitors' \in [Producer -> Monitors]
           /\ drainblocks' \in [Producer -> Nat]
           /\ pledge' \in [Producer -> Pledges]
           /\ blockreward' \in BlockRewards
           /\ missed' \in [Producer -> Nat]
           /\ amount' \in [Producer -> Nat]
           /\ RowOfSchedule' /\ NothingSettled'
           /\ RoundBounded' /\ EveryBlockCounted'
           /\ BlockAgeAccounted' /\ DrainsRecorded'
  <1> DEFINE change == version # activeVersion
  <1>1. /\ block' = block + 1 /\ schedule' = active /\ bp \in active
        /\ amount' = IF change THEN [p \in Producer |-> IF p = bp THEN 1 ELSE 0]
                     ELSE [amount EXCEPT ![bp] = @ + 1]
        /\ ~change => active = schedule
    BY ChainFacts DEF OnBlock
  <1>2. /\ block \in Nat /\ schedule \subseteq Producer /\ active \subseteq Producer
        /\ blockreward \in BlockRewards
    BY ChainFacts
  <1>3. /\ monitors \in [Producer -> Monitors] /\ amount \in [Producer -> Nat]
        /\ drainblocks \in [Producer -> Nat] /\ pledge \in [Producer -> Pledges]
        /\ missed \in [Producer -> Nat]
    BY DEF IInv, TypeOK, Pledges
  <1>4. amount' \in [Producer -> Nat]
    BY <1>1, <1>3
  <1>5. RowOfSchedule'
    BY <1>1, <1>2, <1>3 DEF IInv, RowOfSchedule
  <1>6. missed' \in [Producer -> Nat]
    BY <1>3 DEF OnBlock
  <1>7. CASE blockreward.exists /\ IsRewardBlock(change, bp)
    <2>1. Settle(bp, change)
      BY <1>7 DEF OnBlock, RewardBlock
    <2>2. /\ monitors' \in [Producer -> Monitors] /\ drainblocks' \in [Producer -> Nat]
          /\ pledge' \in [Producer -> Pledges] /\ blockreward' \in BlockRewards
          /\ blockreward'.exists /\ blockreward'.last_reward_block_num = block + 1
          /\ \A p \in Producer :
                monitors'[p].last_block_num = IF p \in schedule
                                              THEN LastBlockNum(change, amount[p])
                                              ELSE monitors[p].last_block_num
          /\ BlockAgeAccounted' /\ DrainsRecorded'
      <3> HIDE DEF change
      <3>1. QED
        BY <1>7, <2>1, SettleFacts
    <2>3. ASSUME NEW p \in Producer
          PROVE  /\ amount'[p] - monitors'[p].last_block_num = IF p = bp THEN 1 ELSE 0
                 /\ monitors'[p].last_block_num \in Nat /\ amount'[p] \in Nat
      <3>1. /\ p \notin schedule => amount[p] = 0 /\ monitors[p].last_block_num = 0
            /\ amount[p] \in Nat /\ amount'[p] \in Nat
        BY <1>3, <1>4, <1>7, RoundFacts
      <3>2. CASE change
        <4>1. amount'[p] = IF p = bp THEN 1 ELSE 0
          BY <1>1, <3>2
        <4>2. monitors'[p].last_block_num = 0
          BY <2>2, <3>1, <3>2 DEF LastBlockNum
        <4>3. QED
          BY <4>1, <4>2
      <3>3. CASE ~change
        <4>1. amount'[p] = IF p = bp THEN amount[p] + 1 ELSE amount[p]
          BY <1>1, <1>3, <3>3
        <4>2. monitors'[p].last_block_num = amount[p]
          BY <2>2, <3>1, <3>3 DEF LastBlockNum
        <4>3. QED
          BY <3>1, <4>1, <4>2
      <3>4. QED
        BY <3>2, <3>3
    <2>4. EveryBlockCounted'
      BY <1>1, <1>2, <2>2, <2>3, CountsOne
    <2>5. RoundBounded'
      BY <1>1, <2>3 DEF RoundBounded
    <2>6. NothingSettled'
      BY <2>2 DEF NothingSettled
    <2>7. QED
      BY <1>4, <1>5, <1>6, <2>2, <2>4, <2>5, <2>6
  <1>8. CASE ~blockreward.exists /\ change
    <2>1. BeginRewards(bp)
      BY <1>8 DEF OnBlock, RewardBlock, IsRewardBlock
    <2>2. /\ blockreward' = [NoBlockReward EXCEPT !.exists = TRUE, !.last_standard_bp = bp,
                                                  !.last_reward_block_num = block + 1]
          /\ UNCHANGED <<monitors, drainblocks, pledge>>
      BY <2>1 DEF BeginRewards
    <2>3. /\ blockreward' \in BlockRewards /\ blockreward'.exists
          /\ blockreward'.last_reward_block_num = block + 1
          /\ blockreward'.total_block_age = blockreward.total_block_age
      <3>1. bp \in Nat
        BY ProducerAssumption
      <3>2. blockreward.total_block_age = 0
        BY <1>8 DEF IInv, NothingSettled, NoBlockReward
      <3>3. blockreward' = [exists |-> TRUE, last_standard_bp |-> bp, reward_block_out |-> 0,
                            total_block_age |-> 0, last_reward_block_num |-> block + 1]
        BY <2>2 DEF NoBlockReward
      <3>4. block + 1 \in Nat
        BY <1>2
      <3>5. QED
        BY <3>1, <3>2, <3>3, <3>4 DEF BlockRewards
    <2>4. \A p \in Producer : monitors'[p].last_block_num = 0
      BY <1>8, <2>2 DEF IInv, NothingSettled, NewMonitor
    <2>5. \A p \in Producer :
            /\ amount'[p] - monitors'[p].last_block_num = IF p = bp THEN 1 ELSE 0
            /\ amount'[p] = IF p = bp THEN 1 ELSE 0
      BY <1>1, <1>8, <2>4
    <2>6. EveryBlockCounted'
      BY <1>1, <1>2, <2>3, <2>5, CountsOne
    <2>7. RoundBounded'
      BY <1>1, <2>4, <2>5 DEF RoundBounded
    <2>8. BlockAgeAccounted' /\ DrainsRecorded'
      BY <2>2, <2>3 DEF IInv, BlockAgeAccounted, DrainsRecorded
    <2>9. QED
      BY <1>3, <1>4, <1>5, <1>6, <2>2, <2>3, <2>6, <2>7, <2>8 DEF NothingSettled
  <1>9. CASE ~blockreward.exists /\ ~change
    <2>1. UNCHANGED <<rewardVars, pledge>>
      BY <1>9 DEF OnBlock, RewardBlock
    <2>2. UNCHANGED <<monitors, drainblocks, blockreward, pledge>>
      BY <2>1 DEF rewardVars
    <2>3. RoundBounded' /\ EveryBlockCounted' /\ NothingSettled'
      BY <1>9, <2>2 DEF IInv, RoundBounded, EveryBlockCounted, NothingSettled
    <2>4. BlockAgeAccounted' /\ DrainsRecorded'
      BY <2>2 DEF IInv, BlockAgeAccounted, DrainsRecorded
    <2>5. QED
      BY <1>2, <1>3, <1>4, <1>5, <1>6, <2>2, <2>3, <2>4
  <1>10. CASE blockreward.exists /\ ~IsRewardBlock(change, bp)
    <2>1. UNCHANGED <<monitors, drainblocks, blockreward, pledge>>
      BY <1>10 DEF OnBlock, rewardVars
    <2>2. ~change /\ amount[bp] <= monitors[bp].last_block_num
      <3>1. amount[bp] \in Nat /\ monitors[bp].last_block_num \in Nat
        BY RowFacts
      <3>2. QED
        BY <1>10, <3>1 DEF IsRewardBlock
    <2>3. amount' = [amount EXCEPT ![bp] = @ + 1] /\ schedule' = schedule
      BY <1>1, <2>2
    <2>4. RoundBounded'
      <3>1. ASSUME NEW p \in Producer
            PROVE  /\ monitors[p].last_block_num <= amount'[p]
                   /\ amount'[p] <= monitors[p].last_block_num + (IF p \in schedule THEN 1 ELSE 0)
        <4>1. /\ amount[p] \in Nat /\ monitors[p].last_block_num \in Nat
              /\ amount'[p] = IF p = bp THEN amount[p] + 1 ELSE amount[p]
          BY <1>3, <2>3, RowFacts
        <4>2. /\ monitors[p].last_block_num <= amount[p]
              /\ amount[p] <= monitors[p].last_block_num + (IF p \in schedule THEN 1 ELSE 0)
          BY <1>10 DEF IInv, RoundBounded
        <4>3. bp \in schedule
          BY <1>1, <2>2
        <4>4. QED
          BY <2>2, <4>1, <4>2, <4>3
      <3>2. QED
        BY <2>1, <2>3, <3>1 DEF RoundBounded
    <2>5. EveryBlockCounted'
      <3> DEFINE f == [p \in Producer |-> amount[p] - monitors[p].last_block_num]
                 g == [p \in Producer |-> amount'[p] - monitors'[p].last_block_num]
      <3>1. DOMAIN f = Producer /\ DOMAIN g = Producer
        OBVIOUS
      <3>2. ASSUME NEW p \in Producer
            PROVE  f[p] \in Int /\ g[p] \in Int /\ g[p] = IF p = bp THEN f[p] + 1 ELSE f[p]
        <4>1. amount[p] \in Nat /\ monitors[p].last_block_num \in Nat
          BY RowFacts
        <4>2. amount'[p] = IF p = bp THEN amount[p] + 1 ELSE amount[p]
          BY <1>3, <2>3
        <4>3. QED
          BY <2>1, <4>1, <4>2
      <3>3. SumFunction(g) = SumFunction(f) - f[bp] + g[bp]
        <4> HIDE DEF f, g
        <4>1. QED
          BY <3>1, <3>2, SumMoves
      <3>4. SumFunction(f) = block - blockreward.last_reward_block_num + 1
        BY <1>10 DEF IInv, EveryBlockCounted
      <3>5. blockreward.last_reward_block_num \in Nat
        BY ChainFacts
      <3>6. SumFunction(g) = (block + 1) - blockreward.last_reward_block_num + 1
        <4> HIDE DEF f, g
        <4>1. QED
          BY <1>2, <3>2, <3>3, <3>4, <3>5
      <3>7. QED
        BY <1>1, <2>1, <3>6 DEF EveryBlockCounted
    <2>6. BlockAgeAccounted' /\ DrainsRecorded' /\ NothingSettled'
      BY <1>10, <2>1 DEF IInv, BlockAgeAccounted, DrainsRecorded, NothingSettled
    <2>7. QED
      BY <1>2, <1>3, <1>4, <1>5, <1>6, <2>1, <2>4, <2>5, <2>6
  <1>11. QED
    BY <1>7, <1>8, <1>9, <1>10

\* How a step leaves the types that onblock does not settle.
TypesKept ==
    /\ block' \in Nat /\ slot' \in 0..(NUM_OF_TOP_BPS - 1)
    /\ active' \in Elected /\ activeVersion' \in Nat \ {0}
    /\ version' \in {activeVersion', activeVersion' - 1}
    /\ schedule' \in Elected \cup {{}} /\ (version' = activeVersion' => schedule' = active')
    /\ config' \in Configs
    /\ bpsreward' \in [Producer -> Nat] /\ available' \in [Producer -> Nat]
    /\ now' \in Nat \ {0} /\ heartbeat' \in [Producer -> 0..now']

LEMMA NextSlot ==
    ASSUME NEW s \in 0..(NUM_OF_TOP_BPS - 1)
    PROVE  (s + 1) % NUM_OF_TOP_BPS \in 0..(NUM_OF_TOP_BPS - 1)
    BY ProducerAssumption

LEMMA OnBlockStep ==
    ASSUME IInv, NEW bp \in Producer, OnBlock(bp)
    PROVE  IInv'
  <1>1. /\ monitors' \in [Producer -> Monitors] /\ drainblocks' \in [Producer -> Nat]
        /\ pledge' \in [Producer -> Pledges] /\ blockreward' \in BlockRewards
        /\ missed' \in [Producer -> Nat] /\ amount' \in [Producer -> Nat]
        /\ RowOfSchedule' /\ NothingSettled'
        /\ RoundBounded' /\ EveryBlockCounted'
        /\ BlockAgeAccounted' /\ DrainsRecorded'
    BY OnBlockRewards
  <1>2. /\ version' = activeVersion /\ schedule' = active
        /\ block' = block + 1 /\ slot' = (slot + 1) % NUM_OF_TOP_BPS
        /\ active' = active /\ activeVersion' = activeVersion
        /\ config' = config /\ available' = available
    BY DEF OnBlock
  <1>3. bpsreward' \in [Producer -> Nat]
    <2>1. PICK earned \in BpAccountRewards, hb_max \in HbMax, open \in OpenFuncs :
             bpsreward' = [p \in Producer |->
               IF /\ "c.heartbeat" \in open => Beats(p, hb_max)
                  /\ "c.bppunish" \in open => HasPledge(p)
                  /\ monitors'[p].bp_status # "PUNISHED"
               THEN bpsreward[p] + earned[p] ELSE bpsreward[p]]
      BY DEF OnBlock, RewardBps
    <2>2. \A p \in Producer : bpsreward[p] \in Nat /\ earned[p] \in Nat
      BY AmountAssumption DEF IInv, TypeOK
    <2>3. \A p \in Producer : bpsreward[p] + earned[p] \in Nat
      BY <2>2
    <2>4. QED
      BY <2>1, <2>2, <2>3
  <1>4. /\ block \in Nat /\ slot \in 0..(NUM_OF_TOP_BPS - 1) /\ active \in Elected
        /\ activeVersion \in Nat \ {0} /\ config \in Configs
        /\ available \in [Producer -> Nat]
    BY DEF IInv, TypeOK
  <1>5. now' \in Nat \ {0} /\ heartbeat' \in [Producer -> 0..now']
    <2>1. PICK d \in Intervals : now' = now + d
      BY DEF OnBlock
    <2>2. heartbeat' = [heartbeat EXCEPT ![bp] = now']
      BY DEF OnBlock, HeartbeatImp
    <2>3. now \in Nat \ {0} /\ heartbeat \in [Producer -> 0..now] /\ d \in Nat \ {0}
      BY HeartbeatAssumption DEF IInv, TypeOK
    <2>4. now' \in Nat \ {0} /\ now' \in 0..now' /\ 0..now \subseteq 0..now'
      BY <2>1, <2>3
    <2>5. QED
      BY <2>2, <2>3, <2>4
  <1>6. TypesKept
    BY <1>2, <1>3, <1>4, <1>5, NextSlot DEF TypesKept
  <1>7. TypeOK'
    BY <1>1, <1>6 DEF TypeOK, TypesKept, BlockRewards, Pledges
  <1>8. QED
    BY <1>1, <1>7 DEF IInv

LEMMA MissSlotStep ==
    ASSUME IInv, NEW bp \in Producer, MissSlot(bp)
    PROVE  IInv'
  <1>1. /\ UNCHANGED <<block, active, activeVersion, version, schedule, amount, monitors,
                       drainblocks, blockreward, pledge, config, bpsreward, available, now,
                       heartbeat>>
        /\ missed' = [missed EXCEPT ![bp] = @ + 1]
        /\ slot' = (slot + 1) % NUM_OF_TOP_BPS
    BY DEF MissSlot, rewardVars, beatVars
  <1>2. missed' \in [Producer -> Nat]
    BY <1>1 DEF IInv, TypeOK
  <1>3. slot' \in 0..(NUM_OF_TOP_BPS - 1)
    BY <1>1, NextSlot, ChainFacts
  <1>4. TypeOK'
    BY <1>1, <1>2, <1>3 DEF IInv, TypeOK
  <1>5. NothingSettled' /\ RowOfSchedule' /\ DrainsRecorded'
    BY <1>1 DEF IInv, NothingSettled, RowOfSchedule, DrainsRecorded
  <1>6. RoundBounded' /\ EveryBlockCounted' /\ BlockAgeAccounted'
    BY <1>1 DEF IInv, RoundBounded, EveryBlockCounted, BlockAgeAccounted
  <1>7. QED
    BY <1>4, <1>5, <1>6 DEF IInv

LEMMA PromoteStep ==
    ASSUME IInv, NEW S \in Elected, Promote(S)
    PROVE  IInv'
  <1>1. /\ UNCHANGED <<block, slot, missed, version, schedule, amount, monitors, drainblocks,
                       blockreward, pledge, config, bpsreward, available, now, heartbeat>>
        /\ active' = S /\ activeVersion' = activeVersion + 1 /\ version = activeVersion
    BY DEF Promote, rewardVars, beatVars
  <1>2. activeVersion \in Nat \ {0}
    BY DEF IInv, TypeOK
  <1>3. /\ activeVersion' \in Nat \ {0} /\ version' \in {activeVersion', activeVersion' - 1}
        /\ version' # activeVersion'
    BY <1>1, <1>2
  <1>4. TypeOK'
    BY <1>1, <1>3 DEF IInv, TypeOK
  <1>5. NothingSettled' /\ RowOfSchedule' /\ DrainsRecorded'
    BY <1>1 DEF IInv, NothingSettled, RowOfSchedule, DrainsRecorded
  <1>6. RoundBounded' /\ EveryBlockCounted' /\ BlockAgeAccounted'
    BY <1>1 DEF IInv, RoundBounded, EveryBlockCounted, BlockAgeAccounted
  <1>7. QED
    BY <1>4, <1>5, <1>6 DEF IInv

LEMMA BringPledgeStep ==
    ASSUME IInv, NEW p \in Producer, NEW x \in Int, BringPledge(p, x)
    PROVE  IInv'
  <1>1. /\ UNCHANGED <<block, slot, active, activeVersion, missed, version, schedule, amount,
                       monitors, drainblocks, blockreward, config, bpsreward, available, now,
                       heartbeat>>
        /\ pledge' = [pledge EXCEPT ![p] = [exists |-> TRUE, amount |-> x]]
    BY DEF BringPledge, chainVars, rewardVars, beatVars
  <1>2. pledge' \in [Producer -> [exists : BOOLEAN, amount : Int]]
    BY <1>1 DEF IInv, TypeOK
  <1>3. TypeOK'
    BY <1>1, <1>2 DEF IInv, TypeOK
  <1>4. NothingSettled' /\ RowOfSchedule' /\ DrainsRecorded'
    BY <1>1 DEF IInv, NothingSettled, RowOfSchedule, DrainsRecorded
  <1>5. RoundBounded' /\ EveryBlockCounted' /\ BlockAgeAccounted'
    BY <1>1 DEF IInv, RoundBounded, EveryBlockCounted, BlockAgeAccounted
  <1>6. QED
    BY <1>3, <1>4, <1>5 DEF IInv

LEMMA UpdateConfigStep ==
    ASSUME IInv, NEW c \in Configs, UpdateConfig(c)
    PROVE  IInv'
  <1>1. /\ UNCHANGED <<block, slot, active, activeVersion, missed, version, schedule, amount,
                       monitors, drainblocks, blockreward, pledge, bpsreward, available, now,
                       heartbeat>>
        /\ config' = c
    BY DEF UpdateConfig, chainVars, rewardVars, beatVars
  <1>2. TypeOK'
    BY <1>1 DEF IInv, TypeOK
  <1>3. NothingSettled' /\ RowOfSchedule' /\ DrainsRecorded'
    BY <1>1 DEF IInv, NothingSettled, RowOfSchedule, DrainsRecorded
  <1>4. RoundBounded' /\ EveryBlockCounted' /\ BlockAgeAccounted'
    BY <1>1 DEF IInv, RoundBounded, EveryBlockCounted, BlockAgeAccounted
  <1>5. QED
    BY <1>2, <1>3, <1>4 DEF IInv

\* A claim takes the producer's block age out of the sum of all of them.
LEMMA ClaimBlockRewardStep ==
    ASSUME IInv, NEW bp \in Producer, ClaimBlockReward(bp)
    PROVE  IInv'
  <1> DEFINE reward == ClaimedBlockReward(bp)
             ages == [p \in Producer |-> monitors[p].bock_age]
             agesNew == [p \in Producer |-> monitors'[p].bock_age]
  <1>1. /\ UNCHANGED <<block, slot, active, activeVersion, missed, version, schedule, amount,
                       drainblocks, pledge, config, now, heartbeat>>
        /\ blockreward' = [blockreward EXCEPT !.total_block_age = AgeLeft(bp),
                                              !.reward_block_out = @ - reward]
        /\ monitors' = [monitors EXCEPT ![bp].bock_age = 0]
        /\ available' = [available EXCEPT ![bp] = @ + bpsreward[bp] + reward]
        /\ bpsreward' = [bpsreward EXCEPT ![bp] = 0]
        /\ blockreward.exists /\ blockreward.total_block_age # 0
        /\ reward < blockreward.reward_block_out
    BY DEF ClaimBlockReward, chainVars, beatVars
  <1>2. /\ blockreward \in BlockRewards /\ blockreward.reward_block_out \in Nat
        /\ blockreward.total_block_age \in Nat
    BY ChainFacts
  <1>3. /\ monitors \in [Producer -> Monitors]
        /\ \A p \in Producer : monitors[p].bock_age \in Nat
    BY RowFacts DEF IInv, TypeOK
  <1>4. blockreward.total_block_age = SumFunction(ages)
    BY DEF IInv, BlockAgeAccounted
  <1>5. AgeLeft(bp) = SumFunction(ages) - ages[bp] /\ AgeLeft(bp) \in Nat
    <2>1. AgeLeft(bp) = SumFunction(ages) - ages[bp]
      BY <1>4 DEF AgeLeft
    <2>2. DOMAIN ages = Producer /\ \A p \in Producer : ages[p] \in Nat
      BY <1>3
    <2> HIDE DEF ages
    <2>3. SumFunction(ages) \in Nat /\ ages[bp] <= SumFunction(ages) /\ ages[bp] \in Nat
      BY <2>2, NatSum
    <2>4. QED
      BY <2>1, <2>3
  <1>6. reward \in Nat
    <2>1. monitors[bp].bock_age * blockreward.reward_block_out \in Nat
      BY <1>2, <1>3, NatProduct
    <2> DEFINE x == monitors[bp].bock_age * blockreward.reward_block_out
    <2>2. reward = x \div blockreward.total_block_age
      BY DEF ClaimedBlockReward
    <2>3. x \in Nat
      BY <2>1
    <2> HIDE DEF x, reward
    <2>4. QED
      BY <1>1, <1>2, <2>2, <2>3, NatQuotient
  <1>7. /\ monitors' \in [Producer -> Monitors]
        /\ \A p \in Producer : \* of a row, only the block age of bp changes
             /\ monitors'[p].last_block_num = monitors[p].last_block_num
             /\ monitors'[p].consecutive_drain_block = monitors[p].consecutive_drain_block
             /\ monitors'[p].total_drain_block = monitors[p].total_drain_block
             /\ monitors'[p].bock_age = IF p = bp THEN 0 ELSE monitors[p].bock_age
    BY <1>1, <1>3 DEF Monitors
  <1> HIDE DEF reward
  <1>8. /\ blockreward' \in BlockRewards
        /\ blockreward'.exists
        /\ blockreward'.last_reward_block_num = blockreward.last_reward_block_num
        /\ blockreward'.total_block_age = AgeLeft(bp)
    <2>1. blockreward.reward_block_out - reward \in Nat
      BY <1>1, <1>2, <1>6
    <2>2. QED
      BY <1>1, <1>2, <1>5, <2>1 DEF BlockRewards
  <1>9. SumFunction(agesNew) = AgeLeft(bp)
    <2>1. DOMAIN ages = Producer /\ DOMAIN agesNew = Producer
      OBVIOUS
    <2>2. \A p \in Producer : /\ ages[p] \in Nat
                              /\ agesNew[p] = IF p = bp THEN 0 ELSE ages[p]
      BY <1>3, <1>7
    <2> HIDE DEF ages, agesNew
    <2>3. SumFunction(agesNew) = SumFunction(ages) - ages[bp] + agesNew[bp]
      BY <2>1, <2>2, SumMoves
    <2>4. agesNew[bp] = 0
      BY <2>2
    <2>5. QED
      BY <1>5, <2>3, <2>4
  <1>10. BlockAgeAccounted'
    BY <1>8, <1>9 DEF BlockAgeAccounted
  <1>11. RoundBounded' /\ DrainsRecorded' /\ NothingSettled' /\ RowOfSchedule'
    BY <1>1, <1>7, <1>8
       DEF IInv, RoundBounded, DrainsRecorded, NothingSettled, RowOfSchedule
  <1>12. EveryBlockCounted'
    <2> DEFINE f == [p \in Producer |-> amount[p] - monitors[p].last_block_num]
               g == [p \in Producer |-> amount'[p] - monitors'[p].last_block_num]
    <2>1. g = f
      BY <1>1, <1>7
    <2>2. SumFunction(f) = block - blockreward.last_reward_block_num + 1
      BY <1>1 DEF IInv, EveryBlockCounted
    <2>3. SumFunction(g) = block' - blockreward'.last_reward_block_num + 1
      <3> HIDE DEF f, g
      <3>1. QED
        BY <1>1, <1>8, <2>1, <2>2
    <2>4. QED
      BY <2>3 DEF EveryBlockCounted
  <1>13. bpsreward' \in [Producer -> Nat] /\ available' \in [Producer -> Nat]
    <2>1. bpsreward \in [Producer -> Nat] /\ available \in [Producer -> Nat]
      BY DEF IInv, TypeOK
    <2>2. available[bp] + bpsreward[bp] + reward \in Nat
      BY <1>6, <2>1
    <2>3. QED
      BY <1>1, <2>1, <2>2
  <1>14. TypeOK'
    BY <1>1, <1>7, <1>8, <1>13 DEF IInv, TypeOK, BlockRewards
  <1>15. QED
    BY <1>10, <1>11, <1>12, <1>14 DEF IInv

LEMMA ClaimVoteRewardStep ==
    ASSUME IInv, NEW bp \in Producer, ClaimVoteReward(bp)
    PROVE  IInv'
  <1>1. /\ UNCHANGED <<block, slot, active, activeVersion, missed, version, schedule, amount,
                       monitors, drainblocks, blockreward, pledge, config, now, heartbeat>>
        /\ available' = [available EXCEPT ![bp] = @ + bpsreward[bp]]
        /\ bpsreward' = [bpsreward EXCEPT ![bp] = 0]
    BY DEF ClaimVoteReward, chainVars, rewardVars, beatVars
  <1>2. bpsreward' \in [Producer -> Nat] /\ available' \in [Producer -> Nat]
    <2>1. bpsreward \in [Producer -> Nat] /\ available \in [Producer -> Nat]
      BY DEF IInv, TypeOK
    <2>2. available[bp] + bpsreward[bp] \in Nat
      BY <2>1
    <2>3. QED
      BY <1>1, <2>1, <2>2
  <1>3. TypeOK'
    BY <1>1, <1>2 DEF IInv, TypeOK
  <1>4. NothingSettled' /\ RowOfSchedule' /\ DrainsRecorded'
    BY <1>1 DEF IInv, NothingSettled, RowOfSchedule, DrainsRecorded
  <1>5. RoundBounded' /\ EveryBlockCounted' /\ BlockAgeAccounted'
    BY <1>1 DEF IInv, RoundBounded, EveryBlockCounted, BlockAgeAccounted
  <1>6. QED
    BY <1>3, <1>4, <1>5 DEF IInv

LEMMA HeartbeatStep ==
    ASSUME IInv, NEW bp \in Producer, Heartbeat(bp)
    PROVE  IInv'
  <1>1. /\ UNCHANGED <<block, slot, active, activeVersion, missed, version, schedule, amount,
                       monitors, drainblocks, blockreward, pledge, config, bpsreward, available,
                       now>>
        /\ heartbeat' = [heartbeat EXCEPT ![bp] = now]
    BY DEF Heartbeat, HeartbeatImp, chainVars, rewardVars
  <1>2. heartbeat' \in [Producer -> 0..now']
    BY <1>1 DEF IInv, TypeOK
  <1>3. TypeOK'
    BY <1>1, <1>2 DEF IInv, TypeOK
  <1>4. NothingSettled' /\ RowOfSchedule' /\ DrainsRecorded'
    BY <1>1 DEF IInv, NothingSettled, RowOfSchedule, DrainsRecorded
  <1>5. RoundBounded' /\ EveryBlockCounted' /\ BlockAgeAccounted'
    BY <1>1 DEF IInv, RoundBounded, EveryBlockCounted, BlockAgeAccounted
  <1>6. QED
    BY <1>3, <1>4, <1>5 DEF IInv

LEMMA Stutter ==
    ASSUME IInv, UNCHANGED vars
    PROVE  IInv'
  <1>1. UNCHANGED <<block, slot, active, activeVersion, missed, version, schedule, amount,
                    monitors, drainblocks, blockreward, pledge, config, bpsreward, available,
                    now, heartbeat>>
    BY DEF vars, chainVars, rewardVars, beatVars
  <1>2. TypeOK'
    BY <1>1 DEF IInv, TypeOK
  <1>3. NothingSettled' /\ RowOfSchedule' /\ DrainsRecorded'
    BY <1>1 DEF IInv, NothingSettled, RowOfSchedule, DrainsRecorded
  <1>4. RoundBounded' /\ EveryBlockCounted' /\ BlockAgeAccounted'
    BY <1>1 DEF IInv, RoundBounded, EveryBlockCounted, BlockAgeAccounted
  <1>5. QED
    BY <1>2, <1>3, <1>4 DEF IInv

LEMMA Initial ==
    ASSUME Init
    PROVE  IInv
  <1>1. NewMonitor \in Monitors
    BY AmountAssumption DEF NewMonitor, Monitors
  <1>2. NoBlockReward \in BlockRewards /\ ~NoBlockReward.exists
    BY DEF NoBlockReward, BlockRewards
  <1>3. slot \in 0..(NUM_OF_TOP_BPS - 1)
    BY ProducerAssumption DEF Init
  <1>4. TypeOK
    BY <1>1, <1>2, <1>3, AmountAssumption DEF Init, TypeOK, BlockRewards
  <1>5. NothingSettled /\ RowOfSchedule /\ RoundBounded /\ EveryBlockCounted
    BY <1>2
       DEF Init, NothingSettled, RowOfSchedule, RoundBounded, EveryBlockCounted
  <1>6. BlockAgeAccounted
    <2> DEFINE ages == [p \in Producer |-> monitors[p].bock_age]
    <2>1. DOMAIN ages = Producer /\ \A p \in Producer : ages[p] = 0
      BY DEF Init, NewMonitor
    <2>2. SumFunction(ages) = 0
      <3> HIDE DEF ages
      <3>1. QED
        BY <2>1, ZeroSum
    <2>3. blockreward.total_block_age = 0
      BY DEF Init, NoBlockReward
    <2>4. QED
      BY <2>2, <2>3 DEF BlockAgeAccounted
  <1>7. DrainsRecorded
    BY DEF Init, DrainsRecorded, NewMonitor
  <1>8. QED
    BY <1>4, <1>5, <1>6, <1>7 DEF IInv

-----------------------------------------------------------------------------
(* The rotation of the slots *)

\* 1 if the slot of index i has come up once more than elsewhere, from the
\* slot of index first up to the next one, next.
Turn(i, first, next) == IF Between(i, first, next) THEN 1 ELSE 0

\* v counts the slots of each producer of S since the one of L, in which the
\* last settlement was: whole rounds and the begun one.
Rotates(v, L, S, next) ==
    \E rounds \in Nat :
        \A p \in S : v[p] = rounds + Turn(Index(p, S), Index(L, S), next)

Visits == [p \in Producer |-> amount[p] - monitors[p].last_block_num + missed[p]]

\* While no new schedule waits, every slot since the last settlement has
\* either a block that is not settled or a miss.
Rotation ==
    blockreward.exists /\ version = activeVersion =>
        /\ blockreward.last_standard_bp \in active
        /\ Rotates(Visits, blockreward.last_standard_bp, active, slot)

SlotIndices == 0..(NUM_OF_TOP_BPS - 1)

\* Producers of a schedule have indices of their own.
LEMMA IndexFacts ==
    ASSUME NEW S \in Elected, NEW p \in S
    PROVE  /\ Index(p, S) \in SlotIndices
           /\ \A q \in S : Index(q, S) = Index(p, S) => q = p
  <1>1. /\ S \subseteq Producer /\ Cardinality(S) = NUM_OF_TOP_BPS
        /\ NUM_OF_TOP_BPS \in Nat \ {0} /\ S \subseteq Nat
    BY ProducerAssumption
  <1>2. IsFiniteSet(S)
    BY <1>1, FiniteProducers, FS_Subset
  <1> DEFINE below(r) == {q \in S : q < r}
  <1>3. ASSUME NEW r \in S
        PROVE  /\ Index(r, S) = Cardinality(below(r)) /\ IsFiniteSet(below(r))
               /\ Index(r, S) \in Nat
    <2>1. below(r) \in SUBSET S
      OBVIOUS
    <2>2. IsFiniteSet(below(r))
      BY <1>2, <2>1, FS_Subset
    <2>3. QED
      BY <2>2, FS_CardinalityType DEF Index
  <1>4. ASSUME NEW r \in S, NEW X \in SUBSET S, below(r) \subseteq X, r \in X
        PROVE  Index(r, S) < Cardinality(X)
    <2>1. r \notin below(r) /\ below(r) # X
      BY <1>1, <1>4
    <2>2. IsFiniteSet(X)
      BY <1>2, FS_Subset
    <2>3. below(r) \in SUBSET X
      BY <1>4
    <2>4. Cardinality(below(r)) <= Cardinality(X) /\ Cardinality(below(r)) # Cardinality(X)
      BY <2>1, <2>2, <2>3, FS_Subset
    <2>5. Cardinality(below(r)) \in Nat /\ Cardinality(X) \in Nat
      BY <1>3, <2>2, FS_CardinalityType
    <2> HIDE DEF below
    <2>6. QED
      BY <1>3, <2>4, <2>5
  <1>5. Index(p, S) \in SlotIndices
    <2>1. Index(p, S) < Cardinality(S)
      BY <1>4
    <2>2. Index(p, S) \in Nat
      BY <1>3
    <2>3. QED
      BY <1>1, <2>1, <2>2 DEF SlotIndices
  <1>6. ASSUME NEW q \in S, NEW r \in S, q < r
        PROVE  Index(q, S) < Index(r, S)
    <2>1. below(q) \subseteq below(r) /\ q \in below(r) /\ below(r) \in SUBSET S
      <3>1. q \in Nat /\ r \in Nat
        BY <1>1
      <3>2. ASSUME NEW t \in S, t < q PROVE t < r
        <4>1. t \in Nat
          BY <1>1
        <4>2. QED
          BY <1>6, <3>1, <3>2, <4>1
      <3>3. QED
        BY <1>6, <3>2
    <2>2. Index(q, S) < Cardinality(below(r))
      BY <1>4, <2>1
    <2>3. QED
      BY <1>3, <2>2
  <1>7. ASSUME NEW q \in S, Index(q, S) = Index(p, S)
        PROVE  q = p
    <2>1. q \in Nat /\ p \in Nat
      BY <1>1
    <2>2. q < p \/ p < q \/ q = p
      BY <2>1
    <2>3. Index(q, S) \in Nat /\ Index(p, S) \in Nat
      BY <1>3
    <2>4. QED
      BY <1>6, <1>7, <2>2, <2>3
  <1>8. QED
    BY <1>5, <1>7

\* One slot on, the turn of its producer has come; when that closes the
\* round, everybody's has.
LEMMA TurnStep ==
    ASSUME NEW i \in SlotIndices, NEW first \in SlotIndices, NEW s \in SlotIndices
    PROVE  LET next == (s + 1) % NUM_OF_TOP_BPS
           IN  /\ next = first => Turn(i, first, s) + (IF i = s THEN 1 ELSE 0) = 1
                                  /\ Turn(i, first, next) = 0
               /\ next # first => Turn(i, first, s) + (IF i = s THEN 1 ELSE 0)
                                    = Turn(i, first, next)
  <1>1. NUM_OF_TOP_BPS \in Nat \ {0} /\ i \in Nat /\ first \in Nat /\ s \in Nat
        /\ i < NUM_OF_TOP_BPS /\ first < NUM_OF_TOP_BPS /\ s < NUM_OF_TOP_BPS
    BY ProducerAssumption DEF SlotIndices
  <1>2. (s + 1) % NUM_OF_TOP_BPS = IF s + 1 = NUM_OF_TOP_BPS THEN 0 ELSE s + 1
    BY <1>1
  <1>3. QED
    BY <1>1, <1>2 DEF Turn, Between

LEMMA RotatesOn ==
    ASSUME NEW S \in Elected, NEW L \in S, NEW bp \in S, NEW s \in SlotIndices,
           Index(bp, S) = s, NEW v, NEW w, Rotates(v, L, S, s),
           \A p \in S : w[p] = v[p] + (IF p = bp THEN 1 ELSE 0)
    PROVE  Rotates(w, L, S, (s + 1) % NUM_OF_TOP_BPS)
  <1> DEFINE next == (s + 1) % NUM_OF_TOP_BPS
             first == Index(L, S)
  <1>1. PICK r \in Nat : \A p \in S : v[p] = r + Turn(Index(p, S), first, s)
    BY DEF Rotates
  <1>2. first \in SlotIndices
    BY IndexFacts
  <1>3. ASSUME NEW p \in S
        PROVE  /\ next = first => w[p] = (r + 1) + Turn(Index(p, S), first, next)
               /\ next # first => w[p] = r + Turn(Index(p, S), first, next)
    <2>1. Index(p, S) \in SlotIndices /\ (p = bp <=> Index(p, S) = s)
      BY IndexFacts
    <2> DEFINE i == Index(p, S)
               before == Turn(i, first, s)
               after == Turn(i, first, next)
               one == IF i = s THEN 1 ELSE 0
    <2>2. w[p] = (r + before) + one
      BY <1>1, <2>1
    <2>3. /\ next = first => before + one = 1 /\ after = 0
          /\ next # first => before + one = after
      BY <1>2, <2>1, TurnStep
    <2>4. before \in Nat /\ after \in Nat /\ one \in Nat
      BY DEF Turn
    <2> HIDE DEF before, after, one, next, first
    <2>5. /\ next = first => w[p] = (r + 1) + after
          /\ next # first => w[p] = r + after
      BY <2>2, <2>3, <2>4
    <2>6. QED
      BY <2>5 DEF after
  <1>4. CASE next = first
    <2>1. r + 1 \in Nat
      OBVIOUS
    <2>2. QED
      BY <1>3, <1>4, <2>1 DEF Rotates
  <1>5. CASE next # first
    BY <1>3, <1>5 DEF Rotates
  <1>6. QED
    BY <1>4, <1>5

\* After a settlement, only the slot of the block that made it has come up.
LEMMA RotatesAnew ==
    ASSUME NEW S \in Elected, NEW bp \in S, NEW s \in SlotIndices, Index(bp, S) = s,
           NEW w, \A p \in S : w[p] = IF p = bp THEN 1 ELSE 0
    PROVE  Rotates(w, bp, S, (s + 1) % NUM_OF_TOP_BPS)
  <1> DEFINE v == [p \in S |-> 0]
  <1>1. Rotates(v, bp, S, s)
    <2>1. \A p \in S : Index(p, S) \in SlotIndices
      BY IndexFacts
    <2>2. \A i \in SlotIndices : Turn(i, s, s) = 0
      BY ProducerAssumption DEF SlotIndices, Turn, Between
    <2>3. \A p \in S : v[p] = 0 + Turn(Index(p, S), Index(bp, S), s)
      BY <2>1, <2>2
    <2> HIDE DEF v
    <2>4. QED
      BY <2>3 DEF Rotates
  <1>2. \A p \in S : w[p] = v[p] + (IF p = bp THEN 1 ELSE 0)
    OBVIOUS
  <1> HIDE DEF v
  <1>3. QED
    BY <1>1, <1>2, RotatesOn

LEMMA VisitsType ==
    ASSUME IInv
    PROVE  \A p \in Producer : /\ Visits[p] = amount[p] - monitors[p].last_block_num + missed[p]
                               /\ Visits[p] \in Int
    BY RowFacts DEF Visits

\* What onblock leaves when it settles, or begins to.
LEMMA OnBlockAnew ==
    ASSUME IInv, NEW bp \in Producer, OnBlock(bp), blockreward'.exists,
           ~blockreward.exists \/ IsRewardBlock(version # activeVersion, bp)
    PROVE  /\ blockreward'.last_standard_bp = bp
           /\ \A p \in Producer :
                amount'[p] - monitors'[p].last_block_num + missed'[p] = IF p = bp THEN 1 ELSE 0
  <1> DEFINE change == version # activeVersion
  <1>1. /\ amount' = IF change THEN [p \in Producer |-> IF p = bp THEN 1 ELSE 0]
                     ELSE [amount EXCEPT ![bp] = @ + 1]
        /\ ~change => active = schedule
        /\ bp \in active
        /\ amount \in [Producer -> Nat]
    BY ChainFacts DEF OnBlock, IInv, TypeOK
  <1>2. IsRewardBlock(change, bp)
    BY DEF OnBlock, rewardVars
  <1>3. missed' = [p \in Producer |-> 0] /\ RewardBlock(bp, change)
    BY <1>2 DEF OnBlock
  <1>4. CASE blockreward.exists
    <2>1. Settle(bp, change)
      BY <1>3, <1>4 DEF RewardBlock
    <2>2. blockreward \in BlockRewards
      BY ChainFacts
    <2>3. blockreward'.last_standard_bp = bp
      BY <2>1, <2>2 DEF Settle, BlockRewards
    <2> HIDE DEF change
    <2>4. \A p \in Producer :
                monitors'[p].last_block_num = IF p \in schedule
                                              THEN LastBlockNum(change, amount[p])
                                              ELSE monitors[p].last_block_num
      BY <1>4, <2>1, SettleFacts
    <2>5. ASSUME NEW p \in Producer
          PROVE  amount'[p] - monitors'[p].last_block_num + missed'[p] = IF p = bp THEN 1 ELSE 0
      <3>1. /\ p \notin schedule => amount[p] = 0 /\ monitors[p].last_block_num = 0
            /\ amount[p] \in Nat /\ missed'[p] = 0
        BY <1>1, <1>3, <1>4, RoundFacts
      <3>2. CASE change
        <4>1. amount'[p] = IF p = bp THEN 1 ELSE 0
          BY <1>1, <3>2
        <4>2. monitors'[p].last_block_num = 0
          BY <2>4, <3>1, <3>2 DEF LastBlockNum
        <4>3. QED
          BY <3>1, <4>1, <4>2
      <3>3. CASE ~change
        <4>1. amount'[p] = IF p = bp THEN amount[p] + 1 ELSE amount[p]
          BY <1>1, <3>3
        <4>2. monitors'[p].last_block_num = amount[p]
          BY <2>4, <3>1, <3>3 DEF LastBlockNum
        <4>3. QED
          BY <3>1, <4>1, <4>2
      <3>4. QED
        BY <3>2, <3>3
    <2>6. QED
      BY <2>3, <2>5
  <1>5. CASE ~blockreward.exists
    <2>1. change /\ BeginRewards(bp)
      BY <1>3, <1>5 DEF RewardBlock, rewardVars
    <2>2. /\ blockreward' = [NoBlockReward EXCEPT !.exists = TRUE, !.last_standard_bp = bp,
                                                  !.last_reward_block_num = block + 1]
          /\ monitors' = monitors
      BY <2>1 DEF BeginRewards
    <2>3. blockreward'.last_standard_bp = bp
      BY <2>2 DEF NoBlockReward
    <2>4. \A p \in Producer : monitors'[p].last_block_num = 0
      BY <1>5, <2>2 DEF IInv, NothingSettled, NewMonitor
    <2>5. QED
      BY <1>1, <1>3, <2>1, <2>3, <2>4
  <1>6. QED
    BY <1>4, <1>5

LEMMA RotationOnBlock ==
    ASSUME IInv, Rotation, NEW bp \in Producer, OnBlock(bp), IInv'
    PROVE  Rotation'
  <1>1. /\ bp \in active /\ Index(bp, active) = slot
        /\ active' = active /\ activeVersion' = activeVersion /\ version' = activeVersion
        /\ slot' = (slot + 1) % NUM_OF_TOP_BPS
    BY DEF OnBlock
  <1>2. active \in Elected /\ slot \in SlotIndices /\ active \subseteq Producer
    BY ChainFacts DEF IInv, TypeOK, SlotIndices
  <1>3. SUFFICES ASSUME blockreward'.exists
                 PROVE  /\ blockreward'.last_standard_bp \in active
                        /\ Rotates(Visits', blockreward'.last_standard_bp, active, slot')
    BY <1>1 DEF Rotation
  <1>4. PICK w : w = Visits'
    OBVIOUS
  <1>5. \A p \in Producer :
           w[p] = amount'[p] - monitors'[p].last_block_num + missed'[p]
    BY <1>4 DEF Visits
  <1>6. CASE ~blockreward.exists \/ IsRewardBlock(version # activeVersion, bp)
    <2>1. /\ blockreward'.last_standard_bp = bp
          /\ \A p \in active : w[p] = IF p = bp THEN 1 ELSE 0
      BY <1>2, <1>3, <1>5, <1>6, OnBlockAnew
    <2>2. Rotates(w, bp, active, (slot + 1) % NUM_OF_TOP_BPS)
      BY <1>1, <1>2, <2>1, RotatesAnew
    <2>3. QED
      BY <1>1, <1>4, <2>1, <2>2
  <1>7. CASE blockreward.exists /\ ~IsRewardBlock(version # activeVersion, bp)
    <2>1. version = activeVersion
      BY <1>7 DEF IsRewardBlock
    <2>2. /\ amount' = [amount EXCEPT ![bp] = @ + 1]
          /\ UNCHANGED <<monitors, blockreward, missed>>
      BY <1>7, <2>1 DEF OnBlock, rewardVars
    <2>3. /\ blockreward.last_standard_bp \in active
          /\ Rotates(Visits, blockreward.last_standard_bp, active, slot)
      BY <1>7, <2>1 DEF Rotation
    <2>4. \A p \in active : w[p] = Visits[p] + (IF p = bp THEN 1 ELSE 0)
      <3>1. ASSUME NEW p \in active
            PROVE  w[p] = Visits[p] + (IF p = bp THEN 1 ELSE 0)
        <4>1. /\ amount[p] \in Nat /\ monitors[p].last_block_num \in Nat /\ missed[p] \in Nat
              /\ amount \in [Producer -> Nat]
          BY <1>2, RowFacts
        <4>2. amount'[p] = IF p = bp THEN amount[p] + 1 ELSE amount[p]
          BY <1>2, <2>2, <4>1
        <4>3. w[p] = amount'[p] - monitors[p].last_block_num + missed[p]
          BY <1>2, <1>5, <2>2
        <4>4. Visits[p] = amount[p] - monitors[p].last_block_num + missed[p]
          BY <1>2 DEF Visits
        <4>5. QED
          BY <4>1, <4>2, <4>3, <4>4
      <3>2. QED
        BY <3>1
    <2>5. PICK v : v = Visits
      OBVIOUS
    <2>6. Rotates(w, blockreward.last_standard_bp, active, (slot + 1) % NUM_OF_TOP_BPS)
      BY <1>1, <1>2, <2>3, <2>4, <2>5, RotatesOn
    <2>7. QED
      BY <1>1, <1>4, <2>2, <2>3, <2>6
  <1>8. QED
    BY <1>6, <1>7

LEMMA RotationMissSlot ==
    ASSUME IInv, Rotation, NEW bp \in Producer, MissSlot(bp)
    PROVE  Rotation'
  <1>1. /\ bp \in active /\ Index(bp, active) = slot
        /\ UNCHANGED <<active, activeVersion, version, amount, monitors, blockreward>>
        /\ missed' = [missed EXCEPT ![bp] = @ + 1]
        /\ slot' = (slot + 1) % NUM_OF_TOP_BPS
    BY DEF MissSlot, rewardVars
  <1>2. active \in Elected /\ slot \in SlotIndices /\ active \subseteq Producer
    BY ChainFacts DEF IInv, TypeOK, SlotIndices
  <1>3. SUFFICES ASSUME blockreward.exists, version = activeVersion
                 PROVE  /\ blockreward.last_standard_bp \in active
                        /\ Rotates(Visits', blockreward.last_standard_bp, active, slot')
    BY <1>1 DEF Rotation
  <1>4. PICK v, w : v = Visits /\ w = Visits'
    OBVIOUS
  <1>5. /\ blockreward.last_standard_bp \in active
        /\ Rotates(v, blockreward.last_standard_bp, active, slot)
    BY <1>3, <1>4 DEF Rotation
  <1>6. ASSUME NEW p \in active
        PROVE  w[p] = v[p] + (IF p = bp THEN 1 ELSE 0)
    <2>1. /\ amount[p] \in Nat /\ monitors[p].last_block_num \in Nat /\ missed[p] \in Nat
          /\ missed \in [Producer -> Nat]
      BY <1>2, RowFacts DEF IInv, TypeOK
    <2>2. missed'[p] = IF p = bp THEN missed[p] + 1 ELSE missed[p]
      BY <1>1, <1>2, <2>1
    <2>3. /\ w[p] = amount[p] - monitors[p].last_block_num + missed'[p]
          /\ v[p] = amount[p] - monitors[p].last_block_num + missed[p]
      BY <1>1, <1>2, <1>4 DEF Visits
    <2>4. QED
      BY <2>1, <2>2, <2>3
  <1>7. Rotates(w, blockreward.last_standard_bp, active, (slot + 1) % NUM_OF_TOP_BPS)
    BY <1>1, <1>2, <1>5, <1>6, RotatesOn
  <1>8. QED
    BY <1>1, <1>4, <1>5, <1>7

\* Other steps move no slot, and settle nothing.
LEMMA RotationKept ==
    ASSUME IInv, Rotation,
           UNCHANGED <<active, activeVersion, version, slot, amount, missed>>,
           blockreward'.exists = blockreward.exists,
           blockreward'.last_standard_bp = blockreward.last_standard_bp,
           \A p \in Producer : monitors'[p].last_block_num = monitors[p].last_block_num
    PROVE  Rotation'
  <1>1. Visits' = Visits
    BY DEF Visits
  <1>2. QED
    BY <1>1 DEF Rotation

LEMMA RotationClaim ==
    ASSUME IInv, Rotation, NEW bp \in Producer, BpClaim(bp)
    PROVE  Rotation'
  <1>1. UNCHANGED <<active, activeVersion, version, slot, amount, missed>>
    BY DEF BpClaim, ClaimBlockReward, ClaimVoteReward, chainVars
  <1>2. CASE ClaimVoteReward(bp)
    <2>1. monitors' = monitors /\ blockreward' = blockreward
      BY <1>2 DEF ClaimVoteReward, rewardVars
    <2>2. QED
      BY <1>1, <2>1, RotationKept
  <1>3. CASE ClaimBlockReward(bp)
    <2>1. /\ monitors' = [monitors EXCEPT ![bp].bock_age = 0]
          /\ blockreward' = [blockreward EXCEPT !.total_block_age = AgeLeft(bp),
                                                !.reward_block_out = @ - ClaimedBlockReward(bp)]
      BY <1>3 DEF ClaimBlockReward
    <2>2. monitors \in [Producer -> Monitors] /\ blockreward \in BlockRewards
      BY ChainFacts DEF IInv, TypeOK
    <2>3. /\ \A p \in Producer : monitors'[p].last_block_num = monitors[p].last_block_num
          /\ blockreward'.exists = blockreward.exists
          /\ blockreward'.last_standard_bp = blockreward.last_standard_bp
      BY <2>1, <2>2 DEF Monitors, BlockRewards
    <2>4. QED
      BY <1>1, <2>3, RotationKept
  <1>4. QED
    BY <1>2, <1>3 DEF BpClaim

-----------------------------------------------------------------------------
(* The theorems *)

\* The inductive invariant holds in every reachable state, for any number of
\* producers, schedules, missed slots and blocks.
THEOREM Invariance == Spec => []IInv
  <1>1. Init => IInv
    BY Initial
  <1>2. IInv /\ [Next]_vars => IInv'
    <2> SUFFICES ASSUME IInv, [Next]_vars PROVE IInv'
      OBVIOUS
    <2>1. ASSUME NEW p \in Producer, OnBlock(p) \/ MissSlot(p) PROVE IInv'
      BY <2>1, OnBlockStep, MissSlotStep
    <2>2. ASSUME NEW p \in Producer, BpClaim(p) PROVE IInv'
      BY <2>2, ClaimBlockRewardStep, ClaimVoteRewardStep DEF BpClaim
    <2>3. ASSUME NEW S \in Elected, Promote(S) PROVE IInv'
      BY <2>3, PromoteStep
    <2>4. ASSUME NEW d \in Pledged, BringPledge(d[1], d[2]) PROVE IInv'
      <3>1. d[1] \in Producer /\ d[2] \in Int
        BY AmountAssumption
      <3>2. QED
        BY <2>4, <3>1, BringPledgeStep
    <2>5. ASSUME NEW c \in Configs, UpdateConfig(c) PROVE IInv'
      BY <2>5, UpdateConfigStep
    <2>6. ASSUME NEW b \in Beating, Heartbeat(b[1]) PROVE IInv'
      <3>1. b[1] \in Producer
        BY HeartbeatAssumption
      <3>2. QED
        BY <2>6, <3>1, HeartbeatStep
    <2>7. QED
      BY <2>1, <2>2, <2>3, <2>4, <2>5, <2>6, Stutter DEF Next
  <1>3. QED
    BY <1>1, <1>2, PTL DEF Spec

\* Every row keeps its type: no settlement and no claim takes a count, a
\* block age or the pot below zero, where the code's unsigned fields wrap.
THEOREM TypeCorrect == Spec => []TypeOK
  <1>1. IInv => TypeOK
    BY DEF IInv
  <1>2. QED
    BY <1>1, Invariance, PTL

\* onblock never lets a producer get two blocks ahead of its last settlement,
\* nor behind it, whatever schedules the chain adopts and when.
THEOREM RoundAlwaysBounded == Spec => []RoundBounded
  <1>1. IInv => RoundBounded
    BY DEF IInv
  <1>2. QED
    BY <1>1, Invariance, PTL

\* The blocks that earn a reward are those the chain has produced: none is
\* counted twice or lost at a settlement or a change of schedule.
THEOREM EveryBlockIsCounted == Spec => []EveryBlockCounted
  <1>1. IInv => EveryBlockCounted
    BY DEF IInv
  <1>2. QED
    BY <1>1, Invariance, PTL

\* bpclaim's divisor is the sum of the block ages it takes shares of.
THEOREM BlockAgeIsSum == Spec => []BlockAgeAccounted
  <1>1. IInv => BlockAgeAccounted
    BY DEF IInv
  <1>2. QED
    BY <1>1, Invariance, PTL

\* Recorded runs of missed blocks never overlap.
THEOREM RunsRecorded == Spec => []DrainsRecorded
  <1>1. IInv => DrainsRecorded
    BY DEF IInv
  <1>2. QED
    BY <1>1, Invariance, PTL

\* The order in which the slots come up holds of every block: what every
\* producer of the schedule has produced or missed since the last settlement
\* differs by one at most, and it is known for which producers.
THEOREM RotationInvariance == Spec => []Rotation
  <1>1. Init => Rotation
    BY DEF Init, Rotation, NoBlockReward
  <1>2. IInv /\ IInv' /\ Rotation /\ [Next]_vars => Rotation'
    <2> SUFFICES ASSUME IInv, IInv', Rotation, [Next]_vars PROVE Rotation'
      OBVIOUS
    <2>1. ASSUME NEW p \in Producer, OnBlock(p) \/ MissSlot(p) \/ BpClaim(p) PROVE Rotation'
      BY <2>1, RotationOnBlock, RotationMissSlot, RotationClaim
    <2>2. ASSUME NEW S \in Elected, Promote(S) PROVE Rotation'
      <3>1. activeVersion \in Nat
        BY DEF IInv, TypeOK
      <3>2. version' # activeVersion'
        BY <2>2, <3>1 DEF Promote
      <3>3. QED
        BY <3>2 DEF Rotation
    <2>3. ASSUME NEW d \in Pledged, BringPledge(d[1], d[2]) PROVE Rotation'
      BY <2>3, RotationKept DEF BringPledge, chainVars, rewardVars
    <2>4. ASSUME NEW c \in Configs, UpdateConfig(c) PROVE Rotation'
      BY <2>4, RotationKept DEF UpdateConfig, chainVars, rewardVars
    <2>5. CASE UNCHANGED vars
      BY <2>5, RotationKept DEF vars, chainVars, rewardVars
    <2>6. ASSUME NEW b \in Beating, Heartbeat(b[1]) PROVE Rotation'
      BY <2>6, RotationKept DEF Heartbeat, chainVars, rewardVars
    <2>7. QED
      BY <2>1, <2>2, <2>3, <2>4, <2>5, <2>6 DEF Next
  <1>3. QED
    BY <1>1, <1>2, Invariance, PTL DEF Spec

\* In a settlement of a complete round, whoever missed nothing has its block
\* and is not between the producers of the two settlements.
LEMMA RoundCharge ==
    ASSUME IInv, Rotation, version = activeVersion, NEW bp \in Producer, OnBlock(bp),
           NEW p \in Producer
    PROVE  monitors'[p].total_drain_block - monitors[p].total_drain_block <= missed[p]
  <1>1. /\ monitors[p] \in Monitors /\ monitors[p].total_drain_block \in Nat
        /\ missed[p] \in Nat /\ amount[p] \in Nat /\ monitors[p].last_block_num \in Nat
        /\ amount[bp] \in Nat /\ monitors[bp].last_block_num \in Nat /\ missed[bp] \in Nat
    BY RowFacts
  <1>2. CASE monitors'[p] = monitors[p]
    BY <1>1, <1>2
  <1>3. (Settle(bp, FALSE) /\ IsRewardBlock(FALSE, bp) /\ blockreward.exists)
        \/ UNCHANGED monitors
    BY DEF OnBlock, RewardBlock, BeginRewards, rewardVars
  <1>4. CASE /\ Settle(bp, FALSE) /\ IsRewardBlock(FALSE, bp) /\ blockreward.exists
             /\ p \in schedule
    <2>1. schedule = active /\ bp \in active /\ Index(bp, active) = slot /\ active \in Elected
          /\ slot \in SlotIndices
      BY ChainFacts DEF OnBlock, IInv, TypeOK, SlotIndices
    <2> DEFINE first == Index(blockreward.last_standard_bp, active)
               drain == CalDrainNum(FALSE, Index(p, active), first, slot,
                                    monitors[p].last_block_num, amount[p])
               turn == IF Between(Index(p, active), first, slot) THEN 1 ELSE 0
    <2>2. PICK r \in Nat : \A q \in active : Visits[q] = r + Turn(Index(q, active), first, slot)
      BY <1>4 DEF Rotation, Rotates
    <2>3. Turn(Index(bp, active), first, slot) = 0
      <3>1. first \in SlotIndices
        BY <1>4, <2>1, IndexFacts DEF Rotation
      <3>2. QED
        BY <2>1, <3>1, ProducerAssumption DEF Turn, Between, SlotIndices
    <2>4. r >= 1
      <3>1. Visits[bp] = amount[bp] - monitors[bp].last_block_num + missed[bp]
        BY DEF Visits
      <3>2. amount[bp] > monitors[bp].last_block_num
        BY <1>4 DEF IsRewardBlock
      <3>3. Visits[bp] = r + 0
        BY <2>1, <2>2, <2>3
      <3>4. QED
        BY <1>1, <3>1, <3>2, <3>3
    <2>5. amount[p] - monitors[p].last_block_num + missed[p] = r + turn
      BY <1>4, <2>1, <2>2 DEF Visits, Turn
    <2>6. amount[p] - monitors[p].last_block_num \in {0, 1}
      BY <1>4, RoundFacts
    <2>7. drain = LET result == monitors[p].last_block_num + 1 - amount[p] + turn - 0
                  IN  IF result \in 0..1 THEN result ELSE 1
      BY DEF CalDrainNum, BP_CYCLE_BLOCK_OUT
    <2>8. turn \in {0, 1}
      OBVIOUS
    <2>9. monitors'[p].total_drain_block = monitors[p].total_drain_block + drain
      BY <1>4, <2>1 DEF Settle, Settled
    <2> HIDE DEF turn, drain, first
    <2>10. drain \in {0, 1} /\ (missed[p] = 0 => drain = 0)
      BY <1>1, <2>4, <2>5, <2>6, <2>7, <2>8
    <2>11. QED
      BY <1>1, <2>9, <2>10
  <1>5. CASE Settle(bp, FALSE) /\ p \notin schedule
    <2>1. monitors'[p] = monitors[p]
      BY <1>5 DEF Settle
    <2>2. QED
      BY <1>2, <2>1
  <1>6. QED
    BY <1>2, <1>3, <1>4, <1>5

ChargedOnce ==
    version = activeVersion =>
      \A p \in Producer :
        monitors'[p].total_drain_block - monitors[p].total_drain_block <= missed[p]

LEMMA ChargeStep ==
    IInv /\ Rotation /\ [Next]_vars => ChargedOnce
  <1> SUFFICES ASSUME IInv, Rotation, [Next]_vars, version = activeVersion, NEW p \in Producer
               PROVE  monitors'[p].total_drain_block - monitors[p].total_drain_block <= missed[p]
    BY DEF ChargedOnce
  <1>1. monitors \in [Producer -> Monitors] /\ monitors[p].total_drain_block \in Nat
        /\ missed[p] \in Nat
    BY RowFacts
  <1>2. CASE monitors'[p].total_drain_block = monitors[p].total_drain_block
    BY <1>1, <1>2
  <1>3. ASSUME NEW bp \in Producer, OnBlock(bp)
        PROVE  monitors'[p].total_drain_block - monitors[p].total_drain_block <= missed[p]
    BY <1>3, RoundCharge
  <1>4. ASSUME NEW bp \in Producer, ClaimBlockReward(bp)
        PROVE  monitors'[p].total_drain_block = monitors[p].total_drain_block
    <2>1. monitors' = [monitors EXCEPT ![bp].bock_age = 0]
      BY <1>4 DEF ClaimBlockReward
    <2>2. QED
      BY <1>1, <2>1 DEF Monitors
  <1>5. ASSUME NEW bp \in Producer, MissSlot(bp) \/ ClaimVoteReward(bp)
        PROVE  UNCHANGED monitors
    BY <1>5 DEF MissSlot, ClaimVoteReward, rewardVars
  <1>6. ASSUME NEW S \in Elected, Promote(S) PROVE UNCHANGED monitors
    BY <1>6 DEF Promote, rewardVars
  <1>7. ASSUME NEW d \in Pledged, BringPledge(d[1], d[2]) PROVE UNCHANGED monitors
    BY <1>7 DEF BringPledge, rewardVars
  <1>8. ASSUME NEW c \in Configs, UpdateConfig(c) PROVE UNCHANGED monitors
    BY <1>8 DEF UpdateConfig, rewardVars
  <1>9. UNCHANGED vars => UNCHANGED monitors
    BY DEF vars, rewardVars
  <1>10. ASSUME NEW b \in Beating, Heartbeat(b[1]) PROVE UNCHANGED monitors
    BY <1>10 DEF Heartbeat, rewardVars
  <1>11. QED
    BY <1>2, <1>3, <1>4, <1>5, <1>6, <1>7, <1>8, <1>9, <1>10 DEF Next, BpClaim

\* A settlement of a complete round charges nobody that missed no slot, for
\* any number of producers and any order of blocks and misses.
THEOREM AlwaysChargedForMissesInRound == Spec => ChargedForMissesInRound
  <1>1. IInv /\ Rotation /\ [Next]_vars =>
          (version = activeVersion =>
             \A p \in Producer :
               monitors'[p].total_drain_block - monitors[p].total_drain_block <= missed[p])
    BY ChargeStep DEF ChargedOnce
  <1>2. QED
    BY <1>1, Invariance, RotationInvariance, PTL DEF Spec, ChargedForMissesInRound

FairClaims ==
    \A p, q \in Producer :
         /\ ClaimBlockReward(p) /\ p # q
         /\ blockreward'.total_block_age > 0
         => (monitors[q].bock_age * blockreward.reward_block_out) \div blockreward.total_block_age
              <= (monitors'[q].bock_age * blockreward'.reward_block_out)
                    \div blockreward'.total_block_age

LEMMA FairClaimStep ==
    IInv => FairClaims
  <1> SUFFICES ASSUME IInv, NEW p \in Producer, NEW q \in Producer, ClaimBlockReward(p), p # q,
                      blockreward'.total_block_age > 0
               PROVE  (monitors[q].bock_age * blockreward.reward_block_out)
                          \div blockreward.total_block_age
                        <= (monitors'[q].bock_age * blockreward'.reward_block_out)
                              \div blockreward'.total_block_age
    BY DEF FairClaims
  <1>1. /\ blockreward' = [blockreward EXCEPT !.total_block_age = AgeLeft(p),
                                              !.reward_block_out = @ - ClaimedBlockReward(p)]
        /\ monitors' = [monitors EXCEPT ![p].bock_age = 0]
        /\ blockreward.total_block_age # 0
        /\ ClaimedBlockReward(p) < blockreward.reward_block_out
    BY DEF ClaimBlockReward
  <1>2. /\ blockreward \in BlockRewards /\ blockreward.reward_block_out \in Nat
        /\ blockreward.total_block_age \in Nat \ {0}
    BY <1>1, ChainFacts
  <1>3. /\ monitors[p].bock_age \in Nat /\ monitors[q].bock_age \in Nat
        /\ monitors \in [Producer -> Monitors]
    BY RowFacts
  <1>4. PICK R \in Nat, T \in Nat \ {0}, a \in Nat, c \in Nat :
           /\ R = blockreward.reward_block_out /\ T = blockreward.total_block_age
           /\ a = monitors[p].bock_age /\ c = monitors[q].bock_age
    BY <1>2, <1>3
  <1>5. PICK r : r = ClaimedBlockReward(p)
    OBVIOUS
  <1>6. r = (R * a) \div T
    <2>1. r = (a * R) \div T
      BY <1>4, <1>5 DEF ClaimedBlockReward
    <2>2. a * R = R * a
      OBVIOUS
    <2>3. QED
      BY <2>1, <2>2
  <1>7. r \in Nat /\ r <= R
    <2>1. R * a \in Nat
      BY NatProduct
    <2>2. r \in Nat
      BY <1>6, <2>1, NatQuotient
    <2>3. QED
      BY <1>1, <1>4, <1>5, <2>2
  <1>8. /\ blockreward'.total_block_age = T - a /\ blockreward'.reward_block_out = R - r
        /\ monitors'[q].bock_age = c
    BY <1>1, <1>2, <1>3, <1>4, <1>5 DEF BlockRewards, AgeLeft
  <1>9. PICK U \in Nat \ {0} : U = T - a
    BY <1>8
  <1>10. ((R - r) * c) \div U >= (R * c) \div T
    BY <1>6, <1>7, <1>9, FairShare
  <1>11. PICK S \in Nat : S = R - r
    BY <1>7
  <1>12. (c * R) \div T <= (c * S) \div U
    <2>1. c * R = R * c /\ c * S = S * c
      OBVIOUS
    <2>2. (R * c) \div T <= (S * c) \div U
      <3>1. PICK x, y : x = (S * c) \div U /\ y = (R * c) \div T
        OBVIOUS
      <3>2. x >= y
        BY <1>10, <1>11, <3>1
      <3>3. QED
        BY <3>1, <3>2
    <2>3. QED
      BY <2>1, <2>2
  <1>13. QED
    BY <1>4, <1>8, <1>9, <1>11, <1>12

\* Whoever claims first, a bpclaim rounds down: what it leaves to others is
\* never less than they could have claimed before.
THEOREM ClaimsAlwaysIndependent == Spec => ClaimsIndependent
  <1>1. IInv =>
          \A p, q \in Producer :
             /\ ClaimBlockReward(p) /\ p # q
             /\ blockreward'.total_block_age > 0
             => (monitors[q].bock_age * blockreward.reward_block_out)
                      \div blockreward.total_block_age
                  <= (monitors'[q].bock_age * blockreward'.reward_block_out)
                        \div blockreward'.total_block_age
    BY FairClaimStep DEF FairClaims
  <1>2. QED
    BY <1>1, Invariance, PTL DEF Spec, ClaimsIndependent

-----------------------------------------------------------------------------
(* Punish: its inductive invariant *)

Proposal == [exists : BOOLEAN, proposaler : Producer \cup {0},
             approve_bp : SUBSET Producer, effective_block_num : Nat]
Approvals == [Producer \X Producer -> Int]

\* The types of the tables Punish adds to those of Monitor.
PunishRows ==
    /\ punishbps \in [Producer -> Proposal]
    /\ end_punish_block \in [Producer -> Nat]
    /\ lastproducers \in Seq(Producer) /\ Len(lastproducers) <= MAX_LAST_PRODUCER_SIZE
    /\ deduction \in [Producer -> Nat] /\ rewards \in [Producer -> Nat]
    /\ approvedAt \in Approvals
    /\ punishedAt \in [Producer -> Nat]

\* A proposal's approvals are not older than the proposal.
ApprovalsRecent ==
    \A p \in Producer : punishbps[p].exists =>
        /\ punishbps[p].effective_block_num <= block + PUNISH_BP_LIMIT
        /\ \A a \in punishbps[p].approve_bp :
             approvedAt[<<p, a>>] + PUNISH_BP_LIMIT >= punishbps[p].effective_block_num

\* A producer is punished, or was never, or long enough ago.
Sentenced ==
    \A p \in Producer :
        IF monitors[p].bp_status = "PUNISHED"
        THEN end_punish_block[p] = punishedAt[p] + PUNISH_BP_LIMIT
        ELSE punishedAt[p] = 0 \/ block > punishedAt[p] + PUNISH_BP_LIMIT

PunishIInv ==
    /\ IInv /\ PunishRows
    /\ NoProposalLeft /\ ApprovalsRecent /\ Sentenced /\ RewardsFromDrains

-----------------------------------------------------------------------------
(* Sums *)

\* If every producer's deduction grows by no more than its drains pay for,
\* the sum of all does.
LEMMA DrainsPay ==
    ASSUME NEW f, NEW g, NEW m, NEW n, NEW c \in Nat,
           DOMAIN f = Producer, DOMAIN g = Producer,
           DOMAIN m = Producer, DOMAIN n = Producer,
           \A p \in Producer : /\ f[p] \in Int /\ g[p] \in Int /\ m[p] \in Int /\ n[p] \in Int
                               /\ g[p] - f[p] <= c * (n[p] - m[p])
    PROVE  SumFunction(g) - SumFunction(f) <= c * SumFunction(n) - c * SumFunction(m)
  <1> DEFINE e == [p \in Producer |-> g[p] - f[p]]
             t == [p \in Producer |-> n[p] - m[p]]
             s == [p \in Producer |-> c * t[p]]
  <1>1. DOMAIN e = Producer /\ DOMAIN t = Producer /\ DOMAIN s = Producer
    OBVIOUS
  <1>2. \A p \in Producer : /\ e[p] = g[p] - f[p] /\ t[p] = n[p] - m[p]
                            /\ e[p] \in Int /\ t[p] \in Int
    OBVIOUS
  <1>3. \A p \in Producer : s[p] = c * t[p] /\ s[p] \in Int
    <2> HIDE DEF t
    <2>1. QED
      BY <1>2
  <1>4. \A p \in Producer : e[p] <= s[p]
    BY <1>2, <1>3
  <1> HIDE DEF e, t, s
  <1>5. SumFunction(g) = SumFunction(f) + SumFunction(e)
    <2>1. \A p \in Producer : f[p] \in Int /\ e[p] \in Int /\ g[p] = f[p] + e[p]
      BY <1>2
    <2>2. QED
      BY <1>1, <2>1, SumOfSums
  <1>6. SumFunction(n) = SumFunction(m) + SumFunction(t)
    <2>1. \A p \in Producer : m[p] \in Int /\ t[p] \in Int /\ n[p] = m[p] + t[p]
      BY <1>2
    <2>2. QED
      BY <1>1, <2>1, SumOfSums
  <1>7. SumFunction(s) = c * SumFunction(t)
    <2>1. SumFunctionOnSet(s, Producer) = c * SumFunctionOnSet(t, Producer)
      BY <1>2, <1>3, FiniteProducers, SumScale
    <2>2. QED
      BY <1>1, <2>1, SumIs
  <1>8. SumFunction(e) <= SumFunction(s)
    <2>1. SumFunctionOnSet(e, Producer) <= SumFunctionOnSet(s, Producer)
      BY <1>2, <1>3, <1>4, FiniteProducers, SumMono
    <2>2. QED
      BY <1>1, <2>1, SumIs
  <1>9. /\ SumFunction(e) \in Int /\ SumFunction(t) \in Int
        /\ SumFunction(f) \in Int /\ SumFunction(m) \in Int
    BY <1>1, <1>2, FiniteProducers, SumIs, SumInt
  <1>10. c * (SumFunction(m) + SumFunction(t)) = c * SumFunction(m) + c * SumFunction(t)
    BY <1>9
  <1>11. c * SumFunction(m) \in Int /\ c * SumFunction(t) \in Int
    BY <1>9
  <1>12. QED
    BY <1>5, <1>6, <1>7, <1>8, <1>9, <1>10, <1>11

\* Of a penalty P, half goes to x, and the other half in equal shares,
\* rounded down, to A.
Deals(f, g, P, x, A) ==
    \A p \in Producer :
        /\ f[p] \in Int
        /\ g[p] = f[p] + (IF p = x THEN P \div 2 ELSE 0)
                       + (IF p \in A THEN P \div (2 * Cardinality(A)) ELSE 0)

\* No more is dealt out than there is, also when x is in A.
LEMMA DealtWithin ==
    ASSUME NEW f, NEW g, DOMAIN f = Producer, DOMAIN g = Producer,
           NEW P \in Nat, NEW x, NEW A \in SUBSET Producer, A # {},
           Deals(f, g, P, x, A)
    PROVE  SumFunction(g) <= SumFunction(f) + P
  <1> DEFINE half == P \div 2
             size == Cardinality(A)
             share == P \div (2 * size)
             X == {x} \cap Producer
             u == [p \in Producer |-> IF p \in X THEN half ELSE 0]
             w == [p \in Producer |-> IF p \in A THEN share ELSE 0]
             h == [p \in Producer |-> f[p] + u[p]]
  <1>1. half \in Nat /\ 2 * half <= P
    OBVIOUS
  <1>2. size \in Nat /\ size # 0
    <2>1. IsFiniteSet(A)
      BY FiniteProducers, FS_Subset
    <2>2. QED
      BY <2>1, FS_CardinalityType, FS_EmptySet
  <1>3. share \in Nat /\ (2 * size) * share <= P
    <2> HIDE DEF size
    <2>1. 2 * size \in Nat \ {0}
      BY <1>2
    <2>2. QED
      BY <2>1, DivFloor
  <1>4. Cardinality(X) \in Nat /\ Cardinality(X) <= 1
    <2>1. IsFiniteSet({x}) /\ Cardinality({x}) = 1 /\ X \in SUBSET {x}
      BY FS_Singleton
    <2> HIDE DEF X
    <2>2. QED
      BY <2>1, FS_Subset, FS_CardinalityType
  <1>5. \A p \in Producer : /\ h[p] = f[p] + u[p] /\ g[p] = h[p] + w[p]
                            /\ u[p] = (IF p \in X THEN half ELSE 0)
                            /\ w[p] = (IF p \in A THEN share ELSE 0)
    <2> HIDE DEF half, share
    <2>1. \A p \in Producer : g[p] = f[p] + (IF p = x THEN half ELSE 0)
                                          + (IF p \in A THEN share ELSE 0)
      BY DEF half, share, size, Deals
    <2>2. QED
      BY <2>1
  <1>6. DOMAIN h = Producer /\ DOMAIN u = Producer /\ DOMAIN w = Producer
    OBVIOUS
  <1>7. X \in SUBSET Producer
    OBVIOUS
  <1> HIDE DEF half, size, share, X, u, w, h
  <1>8. \A p \in Producer : /\ f[p] \in Int /\ u[p] \in Int
                            /\ w[p] \in Int /\ h[p] \in Int
    BY <1>1, <1>3, <1>5 DEF Deals
  <1>9. SumFunction(h) = SumFunction(f) + SumFunction(u)
    BY <1>5, <1>6, <1>8, SumOfSums
  <1>10. SumFunction(g) = SumFunction(h) + SumFunction(w)
    BY <1>5, <1>6, <1>8, SumOfSums
  <1>11. SumFunction(u) = half * Cardinality(X)
    <2>1. SumFunctionOnSet(u, Producer) = half * Cardinality(X)
      BY <1>1, <1>5, <1>7, FiniteProducers, SumConstant
    <2>2. QED
      BY <1>6, <2>1, SumIs
  <1>12. SumFunction(w) = share * size
    <2>1. SumFunctionOnSet(w, Producer) = share * size
      BY <1>3, <1>5, FiniteProducers, SumConstant DEF size
    <2>2. QED
      BY <1>6, <2>1, SumIs
  <1>13. SumFunction(f) \in Int
    BY <1>8, FiniteProducers, SumIs, SumInt
  <1>14. half * Cardinality(X) \in Nat /\ half * Cardinality(X) <= half
    <2>1. Cardinality(X) = 0 \/ Cardinality(X) = 1
      BY <1>4
    <2>2. QED
      BY <1>1, <2>1
  <1>15. share * size \in Nat /\ 2 * (share * size) <= P
    <2>1. share * size \in Nat /\ (2 * size) * share = 2 * (share * size)
      BY <1>2, <1>3
    <2>2. QED
      BY <1>3, <2>1
  <1>16. half * Cardinality(X) + share * size <= P
    BY <1>1, <1>14, <1>15
  <1>17. QED
    BY <1>9, <1>10, <1>11, <1>12, <1>13, <1>14, <1>15, <1>16

-----------------------------------------------------------------------------
(* What the invariant says of one producer *)

Statuses == {"NORMAL", "LACK_PLEDGE", "PUNISHED"}

LEMMA PunishFacts ==
    ASSUME PunishIInv, NEW p \in Producer
    PROVE  /\ monitors[p] \in Monitors /\ monitors[p].bp_status \in Statuses
           /\ monitors[p].total_drain_block \in Nat /\ block \in Nat
           /\ pledge[p] \in Pledges /\ pledge[p].amount \in Int
           /\ punishbps[p] \in Proposal
           /\ punishbps[p].approve_bp \in SUBSET Producer
           /\ punishbps[p].effective_block_num \in Nat
           /\ end_punish_block[p] \in Nat /\ punishedAt[p] \in Nat
           /\ deduction[p] \in Nat /\ rewards[p] \in Nat
           /\ \A a \in Producer : approvedAt[<<p, a>>] \in Int
  <1>1. monitors[p] \in Monitors /\ pledge[p] \in Pledges /\ block \in Nat
    BY RowFacts, ChainFacts DEF PunishIInv
  <1>2. /\ punishbps[p] \in Proposal /\ end_punish_block[p] \in Nat /\ punishedAt[p] \in Nat
        /\ deduction[p] \in Nat /\ rewards[p] \in Nat
        /\ \A a \in Producer : approvedAt[<<p, a>>] \in Int
    BY DEF PunishIInv, PunishRows, Approvals
  <1>3. QED
    BY <1>1, <1>2 DEF Monitors, Pledges, Proposal, Statuses

\* The sums of RewardsFromDrains are numbers.
LEMMA PunishSums ==
    ASSUME PunishIInv
    PROVE  /\ SumFunction(rewards) \in Nat /\ SumFunction(deduction) \in Nat
           /\ SumFunction([p \in Producer |-> monitors[p].total_drain_block]) \in Nat
  <1> DEFINE t == [p \in Producer |-> monitors[p].total_drain_block]
  <1>1. DOMAIN t = Producer /\ \A p \in Producer : t[p] \in Nat
    BY PunishFacts
  <1>2. DOMAIN rewards = Producer /\ DOMAIN deduction = Producer
    BY DEF PunishIInv, PunishRows
  <1> HIDE DEF t
  <1>3. SumFunction(t) \in Nat
    BY <1>1, NatSum
  <1>4. \A p \in Producer : rewards[p] \in Nat /\ deduction[p] \in Nat
    BY PunishFacts
  <1>5. SumFunction(rewards) \in Nat /\ SumFunction(deduction) \in Nat
    BY <1>2, <1>4, NatSum
  <1>6. QED
    BY <1>3, <1>5 DEF t

-----------------------------------------------------------------------------
(* Steps of the monitor that touch neither the status of a producer nor its
   count of missed blocks *)

SameRecord(p) ==
    /\ monitors'[p].bp_status = monitors[p].bp_status
    /\ monitors'[p].total_drain_block = monitors[p].total_drain_block

LEMMA SameDrains ==
    ASSUME PunishIInv, \A p \in Producer : monitors'[p].total_drain_block
                                             = monitors[p].total_drain_block
    PROVE  [p \in Producer |-> monitors'[p].total_drain_block]
             = [p \in Producer |-> monitors[p].total_drain_block]
    OBVIOUS

LEMMA QuietStep ==
    ASSUME PunishIInv, IInv', UNCHANGED punishVars, block' = block,
           \A p \in Producer : SameRecord(p)
    PROVE  PunishIInv'
  <1>1. UNCHANGED <<punishbps, approvedAt, end_punish_block, punishedAt, lastproducers,
                    deduction, rewards>>
    BY DEF punishVars, proposalVars, sentenceVars, penaltyVars
  <1>2. \A p \in Producer : /\ monitors'[p].bp_status = monitors[p].bp_status
                            /\ monitors'[p].total_drain_block = monitors[p].total_drain_block
    BY DEF SameRecord
  <1>3. PunishRows'
    BY <1>1 DEF PunishIInv, PunishRows
  <1>4. NoProposalLeft' /\ ApprovalsRecent' /\ Sentenced'
    BY <1>1, <1>2 DEF PunishIInv, NoProposalLeft, ApprovalsRecent, Sentenced
  <1>5. RewardsFromDrains'
    BY <1>1, <1>2, SameDrains DEF PunishIInv, RewardsFromDrains
  <1>6. QED
    BY <1>3, <1>4, <1>5 DEF PunishIInv

\* A producer's status is all that the calls about punishment change of the
\* monitor's tables.
MonitorElse == <<block, chainVars, version, schedule, amount, drainblocks, blockreward,
                 pledge, config, bpsreward, available, beatVars>>

LEMMA StatusStep ==
    ASSUME PunishIInv, NEW p \in Producer, NEW s \in Statuses, monitors[p].exists,
           monitors' = [monitors EXCEPT ![p].bp_status = s],
           UNCHANGED MonitorElse
    PROVE  /\ IInv'
           /\ \A q \in Producer :
                /\ monitors'[q].bp_status = IF q = p THEN s ELSE monitors[q].bp_status
                /\ monitors'[q].total_drain_block = monitors[q].total_drain_block
  <1>1. UNCHANGED <<block, slot, active, activeVersion, missed, version, schedule, amount,
                    drainblocks, blockreward, pledge, config, bpsreward, available, now,
                    heartbeat>>
    BY DEF MonitorElse, chainVars, beatVars
  <1>2. IInv /\ monitors \in [Producer -> Monitors]
    BY DEF PunishIInv, IInv, TypeOK
  <1>3. monitors' \in [Producer -> Monitors]
    BY <1>2 DEF Monitors, Statuses
  <1>4. \A q \in Producer :
           /\ monitors'[q].bp_status = IF q = p THEN s ELSE monitors[q].bp_status
           /\ monitors'[q].last_block_num = monitors[q].last_block_num
           /\ monitors'[q].consecutive_drain_block = monitors[q].consecutive_drain_block
           /\ monitors'[q].total_drain_block = monitors[q].total_drain_block
           /\ monitors'[q].bock_age = monitors[q].bock_age
    BY <1>2 DEF Monitors
  <1>5. TypeOK'
    BY <1>1, <1>2, <1>3 DEF IInv, TypeOK
  <1>6. NothingSettled'
    <2>1. blockreward.exists
      BY <1>2 DEF IInv, NothingSettled, NewMonitor
    <2>2. QED
      BY <1>1, <2>1 DEF NothingSettled
  <1>7. RowOfSchedule' /\ RoundBounded' /\ DrainsRecorded'
    BY <1>1, <1>2, <1>4 DEF IInv, RowOfSchedule, RoundBounded, DrainsRecorded
  <1>8. EveryBlockCounted' /\ BlockAgeAccounted'
    <2>1. [q \in Producer |-> amount'[q] - monitors'[q].last_block_num]
            = [q \in Producer |-> amount[q] - monitors[q].last_block_num]
      BY <1>1, <1>4
    <2>2. [q \in Producer |-> monitors'[q].bock_age] = [q \in Producer |-> monitors[q].bock_age]
      BY <1>4
    <2>3. QED
      BY <1>1, <1>2, <2>1, <2>2 DEF IInv, EveryBlockCounted, BlockAgeAccounted
  <1>9. QED
    BY <1>4, <1>5, <1>6, <1>7, <1>8 DEF IInv

-----------------------------------------------------------------------------
(* onblock *)

\* Of one producer: it becomes punishable at most, and for a missed block its
\* pledge is charged no more than DRAIN_BLOCK_PUNISH.
LEMMA DrainRow ==
    ASSUME PunishIInv, NEW bp \in Producer, OnBlock(bp), NEW p \in Producer
    PROVE  /\ \/ monitors'[p].bp_status = monitors[p].bp_status
              \/ monitors[p].bp_status = "NORMAL" /\ monitors'[p].bp_status = "LACK_PLEDGE"
           /\ pledge[p].amount - pledge'[p].amount \in Nat
           /\ pledge[p].amount - pledge'[p].amount
                <= DRAIN_BLOCK_PUNISH * (monitors'[p].total_drain_block
                                           - monitors[p].total_drain_block)
  <1>1. /\ IInv /\ monitors[p] \in Monitors /\ pledge[p] \in Pledges /\ pledge[p].amount \in Int
        /\ monitors[p].total_drain_block \in Nat
    BY PunishFacts DEF PunishIInv
  <1>2. CASE monitors'[p] = monitors[p] /\ pledge'[p] = pledge[p]
    <2>1. DRAIN_BLOCK_PUNISH * 0 = 0 /\ DRAIN_BLOCK_PUNISH \in Nat
      BY AmountAssumption
    <2>2. monitors'[p].total_drain_block - monitors[p].total_drain_block = 0
      BY <1>1, <1>2
    <2>3. pledge[p].amount - pledge'[p].amount = 0
      BY <1>1, <1>2
    <2>4. QED
      BY <1>2, <2>1, <2>2, <2>3
  <1> DEFINE change == version # activeVersion
  <1>3. CASE Settle(bp, change) /\ p \in schedule
    <2> DEFINE drain == CalDrainNum(change, Index(p, schedule),
                            Index(blockreward.last_standard_bp, schedule), Index(bp, schedule),
                            monitors[p].last_block_num, amount[p])
               produced == amount[p] - monitors[p].last_block_num
               age == BpAge(p, produced)
               drains == IF drain > 0 THEN monitors[p].consecutive_drain_block + drain ELSE 0
    <2>1. drain \in {0, 1}
      BY DrainIsBit
    <2>2. monitors'[p] = Settled(monitors[p], change, drain, produced, amount[p], age)
      BY <1>3 DEF Settle
    <2>3. pledge'[p] = IF pledge[p].exists
                       THEN [pledge[p] EXCEPT !.amount = @ - drain * DRAIN_BLOCK_PUNISH]
                       ELSE pledge[p]
      BY <1>3 DEF Settle
    <2>4. /\ monitors'[p].total_drain_block = monitors[p].total_drain_block + drain
          /\ monitors'[p].bp_status =
                IF drains > BP_PUBISH_DRAIN_NUM /\ monitors[p].bp_status = "NORMAL"
                THEN "LACK_PLEDGE" ELSE monitors[p].bp_status
      BY <2>2 DEF Settled
    <2> HIDE DEF drain, drains
    <2>5. monitors'[p].total_drain_block - monitors[p].total_drain_block = drain
      BY <1>1, <2>1, <2>4
    <2>6. DRAIN_BLOCK_PUNISH * drain \in Nat /\ drain * DRAIN_BLOCK_PUNISH = DRAIN_BLOCK_PUNISH * drain
      BY <2>1, AmountAssumption
    <2>7. pledge[p].amount - pledge'[p].amount
             = IF pledge[p].exists THEN DRAIN_BLOCK_PUNISH * drain ELSE 0
      BY <1>1, <2>3, <2>6 DEF Pledges
    <2>8. QED
      BY <2>4, <2>5, <2>6, <2>7
  <1>4. CASE Settle(bp, change) /\ p \notin schedule
    <2>1. monitors'[p] = monitors[p] /\ pledge'[p] = pledge[p]
      BY <1>4 DEF Settle
    <2>2. QED
      BY <1>2, <2>1
  <1>5. Settle(bp, change) \/ UNCHANGED <<monitors, pledge>>
    BY DEF OnBlock, RewardBlock, BeginRewards, rewardVars
  <1>6. QED
    BY <1>2, <1>3, <1>4, <1>5

LEMMA OnBlockRemembersStep ==
    ASSUME PunishIInv, NEW bp \in Producer, OnBlockRemembers(bp)
    PROVE  PunishIInv'
  <1>1. /\ OnBlock(bp) /\ IInv
        /\ lastproducers' = Remembered(bp)
        /\ deduction' = [p \in Producer |-> deduction[p] + pledge[p].amount - pledge'[p].amount]
        /\ UNCHANGED <<punishbps, approvedAt, end_punish_block, punishedAt, rewards>>
        /\ block' = block + 1
    BY DEF OnBlockRemembers, OnBlock, PunishIInv, proposalVars, sentenceVars
  <1>2. IInv' /\ block \in Nat
    BY <1>1, OnBlockStep, ChainFacts
  <1>3. ASSUME NEW p \in Producer
        PROVE  /\ \/ monitors'[p].bp_status = monitors[p].bp_status
                  \/ monitors[p].bp_status = "NORMAL" /\ monitors'[p].bp_status = "LACK_PLEDGE"
               /\ deduction'[p] - deduction[p] = pledge[p].amount - pledge'[p].amount
               /\ deduction[p] \in Nat /\ deduction'[p] \in Nat
               /\ monitors[p].total_drain_block \in Nat /\ monitors'[p].total_drain_block \in Nat
               /\ deduction'[p] - deduction[p]
                    <= DRAIN_BLOCK_PUNISH * (monitors'[p].total_drain_block
                                               - monitors[p].total_drain_block)
    <2>1. /\ \/ monitors'[p].bp_status = monitors[p].bp_status
             \/ monitors[p].bp_status = "NORMAL" /\ monitors'[p].bp_status = "LACK_PLEDGE"
          /\ pledge[p].amount - pledge'[p].amount \in Nat
          /\ pledge[p].amount - pledge'[p].amount
               <= DRAIN_BLOCK_PUNISH * (monitors'[p].total_drain_block
                                          - monitors[p].total_drain_block)
      BY <1>1, DrainRow
    <2>2. monitors' \in [Producer -> Monitors] /\ pledge' \in [Producer -> Pledges]
      BY <1>2 DEF IInv, TypeOK, Pledges
    <2>3. monitors'[p].total_drain_block \in Nat /\ pledge'[p].amount \in Int
      BY <2>2 DEF Monitors, Pledges
    <2>4. /\ deduction[p] \in Nat /\ monitors[p].total_drain_block \in Nat
          /\ pledge[p].amount \in Int
      BY PunishFacts
    <2>5. deduction'[p] = deduction[p] + pledge[p].amount - pledge'[p].amount
      BY <1>1
    <2>6. /\ deduction'[p] - deduction[p] = pledge[p].amount - pledge'[p].amount
          /\ deduction'[p] = deduction[p] + (pledge[p].amount - pledge'[p].amount)
      BY <2>3, <2>4, <2>5
    <2>7. QED
      BY <2>1, <2>3, <2>4, <2>6
  <1>4. lastproducers' \in Seq(Producer) /\ Len(lastproducers') <= MAX_LAST_PRODUCER_SIZE
    <2>1. lastproducers \in Seq(Producer) /\ Len(lastproducers) <= MAX_LAST_PRODUCER_SIZE
      BY DEF PunishIInv, PunishRows
    <2>2. MAX_LAST_PRODUCER_SIZE \in Nat \ {0}
      BY PunishAssumption
    <2>3. CASE Len(lastproducers) = MAX_LAST_PRODUCER_SIZE
      <3>1. lastproducers # <<>>
        BY <2>1, <2>2, <2>3
      <3>2. lastproducers' = Append(Tail(lastproducers), bp)
        BY <1>1, <2>3 DEF Remembered
      <3>3. Tail(lastproducers) \in Seq(Producer) /\ Len(Tail(lastproducers)) = Len(lastproducers) - 1
        BY <2>1, <3>1
      <3>4. QED
        BY <2>1, <2>2, <2>3, <3>2, <3>3
    <2>4. CASE Len(lastproducers) # MAX_LAST_PRODUCER_SIZE
      <3>1. lastproducers' = Append(lastproducers, bp)
        BY <1>1, <2>4 DEF Remembered
      <3>2. QED
        BY <2>1, <2>2, <2>4, <3>1
    <2>5. QED
      BY <2>3, <2>4
  <1>5. PunishRows'
    <2>1. deduction' \in [Producer -> Nat]
      <3>1. deduction' = [p \in Producer |-> deduction'[p]]
        BY <1>1
      <3>2. QED
        BY <1>3, <3>1
    <2>2. QED
      BY <1>1, <1>4, <2>1 DEF PunishIInv, PunishRows
  <1>6. NoProposalLeft'
    BY <1>1, <1>3 DEF PunishIInv, NoProposalLeft
  <1>7. ApprovalsRecent'
    <2>1. ASSUME NEW p \in Producer, punishbps[p].exists
          PROVE  punishbps[p].effective_block_num <= (block + 1) + PUNISH_BP_LIMIT
      <3>1. punishbps[p].effective_block_num <= block + PUNISH_BP_LIMIT
        BY <2>1 DEF PunishIInv, ApprovalsRecent
      <3>2. punishbps[p].effective_block_num \in Nat
        BY PunishFacts
      <3>3. QED
        BY <1>2, <3>1, <3>2, PunishAssumption
    <2>2. QED
      BY <1>1, <2>1 DEF PunishIInv, ApprovalsRecent
  <1>8. Sentenced'
    <2>1. ASSUME NEW p \in Producer
          PROVE  IF monitors'[p].bp_status = "PUNISHED"
                 THEN end_punish_block[p] = punishedAt[p] + PUNISH_BP_LIMIT
                 ELSE punishedAt[p] = 0 \/ block + 1 > punishedAt[p] + PUNISH_BP_LIMIT
      <3>1. IF monitors[p].bp_status = "PUNISHED"
            THEN end_punish_block[p] = punishedAt[p] + PUNISH_BP_LIMIT
            ELSE punishedAt[p] = 0 \/ block > punishedAt[p] + PUNISH_BP_LIMIT
        BY DEF PunishIInv, Sentenced
      <3>2. punishedAt[p] \in Nat
        BY PunishFacts
      <3>3. QED
        BY <1>2, <1>3, <3>1, <3>2, PunishAssumption
    <2>2. QED
      BY <1>1, <2>1 DEF Sentenced
  <1>9. RewardsFromDrains'
    <2> DEFINE m == [p \in Producer |-> monitors[p].total_drain_block]
               n == [p \in Producer |-> monitors'[p].total_drain_block]
    <2>1. PICK f : f = deduction
      OBVIOUS
    <2>2. PICK g : g = deduction'
      OBVIOUS
    <2>3. DOMAIN f = Producer /\ DOMAIN g = Producer /\ DOMAIN m = Producer /\ DOMAIN n = Producer
      BY <1>1, <2>1, <2>2 DEF PunishIInv, PunishRows
    <2>4. \A p \in Producer :
             /\ f[p] \in Int /\ g[p] \in Int /\ m[p] \in Int /\ n[p] \in Int
             /\ g[p] - f[p] <= DRAIN_BLOCK_PUNISH * (n[p] - m[p])
      BY <1>3, <2>1, <2>2
    <2>5. \A p \in Producer : n[p] \in Nat /\ g[p] \in Nat
      BY <1>3, <2>2
    <2>6. SumFunction(rewards) + SumFunction(f) <= DRAIN_BLOCK_PUNISH * SumFunction(m)
      BY <2>1 DEF PunishIInv, RewardsFromDrains
    <2>7. SumFunction(rewards) \in Nat /\ SumFunction(f) \in Nat /\ SumFunction(m) \in Nat
      BY <2>1, PunishSums
    <2>8. DRAIN_BLOCK_PUNISH \in Nat
      BY AmountAssumption
    <2> HIDE DEF m, n
    <2>9. SumFunction(n) \in Nat /\ SumFunction(g) \in Nat
      BY <2>3, <2>5, NatSum
    <2>10. SumFunction(g) - SumFunction(f)
             <= DRAIN_BLOCK_PUNISH * SumFunction(n) - DRAIN_BLOCK_PUNISH * SumFunction(m)
      BY <2>3, <2>4, <2>8, DrainsPay
    <2>11. DRAIN_BLOCK_PUNISH * SumFunction(n) \in Nat /\ DRAIN_BLOCK_PUNISH * SumFunction(m) \in Nat
      BY <2>7, <2>8, <2>9, NatProduct
    <2>12. SumFunction(rewards) + SumFunction(g) <= DRAIN_BLOCK_PUNISH * SumFunction(n)
      BY <2>6, <2>7, <2>9, <2>10, <2>11
    <2>13. QED
      BY <1>1, <2>2, <2>12 DEF RewardsFromDrains, n
  <1>10. QED
    BY <1>2, <1>5, <1>6, <1>7, <1>8, <1>9 DEF PunishIInv

-----------------------------------------------------------------------------
(* The calls of bppunish.cpp *)

LEMMA BailPunishStep ==
    ASSUME PunishIInv, NEW p \in Producer, BailPunish(p)
    PROVE  PunishIInv'
  <1>1. /\ monitors[p].exists /\ monitors[p].bp_status = "PUNISHED" /\ end_punish_block[p] < block
        /\ monitors' = [monitors EXCEPT ![p].bp_status = "NORMAL"]
        /\ end_punish_block' = [end_punish_block EXCEPT ![p] = 0]
        /\ UNCHANGED MonitorElse
        /\ UNCHANGED <<punishbps, approvedAt, lastproducers, deduction, rewards, punishedAt>>
    BY DEF BailPunish, Bail, MonitorElse, proposalVars, penaltyVars
  <1>2. block' = block
    BY <1>1 DEF MonitorElse
  <1>3. /\ IInv'
        /\ \A q \in Producer :
             /\ monitors'[q].bp_status = IF q = p THEN "NORMAL" ELSE monitors[q].bp_status
             /\ monitors'[q].total_drain_block = monitors[q].total_drain_block
    <2>1. "NORMAL" \in Statuses
      BY DEF Statuses
    <2>2. QED
      BY <1>1, <2>1, StatusStep
  <1>4. PunishRows'
    BY <1>1 DEF PunishIInv, PunishRows
  <1>5. NoProposalLeft' /\ ApprovalsRecent'
    BY <1>1, <1>2, <1>3 DEF PunishIInv, NoProposalLeft, ApprovalsRecent
  <1>6. Sentenced'
    <2>1. end_punish_block[p] = punishedAt[p] + PUNISH_BP_LIMIT
      BY <1>1 DEF PunishIInv, Sentenced
    <2>2. \A q \in Producer : q # p => end_punish_block'[q] = end_punish_block[q]
      BY <1>1 DEF PunishIInv, PunishRows
    <2>3. block > punishedAt[p] + PUNISH_BP_LIMIT
      BY <1>1, <2>1, PunishFacts
    <2>4. QED
      BY <1>1, <1>2, <1>3, <2>2, <2>3 DEF PunishIInv, Sentenced
  <1>7. RewardsFromDrains'
    BY <1>1, <1>3, SameDrains DEF PunishIInv, RewardsFromDrains
  <1>8. QED
    BY <1>3, <1>4, <1>5, <1>6, <1>7 DEF PunishIInv

LEMMA RemovePunishStep ==
    ASSUME PunishIInv, NEW p \in Producer, RemovePunish(p)
    PROVE  PunishIInv'
  <1>1. /\ monitors[p].exists /\ monitors[p].bp_status = "LACK_PLEDGE"
        /\ monitors' = [monitors EXCEPT ![p].bp_status = "NORMAL"]
        /\ UNCHANGED MonitorElse
        /\ UNCHANGED <<punishbps, approvedAt, lastproducers, deduction, rewards, punishedAt,
                       end_punish_block>>
    BY DEF RemovePunish, MonitorElse, punishVars, proposalVars, penaltyVars, sentenceVars
  <1>2. block' = block
    BY <1>1 DEF MonitorElse
  <1>3. /\ IInv'
        /\ \A q \in Producer :
             /\ monitors'[q].bp_status = IF q = p THEN "NORMAL" ELSE monitors[q].bp_status
             /\ monitors'[q].total_drain_block = monitors[q].total_drain_block
    <2>1. "NORMAL" \in Statuses
      BY DEF Statuses
    <2>2. QED
      BY <1>1, <2>1, StatusStep
  <1>4. PunishRows'
    BY <1>1 DEF PunishIInv, PunishRows
  <1>5. NoProposalLeft' /\ ApprovalsRecent' /\ Sentenced'
    BY <1>1, <1>2, <1>3 DEF PunishIInv, NoProposalLeft, ApprovalsRecent, Sentenced
  <1>6. RewardsFromDrains'
    BY <1>1, <1>3, SameDrains DEF PunishIInv, RewardsFromDrains
  <1>7. QED
    BY <1>3, <1>4, <1>5, <1>6 DEF PunishIInv

LEMMA PunishBpStep ==
    ASSUME PunishIInv, NEW p \in Producer, NEW proposaler \in Proposaler,
           PunishBp(p, proposaler)
    PROVE  PunishIInv'
  <1>1. /\ monitors[p].bp_status = "LACK_PLEDGE"
        /\ punishbps' = [punishbps EXCEPT ![p] = Proposed(p, proposaler)]
        /\ UNCHANGED vars
        /\ UNCHANGED <<approvedAt, lastproducers, deduction, rewards, punishedAt,
                       end_punish_block>>
    BY DEF PunishBp, penaltyVars, sentenceVars
  <1>2. block' = block /\ monitors' = monitors /\ IInv'
    BY <1>1, Stutter DEF vars, rewardVars, PunishIInv
  <1>3. block \in Nat /\ PUNISH_BP_LIMIT \in Nat /\ proposaler \in Producer
    BY PunishFacts, PunishAssumption
  <1>4. Proposed(p, proposaler) \in Proposal
    BY <1>3 DEF Proposed, Proposal
  <1>5. /\ punishbps \in [Producer -> Proposal]
        /\ \A q \in Producer : punishbps'[q] = IF q = p THEN Proposed(p, proposaler)
                                               ELSE punishbps[q]
    BY <1>1 DEF PunishIInv, PunishRows
  <1>6. PunishRows'
    BY <1>1, <1>4, <1>5 DEF PunishIInv, PunishRows
  <1>7. NoProposalLeft'
    BY <1>1, <1>2, <1>5 DEF PunishIInv, NoProposalLeft
  <1>8. ApprovalsRecent'
    <2>1. /\ Proposed(p, proposaler).effective_block_num = block + PUNISH_BP_LIMIT
          /\ Proposed(p, proposaler).approve_bp = {}
      BY DEF Proposed
    <2>2. QED
      BY <1>1, <1>2, <1>3, <1>5, <2>1 DEF PunishIInv, ApprovalsRecent
  <1>9. Sentenced' /\ RewardsFromDrains'
    BY <1>1, <1>2 DEF PunishIInv, Sentenced, RewardsFromDrains
  <1>10. QED
    BY <1>2, <1>6, <1>7, <1>8, <1>9 DEF PunishIInv

\* The approvals of a proposal in force are recent, the new one too.
LEMMA ApprovalCounts ==
    ASSUME PunishIInv, NEW p \in Producer, NEW approver \in Producer, InForce(p),
           approvedAt' = [approvedAt EXCEPT ![<<p, approver>>] = block]
    PROVE  /\ \A a \in punishbps[p].approve_bp \cup {approver} :
                /\ approvedAt'[<<p, a>>] + PUNISH_BP_LIMIT > block
                /\ approvedAt'[<<p, a>>] + PUNISH_BP_LIMIT >= punishbps[p].effective_block_num
           /\ \A q \in Producer \ {p}, a \in Producer : approvedAt'[<<q, a>>] = approvedAt[<<q, a>>]
  <1>1. /\ punishbps[p].exists /\ punishbps[p].effective_block_num > block
        /\ punishbps[p].effective_block_num <= block + PUNISH_BP_LIMIT
        /\ \A a \in punishbps[p].approve_bp :
             approvedAt[<<p, a>>] + PUNISH_BP_LIMIT >= punishbps[p].effective_block_num
    BY DEF InForce, PunishIInv, ApprovalsRecent
  <1>2. /\ block \in Nat /\ punishbps[p].effective_block_num \in Nat
        /\ punishbps[p].approve_bp \in SUBSET Producer
        /\ \A a \in Producer : approvedAt[<<p, a>>] \in Int
    BY PunishFacts
  <1>3. approvedAt \in Approvals /\ PUNISH_BP_LIMIT \in Nat
    BY PunishAssumption DEF PunishIInv, PunishRows
  <1>4. \A q \in Producer, a \in Producer :
           approvedAt'[<<q, a>>] = IF q = p /\ a = approver THEN block ELSE approvedAt[<<q, a>>]
    BY <1>3 DEF Approvals
  <1>5. QED
    BY <1>1, <1>2, <1>3, <1>4

LEMMA ApprovedAtType ==
    ASSUME PunishIInv, NEW p \in Producer, NEW approver \in Producer,
           approvedAt' = [approvedAt EXCEPT ![<<p, approver>>] = block]
    PROVE  approvedAt' \in Approvals
  <1>1. approvedAt \in Approvals /\ block \in Int
    BY PunishFacts DEF PunishIInv, PunishRows
  <1>2. QED
    BY <1>1 DEF Approvals

\* An approval that is not the last one needed.
LEMMA ApprovalStep ==
    ASSUME PunishIInv, NEW p \in Producer, NEW approver \in Producer, InForce(p),
           approvedAt' = [approvedAt EXCEPT ![<<p, approver>>] = block],
           punishbps' = [punishbps EXCEPT
                           ![p].approve_bp = punishbps[p].approve_bp \cup {approver}],
           UNCHANGED vars, UNCHANGED <<sentenceVars, penaltyVars, lastproducers>>
    PROVE  PunishIInv'
  <1>1. UNCHANGED <<lastproducers, deduction, rewards, punishedAt, end_punish_block>>
    BY DEF penaltyVars, sentenceVars
  <1>2. block' = block /\ monitors' = monitors /\ IInv'
    BY Stutter DEF vars, rewardVars, PunishIInv
  <1>3. punishbps \in [Producer -> Proposal] /\ punishbps[p] \in Proposal
    BY DEF PunishIInv, PunishRows
  <1>4. /\ punishbps' \in [Producer -> Proposal]
        /\ \A q \in Producer \ {p} : punishbps'[q] = punishbps[q]
        /\ punishbps'[p].approve_bp = punishbps[p].approve_bp \cup {approver}
        /\ punishbps'[p].exists = punishbps[p].exists
        /\ punishbps'[p].effective_block_num = punishbps[p].effective_block_num
    BY <1>3 DEF Proposal
  <1>5. PunishRows'
    BY <1>1, <1>4, ApprovedAtType DEF PunishIInv, PunishRows
  <1>6. NoProposalLeft'
    BY <1>2, <1>4 DEF PunishIInv, NoProposalLeft
  <1>7. ApprovalsRecent'
    <2>1. ASSUME NEW q \in Producer, punishbps'[q].exists
          PROVE  /\ punishbps'[q].effective_block_num <= block + PUNISH_BP_LIMIT
                 /\ \A a \in punishbps'[q].approve_bp :
                      approvedAt'[<<q, a>>] + PUNISH_BP_LIMIT >= punishbps'[q].effective_block_num
      <3>1. CASE q = p
        <4>1. punishbps[p].effective_block_num <= block + PUNISH_BP_LIMIT
          BY <1>4, <2>1, <3>1 DEF PunishIInv, ApprovalsRecent
        <4>2. QED
          BY <1>4, <3>1, <4>1, ApprovalCounts
      <3>2. CASE q # p
        <4>1. punishbps'[q] = punishbps[q]
          BY <1>4, <3>2
        <4>2. /\ punishbps[q].effective_block_num <= block + PUNISH_BP_LIMIT
              /\ \A a \in punishbps[q].approve_bp :
                   approvedAt[<<q, a>>] + PUNISH_BP_LIMIT >= punishbps[q].effective_block_num
          BY <2>1, <4>1 DEF PunishIInv, ApprovalsRecent
        <4>3. \A a \in Producer : approvedAt'[<<q, a>>] = approvedAt[<<q, a>>]
          BY <3>2, ApprovalCounts
        <4>4. punishbps[q].approve_bp \in SUBSET Producer
          BY PunishFacts
        <4>5. QED
          BY <4>1, <4>2, <4>3, <4>4
      <3>3. QED
        BY <3>1, <3>2
    <2>2. QED
      BY <1>2, <2>1 DEF ApprovalsRecent
  <1>8. Sentenced' /\ RewardsFromDrains'
    BY <1>1, <1>2 DEF PunishIInv, Sentenced, RewardsFromDrains
  <1>9. QED
    BY <1>2, <1>5, <1>6, <1>7, <1>8 DEF PunishIInv

\* What a penalty leaves of the deduction is what the pledge is short of.
LEMMA PenaltyFacts ==
    ASSUME PunishIInv, NEW p \in Producer, deduction[p] > 0,
           pledge[p].amount + deduction[p] > 0
    PROVE  Penalty(p) \in Nat /\ DeductionLeft(p) \in Nat
           /\ DeductionLeft(p) + Penalty(p) = deduction[p]
    BY PunishFacts DEF Penalty, DeductionLeft

LEMMA DealRewardStep ==
    ASSUME PunishIInv, NEW p \in Producer, NEW proposaler,
           NEW approvers \in SUBSET Producer, approvers # {},
           deduction[p] > 0, pledge[p].amount + deduction[p] > 0,
           DealReward(p, proposaler, approvers)
    PROVE  /\ deduction' \in [Producer -> Nat] /\ rewards' \in [Producer -> Nat]
           /\ SumFunction(rewards') + SumFunction(deduction')
                <= SumFunction(rewards) + SumFunction(deduction)
  <1> DEFINE half == Penalty(p) \div 2
             share == Penalty(p) \div (2 * Cardinality(approvers))
  <1>1. /\ deduction' = [deduction EXCEPT ![p] = DeductionLeft(p)]
        /\ rewards' = [a \in Producer |->
              rewards[a] + (IF a = proposaler THEN half ELSE 0)
                         + (IF a \in approvers THEN share ELSE 0)]
    BY DEF DealReward
  <1>2. /\ Penalty(p) \in Nat /\ DeductionLeft(p) \in Nat
        /\ DeductionLeft(p) + Penalty(p) = deduction[p]
    BY PenaltyFacts
  <1>3. \A a \in Producer : rewards[a] \in Nat /\ deduction[a] \in Nat
    BY PunishFacts
  <1>4. deduction \in [Producer -> Nat] /\ rewards \in [Producer -> Nat]
    BY DEF PunishIInv, PunishRows
  <1>5. /\ deduction' \in [Producer -> Nat]
        /\ deduction'[p] = DeductionLeft(p)
        /\ \A a \in Producer \ {p} : deduction'[a] = deduction[a]
    BY <1>1, <1>2, <1>4
  <1>6. half \in Nat /\ share \in Nat
    <2>1. IsFiniteSet(approvers)
      BY FiniteProducers, FS_Subset
    <2>2. Cardinality(approvers) \in Nat \ {0}
      BY <2>1, FS_CardinalityType, FS_EmptySet
    <2> DEFINE P == Penalty(p)
               d == 2 * Cardinality(approvers)
    <2>3. P \in Nat /\ d \in Nat \ {0}
      BY <1>2, <2>2
    <2> HIDE DEF P, d
    <2>4. P \div 2 \in Nat /\ P \div d \in Nat
      BY <2>3, DivFloor
    <2>5. QED
      BY <2>4 DEF P, d
  <1> HIDE DEF half, share
  <1>7. \A a \in Producer : rewards'[a] =
              rewards[a] + (IF a = proposaler THEN half ELSE 0)
                         + (IF a \in approvers THEN share ELSE 0)
    BY <1>1
  <1>8. rewards' \in [Producer -> Nat]
    <2>1. rewards' = [a \in Producer |-> rewards'[a]]
      BY <1>1
    <2>2. QED
      BY <1>3, <1>6, <1>7, <2>1
  <1>9. PICK f, g : f = rewards /\ g = rewards'
    OBVIOUS
  <1>10. SumFunction(g) <= SumFunction(f) + Penalty(p)
    <2>1. DOMAIN f = Producer /\ DOMAIN g = Producer
      BY <1>4, <1>8, <1>9
    <2>2. Deals(f, g, Penalty(p), proposaler, approvers)
      BY <1>3, <1>7, <1>9 DEF half, share, Deals
    <2>3. PICK P \in Nat : P = Penalty(p)
      BY <1>2
    <2>4. Deals(f, g, P, proposaler, approvers)
      BY <2>2, <2>3
    <2>5. SumFunction(g) <= SumFunction(f) + P
      BY <2>1, <2>4, DealtWithin
    <2>6. QED
      BY <2>3, <2>5
  <1>11. PICK h, k : h = deduction /\ k = deduction'
    OBVIOUS
  <1>12. SumFunction(k) = SumFunction(h) - h[p] + k[p]
    <2>1. DOMAIN h = Producer /\ DOMAIN k = Producer
      BY <1>4, <1>5, <1>11
    <2>2. \A a \in Producer : h[a] \in Int /\ k[a] \in Int
      BY <1>3, <1>5, <1>11
    <2>3. \A a \in Producer \ {p} : k[a] = h[a]
      BY <1>5, <1>11
    <2>4. QED
      BY <2>1, <2>2, <2>3, SumMoves
  <1>13. SumFunction(f) \in Nat /\ SumFunction(h) \in Nat
    BY <1>9, <1>11, PunishSums
  <1>14. SumFunction(g) \in Nat
    <2>1. DOMAIN g = Producer /\ \A a \in Producer : g[a] \in Nat
      BY <1>8, <1>9
    <2>2. QED
      BY <2>1, NatSum
  <1>15. h[p] = deduction[p] /\ k[p] = DeductionLeft(p) /\ deduction[p] \in Nat
    BY <1>3, <1>5, <1>11
  <1>16. SumFunction(g) + SumFunction(k) <= SumFunction(f) + SumFunction(h)
    BY <1>2, <1>10, <1>12, <1>13, <1>14, <1>15
  <1>17. QED
    BY <1>5, <1>8, <1>9, <1>11, <1>16

\* The last approval needed: the producer is punished and its proposal gone.
LEMMA ExecPunishStep ==
    ASSUME PunishIInv, NEW p \in Producer, NEW approver \in Producer, NEW proposaler,
           NEW approvers \in SUBSET Producer, approvers # {}, InForce(p),
           ExecPunish(p, proposaler, approvers),
           approvedAt' = [approvedAt EXCEPT ![<<p, approver>>] = block],
           punishbps' = [punishbps EXCEPT ![p] = NoProposal],
           UNCHANGED MonitorElse, UNCHANGED lastproducers
    PROVE  PunishIInv'
  <1>1. /\ monitors[p].exists /\ monitors[p].bp_status = "LACK_PLEDGE"
        /\ monitors' = [monitors EXCEPT ![p].bp_status = "PUNISHED"]
        /\ end_punish_block' = [end_punish_block EXCEPT ![p] = PunishedUntil]
        /\ IF pledge[p].exists /\ deduction[p] > 0 /\ pledge[p].amount + deduction[p] > 0
           THEN DealReward(p, proposaler, approvers)
           ELSE UNCHANGED penaltyVars
        /\ punishedAt' = [punishedAt EXCEPT ![p] = block]
    BY DEF ExecPunish
  <1>2. block' = block
    BY DEF MonitorElse
  <1>3. /\ IInv'
        /\ \A q \in Producer :
             /\ monitors'[q].bp_status = IF q = p THEN "PUNISHED" ELSE monitors[q].bp_status
             /\ monitors'[q].total_drain_block = monitors[q].total_drain_block
    <2>1. "PUNISHED" \in Statuses
      BY DEF Statuses
    <2>2. QED
      BY <1>1, <2>1, StatusStep
  <1>4. block \in Nat /\ PUNISH_BP_LIMIT \in Nat
    BY PunishFacts, PunishAssumption
  <1>5. PunishedUntil \in Nat /\ NoProposal \in Proposal
    BY <1>4 DEF PunishedUntil, NoProposal, Proposal
  <1>6. /\ punishbps \in [Producer -> Proposal] /\ end_punish_block \in [Producer -> Nat]
        /\ punishedAt \in [Producer -> Nat]
    BY DEF PunishIInv, PunishRows
  <1>7. /\ deduction' \in [Producer -> Nat] /\ rewards' \in [Producer -> Nat]
        /\ SumFunction(rewards') + SumFunction(deduction')
             <= SumFunction(rewards) + SumFunction(deduction)
    <2>1. CASE pledge[p].exists /\ deduction[p] > 0 /\ pledge[p].amount + deduction[p] > 0
      BY <1>1, <2>1, DealRewardStep
    <2>2. CASE ~(pledge[p].exists /\ deduction[p] > 0 /\ pledge[p].amount + deduction[p] > 0)
      <3>1. deduction' = deduction /\ rewards' = rewards
        BY <1>1, <2>2 DEF penaltyVars
      <3>2. SumFunction(rewards) \in Nat /\ SumFunction(deduction) \in Nat
        BY PunishSums
      <3>3. QED
        BY <3>1, <3>2 DEF PunishIInv, PunishRows
    <2>3. QED
      BY <2>1, <2>2
  <1>8. PunishRows'
    <2>1. /\ punishbps' \in [Producer -> Proposal] /\ end_punish_block' \in [Producer -> Nat]
          /\ punishedAt' \in [Producer -> Nat]
      BY <1>1, <1>4, <1>5, <1>6
    <2>2. QED
      BY <1>7, <2>1, ApprovedAtType DEF PunishIInv, PunishRows
  <1>9. \A q \in Producer : punishbps'[q] = IF q = p THEN NoProposal ELSE punishbps[q]
    BY <1>6
  <1>10. ~NoProposal.exists
    BY DEF NoProposal
  <1>11. NoProposalLeft'
    BY <1>3, <1>9, <1>10 DEF PunishIInv, NoProposalLeft
  <1>12. ApprovalsRecent'
    <2>1. ASSUME NEW q \in Producer, punishbps'[q].exists
          PROVE  /\ punishbps'[q].effective_block_num <= block + PUNISH_BP_LIMIT
                 /\ \A a \in punishbps'[q].approve_bp :
                      approvedAt'[<<q, a>>] + PUNISH_BP_LIMIT >= punishbps'[q].effective_block_num
      <3>1. q # p /\ punishbps'[q] = punishbps[q]
        BY <1>9, <1>10, <2>1
      <3>2. /\ punishbps[q].effective_block_num <= block + PUNISH_BP_LIMIT
            /\ \A a \in punishbps[q].approve_bp :
                 approvedAt[<<q, a>>] + PUNISH_BP_LIMIT >= punishbps[q].effective_block_num
        BY <2>1, <3>1 DEF PunishIInv, ApprovalsRecent
      <3>3. \A a \in Producer : approvedAt'[<<q, a>>] = approvedAt[<<q, a>>]
        BY <3>1, ApprovalCounts
      <3>4. punishbps[q].approve_bp \in SUBSET Producer
        BY PunishFacts
      <3>5. QED
        BY <3>1, <3>2, <3>3, <3>4
    <2>2. QED
      BY <1>2, <2>1 DEF ApprovalsRecent
  <1>13. Sentenced'
    <2>1. \A q \in Producer : /\ punishedAt'[q] = IF q = p THEN block ELSE punishedAt[q]
                              /\ end_punish_block'[q] = IF q = p THEN block + PUNISH_BP_LIMIT
                                                        ELSE end_punish_block[q]
      BY <1>1, <1>6 DEF PunishedUntil
    <2>2. QED
      BY <1>2, <1>3, <2>1 DEF PunishIInv, Sentenced
  <1>14. RewardsFromDrains'
    <2>1. SumFunction(rewards) + SumFunction(deduction)
            <= DRAIN_BLOCK_PUNISH * SumFunction([q \in Producer |-> monitors[q].total_drain_block])
      BY DEF PunishIInv, RewardsFromDrains
    <2>2. [q \in Producer |-> monitors'[q].total_drain_block]
             = [q \in Producer |-> monitors[q].total_drain_block]
      BY <1>3, SameDrains
    <2>3. DRAIN_BLOCK_PUNISH * SumFunction([q \in Producer |-> monitors[q].total_drain_block]) \in Nat
      BY PunishSums, NatProduct, AmountAssumption
    <2>4. PICK f, g : f = rewards' /\ g = deduction'
      OBVIOUS
    <2>5. SumFunction(f) \in Nat /\ SumFunction(g) \in Nat
      <3>1. /\ DOMAIN f = Producer /\ \A q \in Producer : f[q] \in Nat
            /\ DOMAIN g = Producer /\ \A q \in Producer : g[q] \in Nat
        BY <1>7, <2>4
      <3>2. QED
        BY <3>1, NatSum
    <2>6. SumFunction(rewards') + SumFunction(deduction')
            <= DRAIN_BLOCK_PUNISH * SumFunction([q \in Producer |-> monitors[q].total_drain_block])
      BY <1>7, <2>1, <2>3, <2>4, <2>5, PunishSums
    <2>7. QED
      BY <2>2, <2>6 DEF RewardsFromDrains
  <1>15. QED
    BY <1>3, <1>8, <1>11, <1>12, <1>13, <1>14 DEF PunishIInv

\* The approvals that count are producers, and some when they are enough.
LEMMA Counted ==
    ASSUME PunishIInv, NEW p \in Producer, NEW approver \in Producer
    PROVE  LET counted == Supers(punishbps[p].approve_bp \cup {approver})
           IN  /\ counted \in SUBSET Producer /\ counted \subseteq schedule
               /\ counted \subseteq punishbps[p].approve_bp \cup {approver}
               /\ Cardinality(counted) >= APPROVE_TO_PUNISH_NUM => counted # {}
  <1>1. punishbps[p].approve_bp \in SUBSET Producer
    BY PunishFacts
  <1>2. APPROVE_TO_PUNISH_NUM \in Nat \ {0} /\ Cardinality({}) = 0
    BY PunishAssumption, FS_EmptySet
  <1>3. QED
    BY <1>1, <1>2 DEF Supers, SuperBp

LEMMA ApproveBpStep ==
    ASSUME PunishIInv, NEW p \in Producer, NEW approver \in Producer, ApproveBp(p, approver)
    PROVE  PunishIInv'
  <1> DEFINE approvals == punishbps[p].approve_bp \cup {approver}
             counted == Supers(approvals)
  <1>1. /\ InForce(p)
        /\ approvedAt' = [approvedAt EXCEPT ![<<p, approver>>] = block]
        /\ UNCHANGED MonitorElse /\ UNCHANGED lastproducers
    BY DEF ApproveBp, MonitorElse
  <1>2. CASE Cardinality(counted) >= APPROVE_TO_PUNISH_NUM
    <2>1. /\ ExecPunish(p, punishbps[p].proposaler, counted)
          /\ punishbps' = [punishbps EXCEPT ![p] = NoProposal]
      BY <1>2 DEF ApproveBp, AfterExec
    <2>2. counted \in SUBSET Producer /\ counted # {}
      BY <1>2, Counted
    <2> HIDE DEF counted
    <2>3. QED
      BY <1>1, <2>1, <2>2, ExecPunishStep
  <1>3. CASE ~(Cardinality(counted) >= APPROVE_TO_PUNISH_NUM)
    <2>1. /\ punishbps' = [punishbps EXCEPT ![p].approve_bp = approvals]
          /\ UNCHANGED <<monitors, sentenceVars, penaltyVars>>
      BY <1>3 DEF ApproveBp
    <2>2. UNCHANGED vars
      BY <1>1, <2>1 DEF MonitorElse, vars, chainVars, rewardVars
    <2>3. QED
      BY <1>1, <2>1, <2>2, ApprovalStep
  <1>4. QED
    BY <1>2, <1>3

-----------------------------------------------------------------------------
(* The steps of the monitor alone *)

LEMMA MonitorStep ==
    ASSUME PunishIInv, UNCHANGED punishVars,
           \/ \E p \in Producer : MissSlot(p) \/ BpClaim(p)
           \/ \E b \in Beating : now = b[2] /\ Heartbeat(b[1])
           \/ \E S \in Elected : Promote(S)
           \/ \E d \in Pledged : BringPledge(d[1], d[2])
           \/ \E c \in Configs : UpdateConfig(c)
    PROVE  PunishIInv'
  <1>1. IInv
    BY DEF PunishIInv
  <1>2. ASSUME NEW p \in Producer, MissSlot(p)
        PROVE  PunishIInv'
    <2>1. IInv' /\ block' = block /\ monitors' = monitors
      BY <1>1, <1>2, MissSlotStep DEF MissSlot, rewardVars
    <2>2. QED
      BY <2>1, QuietStep DEF SameRecord
  <1>3. ASSUME NEW p \in Producer, ClaimBlockReward(p)
        PROVE  PunishIInv'
    <2>1. /\ IInv' /\ block' = block
          /\ monitors' = [monitors EXCEPT ![p].bock_age = 0]
      BY <1>1, <1>3, ClaimBlockRewardStep DEF ClaimBlockReward
    <2>2. monitors \in [Producer -> Monitors]
      BY <1>1 DEF IInv, TypeOK
    <2>3. \A q \in Producer : SameRecord(q)
      BY <2>1, <2>2 DEF SameRecord, Monitors
    <2>4. QED
      BY <2>1, <2>3, QuietStep
  <1>4. ASSUME NEW p \in Producer, ClaimVoteReward(p)
        PROVE  PunishIInv'
    <2>1. IInv' /\ block' = block /\ monitors' = monitors
      BY <1>1, <1>4, ClaimVoteRewardStep DEF ClaimVoteReward, rewardVars
    <2>2. QED
      BY <2>1, QuietStep DEF SameRecord
  <1>5. ASSUME NEW S \in Elected, Promote(S)
        PROVE  PunishIInv'
    <2>1. IInv' /\ block' = block /\ monitors' = monitors
      BY <1>1, <1>5, PromoteStep DEF Promote, rewardVars
    <2>2. QED
      BY <2>1, QuietStep DEF SameRecord
  <1>6. ASSUME NEW d \in Pledged, BringPledge(d[1], d[2])
        PROVE  PunishIInv'
    <2>1. d[1] \in Producer /\ d[2] \in Int
      BY AmountAssumption
    <2>2. IInv' /\ block' = block /\ monitors' = monitors
      BY <1>1, <1>6, <2>1, BringPledgeStep DEF BringPledge, rewardVars
    <2>3. QED
      BY <2>2, QuietStep DEF SameRecord
  <1>7. ASSUME NEW c \in Configs, UpdateConfig(c)
        PROVE  PunishIInv'
    <2>1. IInv' /\ block' = block /\ monitors' = monitors
      BY <1>1, <1>7, UpdateConfigStep DEF UpdateConfig, rewardVars
    <2>2. QED
      BY <2>1, QuietStep DEF SameRecord
  <1>8. ASSUME NEW b \in Beating, Heartbeat(b[1])
        PROVE  PunishIInv'
    <2>1. b[1] \in Producer
      BY HeartbeatAssumption
    <2>2. IInv' /\ block' = block /\ monitors' = monitors
      BY <1>1, <1>8, <2>1, HeartbeatStep DEF Heartbeat, rewardVars
    <2>3. QED
      BY <2>2, QuietStep DEF SameRecord
  <1>9. QED
    BY <1>2, <1>3, <1>4, <1>5, <1>6, <1>7, <1>8 DEF BpClaim

LEMMA PunishInitial ==
    ASSUME PunishInit
    PROVE  PunishIInv
  <1>1. IInv
    BY Initial DEF PunishInit
  <1>2. NoProposal \in Proposal /\ ~NoProposal.exists
    BY DEF NoProposal, Proposal
  <1>3. PunishRows
    <2>1. Never \in Int /\ MAX_LAST_PRODUCER_SIZE \in Nat
      BY PunishAssumption DEF Never
    <2>2. <<>> \in Seq(Producer) /\ Len(<<>>) = 0
      OBVIOUS
    <2>3. QED
      BY <1>2, <2>1, <2>2 DEF PunishInit, PunishRows, Approvals
  <1>4. \A p \in Producer : monitors[p].bp_status = "NORMAL" /\ monitors[p].total_drain_block = 0
    BY DEF PunishInit, Init, NewMonitor
  <1>5. NoProposalLeft /\ ApprovalsRecent /\ Sentenced
    BY <1>2, <1>4 DEF PunishInit, NoProposalLeft, ApprovalsRecent, Sentenced
  <1>6. RewardsFromDrains
    <2> DEFINE t == [p \in Producer |-> monitors[p].total_drain_block]
    <2>1. DOMAIN t = Producer /\ \A p \in Producer : t[p] = 0
      BY <1>4
    <2>2. /\ DOMAIN rewards = Producer /\ DOMAIN deduction = Producer
          /\ \A p \in Producer : rewards[p] = 0 /\ deduction[p] = 0
      BY DEF PunishInit
    <2> HIDE DEF t
    <2>3. SumFunction(t) = 0 /\ SumFunction(rewards) = 0 /\ SumFunction(deduction) = 0
      BY <2>1, <2>2, ZeroSum
    <2>4. DRAIN_BLOCK_PUNISH * 0 = 0
      BY AmountAssumption
    <2>5. QED
      BY <2>3, <2>4 DEF RewardsFromDrains, t
  <1>7. QED
    BY <1>1, <1>3, <1>5, <1>6 DEF PunishIInv

LEMMA PunishStutter ==
    ASSUME PunishIInv, UNCHANGED systemVars
    PROVE  PunishIInv'
  <1>1. UNCHANGED vars /\ UNCHANGED punishVars
    BY DEF systemVars
  <1>2. IInv' /\ block' = block /\ monitors' = monitors
    BY <1>1, Stutter DEF PunishIInv, vars, rewardVars
  <1>3. QED
    BY <1>1, <1>2, QuietStep DEF SameRecord

-----------------------------------------------------------------------------
(* The theorems *)

\* The inductive invariant of the monitor and the punishment together, for
\* any producers, proposals, approvals and missed blocks.
THEOREM PunishInvariance == PunishSpec => []PunishIInv
  <1>1. PunishInit => PunishIInv
    BY PunishInitial
  <1>2. PunishIInv /\ [PunishNext]_systemVars => PunishIInv'
    <2> SUFFICES ASSUME PunishIInv, [PunishNext]_systemVars PROVE PunishIInv'
      OBVIOUS
    <2>1. ASSUME NEW p \in Producer, OnBlockRemembers(p) PROVE PunishIInv'
      BY <2>1, OnBlockRemembersStep
    <2>2. ASSUME NEW p \in Producer, BailPunish(p) PROVE PunishIInv'
      BY <2>2, BailPunishStep
    <2>3. ASSUME NEW p \in Producer, RemovePunish(p) PROVE PunishIInv'
      BY <2>3, RemovePunishStep
    <2>4. ASSUME NEW p \in Producer, NEW proposaler \in Proposaler, PunishBp(p, proposaler)
          PROVE  PunishIInv'
      BY <2>4, PunishBpStep
    <2>5. ASSUME NEW p \in Producer, NEW approver \in Producer, ApproveBp(p, approver)
          PROVE  PunishIInv'
      BY <2>5, ApproveBpStep
    <2>6. QED
      BY <2>1, <2>2, <2>3, <2>4, <2>5, MonitorStep, PunishStutter DEF PunishNext
  <1>3. QED
    BY <1>1, <1>2, PTL DEF PunishSpec

\* Every table of the monitor and of the punishment keeps its type, and no
\* punished producer has a proposal left to be approved again.
THEOREM PunishTypeCorrect == PunishSpec => []PunishTypeOK
  <1>1. PunishIInv => PunishTypeOK
    BY DEF PunishIInv, IInv, PunishRows, PunishTypeOK, Proposal, Approvals
  <1>2. QED
    BY <1>1, PunishInvariance, PTL

\* What punishments pay out never exceeds what the recorded missed blocks
\* were charged, however penalties are split and rounded.
THEOREM RewardsAlwaysFromDrains == PunishSpec => []RewardsFromDrains
  <1>1. PunishIInv => RewardsFromDrains
    BY DEF PunishIInv
  <1>2. QED
    BY <1>1, PunishInvariance, PTL

-----------------------------------------------------------------------------
(* The action properties *)

\* Only an approval punishes a producer.
LEMMA OnlyApprovalPunishes ==
    ASSUME PunishIInv, [PunishNext]_systemVars, NEW p \in Producer, Becomes(p, "PUNISHED")
    PROVE  \E approver \in Producer :
             /\ ApproveBp(p, approver)
             /\ Cardinality(Supers(punishbps[p].approve_bp \cup {approver}))
                  >= APPROVE_TO_PUNISH_NUM
  <1>1. monitors[p].bp_status # "PUNISHED" /\ monitors'[p].bp_status = "PUNISHED"
    BY DEF Becomes
  <1>2. monitors \in [Producer -> Monitors]
    BY DEF PunishIInv, IInv, TypeOK
  <1>3. ASSUME NEW q \in Producer, OnBlockRemembers(q) PROVE FALSE
    BY <1>1, <1>3, DrainRow DEF OnBlockRemembers
  <1>4. ASSUME NEW q \in Producer, BailPunish(q) \/ RemovePunish(q) PROVE FALSE
    <2>1. monitors' = [monitors EXCEPT ![q].bp_status = "NORMAL"]
      BY <1>4 DEF BailPunish, RemovePunish
    <2>2. QED
      BY <1>1, <1>2, <2>1 DEF Monitors
  <1>5. ASSUME NEW q \in Producer, NEW proposaler \in Proposaler, PunishBp(q, proposaler)
        PROVE  FALSE
    BY <1>1, <1>5 DEF PunishBp, vars, rewardVars
  <1>6. ASSUME NEW q \in Producer, ClaimBlockReward(q) PROVE FALSE
    <2>1. monitors' = [monitors EXCEPT ![q].bock_age = 0]
      BY <1>6 DEF ClaimBlockReward
    <2>2. QED
      BY <1>1, <1>2, <2>1 DEF Monitors
  <1>7. CASE UNCHANGED monitors
    BY <1>1, <1>7
  <1>8. ASSUME NEW q \in Producer, MissSlot(q) \/ ClaimVoteReward(q) PROVE FALSE
    BY <1>1, <1>8 DEF MissSlot, ClaimVoteReward, rewardVars
  <1>9. ASSUME NEW S \in Elected, Promote(S) PROVE FALSE
    BY <1>1, <1>9 DEF Promote, rewardVars
  <1>10. ASSUME NEW d \in Pledged, BringPledge(d[1], d[2]) PROVE FALSE
    BY <1>1, <1>10 DEF BringPledge, rewardVars
  <1>11. ASSUME NEW c \in Configs, UpdateConfig(c) PROVE FALSE
    BY <1>1, <1>11 DEF UpdateConfig, rewardVars
  <1>12. CASE UNCHANGED systemVars
    BY <1>1, <1>12 DEF systemVars, vars, rewardVars
  <1>13. ASSUME NEW q \in Producer, NEW approver \in Producer, ApproveBp(q, approver)
         PROVE  /\ q = p
                /\ Cardinality(Supers(punishbps[q].approve_bp \cup {approver}))
                     >= APPROVE_TO_PUNISH_NUM
    <2>1. \/ UNCHANGED monitors
          \/ /\ monitors' = [monitors EXCEPT ![q].bp_status = "PUNISHED"]
             /\ Cardinality(Supers(punishbps[q].approve_bp \cup {approver}))
                  >= APPROVE_TO_PUNISH_NUM
      BY <1>13 DEF ApproveBp, ExecPunish
    <2>2. QED
      BY <1>1, <1>2, <2>1 DEF Monitors
  <1>14. ASSUME NEW b \in Beating, Heartbeat(b[1]) PROVE FALSE
    BY <1>1, <1>14 DEF Heartbeat, rewardVars
  <1>15. QED
    BY <1>3, <1>4, <1>5, <1>6, <1>8, <1>9, <1>10, <1>11, <1>12, <1>13, <1>14
       DEF PunishNext, BpClaim

RecentQuorum(p) ==
    Becomes(p, "PUNISHED") =>
      APPROVE_TO_PUNISH_NUM <=
        Cardinality({a \in schedule : approvedAt'[<<p, a>>] + PUNISH_BP_LIMIT > block})

LEMMA QuorumStep ==
    PunishIInv /\ [PunishNext]_systemVars => \A p \in Producer : RecentQuorum(p)
  <1> SUFFICES ASSUME PunishIInv, [PunishNext]_systemVars, NEW p \in Producer,
                      Becomes(p, "PUNISHED")
               PROVE  APPROVE_TO_PUNISH_NUM <= Cardinality(
                        {a \in schedule : approvedAt'[<<p, a>>] + PUNISH_BP_LIMIT > block})
    BY DEF RecentQuorum
  <1> DEFINE recent == {a \in schedule : approvedAt'[<<p, a>>] + PUNISH_BP_LIMIT > block}
  <1>1. PICK approver \in Producer :
             /\ ApproveBp(p, approver)
             /\ Cardinality(Supers(punishbps[p].approve_bp \cup {approver}))
                  >= APPROVE_TO_PUNISH_NUM
    BY OnlyApprovalPunishes
  <1> DEFINE counted == Supers(punishbps[p].approve_bp \cup {approver})
  <1>2. InForce(p) /\ approvedAt' = [approvedAt EXCEPT ![<<p, approver>>] = block]
    BY <1>1 DEF ApproveBp
  <1>3. \A a \in punishbps[p].approve_bp \cup {approver} :
           approvedAt'[<<p, a>>] + PUNISH_BP_LIMIT > block
    BY <1>2, ApprovalCounts
  <1>4. counted \subseteq schedule /\ counted \subseteq punishbps[p].approve_bp \cup {approver}
    BY Counted
  <1>5. counted \in SUBSET recent
    <2> HIDE DEF counted
    <2>1. QED
      BY <1>3, <1>4
  <1>6. IsFiniteSet(recent)
    <2>1. schedule \subseteq Producer
      BY ChainFacts DEF PunishIInv
    <2>2. QED
      BY <2>1, FiniteProducers, FS_Subset
  <1> HIDE DEF counted, recent
  <1>7. Cardinality(counted) <= Cardinality(recent)
    BY <1>5, <1>6, FS_Subset
  <1>8. Cardinality(counted) \in Nat /\ Cardinality(recent) \in Nat
    BY <1>5, <1>6, FS_Subset, FS_CardinalityType
  <1>9. Cardinality(counted) >= APPROVE_TO_PUNISH_NUM
    BY <1>1 DEF counted
  <1>10. APPROVE_TO_PUNISH_NUM <= Cardinality(recent)
    BY <1>7, <1>8, <1>9, PunishAssumption
  <1>11. QED
    BY <1>10 DEF recent

\* Nobody is punished without enough approvals of producers of the last
\* schedule, all of them given while the proposal was in force.
THEOREM AlwaysByRecentQuorum == PunishSpec => PunishedByRecentQuorum
  <1>1. PunishIInv /\ [PunishNext]_systemVars =>
          \A p \in Producer : Becomes(p, "PUNISHED") =>
            APPROVE_TO_PUNISH_NUM <=
              Cardinality({a \in schedule : approvedAt'[<<p, a>>] + PUNISH_BP_LIMIT > block})
    BY QuorumStep DEF RecentQuorum
  <1>2. QED
    BY <1>1, PunishInvariance, PTL DEF PunishSpec, PunishedByRecentQuorum

\* Only a block adds to the reward for votes, and not to a punished producer's.
LEMMA EarnStep ==
    ASSUME PunishIInv, [PunishNext]_systemVars, NEW p \in Producer, bpsreward'[p] > bpsreward[p]
    PROVE  punishedAt[p] = 0 \/ block' > punishedAt[p] + PUNISH_BP_LIMIT
  <1>1. bpsreward \in [Producer -> Nat]
    BY DEF PunishIInv, IInv, TypeOK
  <1>2. ASSUME NEW q \in Producer, OnBlockRemembers(q)
        PROVE  punishedAt[p] = 0 \/ block' > punishedAt[p] + PUNISH_BP_LIMIT
    <2>1. OnBlock(q) /\ block' = block + 1
      BY <1>2 DEF OnBlockRemembers, OnBlock
    <2>2. monitors'[p].bp_status = "PUNISHED" => bpsreward'[p] = bpsreward[p]
      BY <2>1 DEF OnBlock, RewardBps
    <2>3. monitors'[p].bp_status # "PUNISHED"
      BY <1>1, <2>2
    <2>4. monitors[p].bp_status # "PUNISHED"
      BY <2>1, <2>3, DrainRow
    <2>5. punishedAt[p] = 0 \/ block > punishedAt[p] + PUNISH_BP_LIMIT
      BY <2>4 DEF PunishIInv, Sentenced
    <2>6. block \in Nat /\ punishedAt[p] \in Nat /\ PUNISH_BP_LIMIT \in Nat
      BY PunishFacts, PunishAssumption
    <2>7. QED
      BY <2>1, <2>5, <2>6
  <1>3. ASSUME NEW q \in Producer, ClaimBlockReward(q) \/ ClaimVoteReward(q) PROVE FALSE
    <2>1. bpsreward' = [bpsreward EXCEPT ![q] = 0]
      BY <1>3 DEF ClaimBlockReward, ClaimVoteReward
    <2>2. QED
      BY <1>1, <2>1
  <1>4. CASE UNCHANGED bpsreward
    BY <1>1, <1>4
  <1>5. ASSUME NEW q \in Producer, BailPunish(q) \/ RemovePunish(q) PROVE UNCHANGED bpsreward
    BY <1>5 DEF BailPunish, RemovePunish
  <1>6. ASSUME NEW q \in Producer, NEW proposaler \in Proposaler, PunishBp(q, proposaler)
        PROVE  UNCHANGED bpsreward
    BY <1>6 DEF PunishBp, vars
  <1>7. ASSUME NEW q \in Producer, NEW approver \in Producer, ApproveBp(q, approver)
        PROVE  UNCHANGED bpsreward
    BY <1>7 DEF ApproveBp
  <1>8. ASSUME NEW q \in Producer, MissSlot(q) PROVE UNCHANGED bpsreward
    BY <1>8 DEF MissSlot
  <1>9. ASSUME NEW S \in Elected, Promote(S) PROVE UNCHANGED bpsreward
    BY <1>9 DEF Promote
  <1>10. ASSUME NEW d \in Pledged, BringPledge(d[1], d[2]) PROVE UNCHANGED bpsreward
    BY <1>10 DEF BringPledge
  <1>11. ASSUME NEW c \in Configs, UpdateConfig(c) PROVE UNCHANGED bpsreward
    BY <1>11 DEF UpdateConfig
  <1>12. UNCHANGED systemVars => UNCHANGED bpsreward
    BY DEF systemVars, vars
  <1>13. ASSUME NEW b \in Beating, Heartbeat(b[1]) PROVE UNCHANGED bpsreward
    BY <1>13 DEF Heartbeat
  <1>14. QED
    BY <1>2, <1>3, <1>4, <1>5, <1>6, <1>7, <1>8, <1>9, <1>10, <1>11, <1>12, <1>13
       DEF PunishNext, BpClaim

\* A punished producer gets no reward for its votes for as long as it was
\* punished for, whatever calls, heartbeats and schedules come in between.
THEOREM PunishedNeverGetVoteReward == PunishSpec => PunishedGetNoVoteReward
  <1>1. PunishIInv /\ [PunishNext]_systemVars =>
          \A p \in Producer : bpsreward'[p] > bpsreward[p] =>
            punishedAt[p] = 0 \/ block' > punishedAt[p] + PUNISH_BP_LIMIT
    BY EarnStep
  <1>2. QED
    BY <1>1, PunishInvariance, PTL DEF PunishSpec, PunishedGetNoVoteReward
=============================================================================
