-------------------------------- MODULE Vote --------------------------------
(***************************************************************************)
(* The core token and the votes of the system contract: accounts, the      *)
(* votes, votes4ram, vote4ramsum and fixvotes tables, the stake and the    *)
(* voteage each producer accumulates, and the cached total gvotestat.      *)
(*                                                                         *)
(* Every action of the contract runs in one transaction of one block, so   *)
(* one TLA+ action is one whole call and block is the number it reads.     *)
(* A row is never deleted from votes, votes4ram or bps, and an absent row  *)
(* of them behaves as a row of zeros in every check of the code, so these  *)
(* tables are total functions that start at zero.                          *)
(***************************************************************************)
EXTENDS Integers, FiniteSets, FiniteSetsExt, Functions

CONSTANTS
    Voter,          \* accounts of the core token that vote
    BP,             \* registered producers
    NoBP,           \* the bpname of an absent fix-time vote
    PRECISION,      \* CORE_SYMBOL_PRECISION
    FROZEN_DELAY,   \* blocks an unstaked amount waits
    FixType,        \* the fvote_typ names
    FixBlocks,      \* freeze_block_num of a type
    FixPower,       \* vote power of a type
    MaxKey,         \* largest primary key of fixvotes
    Genesis,        \* available balance every account starts with
    Quantities,     \* amounts offered to transfer
    Stakes,         \* amounts offered to vote and revote
    RamStakes,      \* amounts offered to vote4ram
    FixStakes,      \* amounts offered to votefix
    PoolRewards,    \* what one block may add to a rewards_pool
    FreezeTables,   \* the account lists a freeze table may be activated with
    Removable,      \* producers removebp may be called for
    VoteStatExists, \* whether gvotestat has its row in the initial state
    MaxBlock        \* bound: last block number explored

Key == 0..MaxKey

ASSUME NoBPAssumption == NoBP \notin BP
ASSUME FiniteAssumption == IsFiniteSet(Voter) /\ IsFiniteSet(BP)
ASSUME NumberAssumption ==
    /\ PRECISION \in Nat \ {0}
    /\ FROZEN_DELAY \in Nat /\ MaxKey \in Nat /\ MaxBlock \in Nat
    /\ Genesis \in Nat
ASSUME FixAssumption ==
    /\ FixBlocks \in [FixType -> Nat]
    /\ FixPower \in [FixType -> Nat \ {0}]
ASSUME AmountAssumption ==
    /\ Quantities \subseteq Int /\ Stakes \subseteq Int
    /\ RamStakes \subseteq Int /\ FixStakes \subseteq Int
    /\ PoolRewards \subseteq Nat /\ 0 \in PoolRewards
ASSUME ChoiceAssumption ==
    FreezeTables \subseteq SUBSET Voter /\ Removable \subseteq BP
ASSUME VoteStatAssumption == VoteStatExists \in BOOLEAN

VARIABLES
    block,        \* current_block_num()
    available,    \* accounts: balance of each account
    votes,        \* votes and votes4ram, indexed by table, voter and bpname
    vote4ramsum,  \* rows of vote4ramsum
    fixvotes,     \* fixvotes, indexed by voter and key
    bps,          \* the fields of bps the votes change
    gvotestat,    \* total_staked of the gvotestat row, NoStat without a row
    blackpro,     \* producers the blacklist holds with isactive = false
    gfstate,      \* whether eosio.freeze has an activated table
    freezed       \* accounts in that table

chainVars == <<block, blackpro, gfstate, freezed>>
voteVars == <<votes, vote4ramsum, fixvotes>>
vars == <<chainVars, voteVars, available, bps, gvotestat>>

Tables == {"votes", "votes4ram"}
NoStat == -1

-----------------------------------------------------------------------------
(* assetage: an amount, the age it has gathered, and since which block *)

\* assetage::get_age
GetAge(a, n) == (a.staked \div PRECISION) * (n - a.update_height) + a.age

\* assetage::change_staked_to, add_staked_by and minus_staked_by
ChangeStakedTo(a, n, amount) ==
    [a EXCEPT !.age = GetAge(a, n), !.update_height = n, !.staked = amount]

CleanAgeKeepsHeight(a, n) == [a EXCEPT !.age = 0]
\* assetage::clean_age
CleanAge(a, n) == [a EXCEPT !.age = 0, !.update_height = n]

ZeroVote == [staked |-> 0, age |-> 0, update_height |-> 0,
             unstaking |-> 0, unstake_height |-> 0]

AddUnstakingKeepsHeight(row, n, amount) == [row EXCEPT !.unstaking = @ + amount]
\* v.unstaking += amount; v.unstake_height = n
AddUnstaking(row, n, amount) ==
    [row EXCEPT !.unstaking = @ + amount, !.unstake_height = n]

-----------------------------------------------------------------------------
(* fix_time_vote_info: staked is the stake times the power of its type *)

NoFix == [bpname |-> NoBP, staked |-> 0, age |-> 0, update_height |-> 0,
          vote |-> 0, withdraw |-> 0, is_withdraw |-> TRUE]

\* A fix-time vote gathers no age after its withdraw_block_num.
CalcBlock(f, n) == IF n > f.withdraw THEN f.withdraw ELSE n

FixGetAge(f, n) == GetAge(f, CalcBlock(f, n))
FixCleanAgeUncapped(f, n) == CleanAge(f, n)
FixCleanAge(f, n) == CleanAge(f, CalcBlock(f, n))

Exists(f) == f.bpname # NoBP

\* The age, and the stake in units of the token, that f counts for on bpname.
FixAgeOn(f, bpname, n) == IF f.bpname = bpname THEN FixGetAge(f, n) ELSE 0
FixStakeOn(f, bpname) ==
    IF f.bpname = bpname /\ ~f.is_withdraw THEN f.staked \div PRECISION ELSE 0

AvailableKeyTaken(voter) ==
    LET used == {k \in Key : Exists(fixvotes[<<voter, k>>])}
    IN  IF used = {} THEN 0 ELSE Max(used)
\* fix_time_votes_tbl.available_primary_key()
AvailableKey(voter) ==
    LET used == {k \in Key : Exists(fixvotes[<<voter, k>>])}
    IN  IF used = {} THEN 0 ELSE Max(used) + 1

-----------------------------------------------------------------------------
(* bp_info and the global total *)

ZeroBP == [total_staked |-> 0, total_voteage |-> 0,
           voteage_update_height |-> 0, rewards_pool |-> 0]

\* bp_info::get_age
BPGetAge(b, n) ==
    b.total_staked * (n - b.voteage_update_height) + b.total_voteage

AddTotalStakedLosesAge(b, n, amount) ==
    [b EXCEPT !.voteage_update_height = n,
              !.total_staked = @ + (amount \div PRECISION)]
AddTotalStakedRaises(b, n, amount) ==
    [b EXCEPT !.total_voteage = BPGetAge(b, n),
              !.voteage_update_height = n,
              !.total_staked =
                 IF amount > 0 THEN @ + (amount \div PRECISION) ELSE @]
\* bp_info::add_total_staked; amount is a multiple of PRECISION
AddTotalStaked(b, n, amount) ==
    [b EXCEPT !.total_voteage = BPGetAge(b, n),
              !.voteage_update_height = n,
              !.total_staked = @ + (amount \div PRECISION)]

SumStaked(table) == SumFunction([b \in BP |-> table[b].total_staked])

\* get_global_votestate: the row is created from the bps table
GetGlobalVotestate(table) ==
    IF gvotestat = NoStat THEN SumStaked(table) ELSE gvotestat

OnChangeTotalStakedCountsRows(table, change) == SumStaked(bps)
\* on_change_total_staked, called after bps has been modified to table
OnChangeTotalStaked(table, change) ==
    GetGlobalVotestate(table) + (change \div PRECISION)

IsFreezedBeforeActivation(account) == ~gfstate /\ account \in freezed
\* is_account_freezed; the table's unfreeze_block_num is always 0, for ever
IsFreezed(account) == gfstate /\ account \in freezed

-----------------------------------------------------------------------------
TypeOK ==
    /\ block \in Nat
    /\ available \in [Voter -> Nat]
    /\ votes \in [Tables \X Voter \X BP ->
                    [staked : Nat, age : Nat, update_height : Nat,
                     unstaking : Nat, unstake_height : Nat]]
    /\ DOMAIN vote4ramsum \subseteq Voter
    /\ \A v \in DOMAIN vote4ramsum : vote4ramsum[v] \in Nat
    /\ fixvotes \in [Voter \X Key ->
                       [bpname : BP \cup {NoBP}, staked : Nat, age : Nat,
                        update_height : Nat, vote : Nat, withdraw : Nat,
                        is_withdraw : BOOLEAN]]
    /\ bps \in [BP -> [total_staked : Nat, total_voteage : Nat,
                       voteage_update_height : Nat, rewards_pool : Nat]]
    /\ gvotestat \in Int
    /\ blackpro \subseteq BP
    /\ gfstate \in BOOLEAN
    /\ freezed \subseteq Voter

Init ==
    /\ block = 1
    /\ available = [v \in Voter |-> Genesis]
    /\ votes = [i \in Tables \X Voter \X BP |-> ZeroVote]
    /\ vote4ramsum = [v \in {} |-> 0]
    /\ fixvotes = [i \in Voter \X Key |-> NoFix]
    /\ bps = [b \in BP |-> ZeroBP]
    /\ gvotestat = IF VoteStatExists THEN 0 ELSE NoStat
    /\ blackpro = {}
    /\ gfstate = FALSE
    /\ freezed = {}

-----------------------------------------------------------------------------
\* system_contract::transfer; from and to may be the same account
Transfer(from, to, quantity) ==
    /\ 0 <= quantity /\ quantity <= available[from]
    /\ ~IsFreezed(from)
    /\ available' = [[available EXCEPT ![from] = @ - quantity]
                        EXCEPT ![to] = @ + quantity]
    /\ UNCHANGED <<chainVars, voteVars, bps, gvotestat>>

\* vote_by_typ_imp: the voter's stake on bpname in table t becomes stake.
\* Without a change the row is rewritten all the same.
VoteByTyp(t, voter, bpname, stake) ==
    LET row == votes[<<t, voter, bpname>>]
        change == stake - row.staked
        restaked == ChangeStakedTo(row, block, stake)
        bpsNew == [bps EXCEPT ![bpname] = AddTotalStaked(@, block, change)]
    IN  /\ 0 <= stake /\ stake % PRECISION = 0
        /\ ~IsFreezed(voter)
        /\ change <= available[voter]
        /\ change > 0 => bpname \notin blackpro
        /\ votes' = [votes EXCEPT ![<<t, voter, bpname>>] =
                       IF change < 0 THEN AddUnstaking(restaked, block, -change)
                                     ELSE restaked]
        /\ IF change > 0
           THEN available' = [available EXCEPT ![voter] = @ - change]
           ELSE UNCHANGED available
        /\ IF change = 0
           THEN UNCHANGED <<bps, gvotestat>>
           ELSE bps' = bpsNew /\ gvotestat' = OnChangeTotalStaked(bpsNew, change)
        /\ UNCHANGED <<chainVars, fixvotes>>

\* system_contract::vote
Vote(voter, bpname, stake) ==
    /\ VoteByTyp("votes", voter, bpname, stake)
    /\ UNCHANGED vote4ramsum

RamSumOfStake(old, stake, change) == old + stake
\* v.staked of a vote4ramsum row that exists
RamSum(old, stake, change) == old + change

\* system_contract::vote4ram: the voter's sum over all producers follows
Vote4Ram(voter, bpname, stake) ==
    LET change == stake - votes[<<"votes4ram", voter, bpname>>].staked
    IN  /\ VoteByTyp("votes4ram", voter, bpname, stake)
        /\ vote4ramsum' = [v \in DOMAIN vote4ramsum \cup {voter} |->
              IF v # voter THEN vote4ramsum[v]
              ELSE IF v \in DOMAIN vote4ramsum
                   THEN RamSum(vote4ramsum[v], stake, change)
                   ELSE stake]

\* system_contract::revote: moves stake without unstaking it. The global
\* total does not change; the blacklist is not consulted.
Revote(voter, frombp, tobp, restake) ==
    LET from == votes[<<"votes", voter, frombp>>]
        to == votes[<<"votes", voter, tobp>>]
    IN  /\ frombp # tobp
        /\ restake > 0 /\ restake % PRECISION = 0
        /\ ~IsFreezed(voter)
        /\ restake <= from.staked
        /\ votes' = [votes EXCEPT
                       ![<<"votes", voter, frombp>>] =
                          ChangeStakedTo(from, block, from.staked - restake),
                       ![<<"votes", voter, tobp>>] =
                          ChangeStakedTo(to, block, to.staked + restake)]
        /\ bps' = [bps EXCEPT
                     ![frombp] = AddTotalStaked(@, block, -restake),
                     ![tobp] = AddTotalStaked(@, block, restake)]
        /\ UNCHANGED <<chainVars, available, vote4ramsum, fixvotes, gvotestat>>

\* unfreeze_by_typ_imp: what was unstaked is available again after the delay
UnfreezeByTyp(t, voter, bpname) ==
    LET row == votes[<<t, voter, bpname>>]
    IN  /\ row.unstake_height + FROZEN_DELAY < block
        /\ 0 < row.unstaking
        /\ available' = [available EXCEPT ![voter] = @ + row.unstaking]
        /\ votes' = [votes EXCEPT ![<<t, voter, bpname>>].unstaking = 0]
        /\ UNCHANGED <<chainVars, vote4ramsum, fixvotes, bps, gvotestat>>

Unfreeze(voter, bpname) == UnfreezeByTyp("votes", voter, bpname)
UnfreezeRam(voter, bpname) == UnfreezeByTyp("votes4ram", voter, bpname)

\* newest_voteage of a claim: the vote and every fix-time vote on bpname
ClaimAge(voter, bpname) ==
    GetAge(votes[<<"votes", voter, bpname>>], block)
      + SumFunctionOnSet([i \in Voter \X Key |-> FixAgeOn(fixvotes[i], bpname, block)],
                         {voter} \X Key)

ClaimRewardRoundsUp(voter, bpname) ==
    (bps[bpname].rewards_pool * ClaimAge(voter, bpname)
        + BPGetAge(bps[bpname], block) - 1) \div BPGetAge(bps[bpname], block)
ClaimReward(voter, bpname) ==
    (bps[bpname].rewards_pool * ClaimAge(voter, bpname))
      \div BPGetAge(bps[bpname], block)

\* system_contract::claim: pays the voter's share of the pool and clears its
\* ages; withdrawn fix-time votes are erased here, and nowhere else
Claim(voter, bpname) ==
    LET total == BPGetAge(bps[bpname], block)
        reward == ClaimReward(voter, bpname)
    IN  /\ 0 < total
        /\ 0 <= reward /\ reward <= bps[bpname].rewards_pool
        /\ votes' = [votes EXCEPT ![<<"votes", voter, bpname>>] = CleanAge(@, block)]
        /\ fixvotes' = [i \in Voter \X Key |->
             IF i[1] # voter \/ fixvotes[i].bpname # bpname THEN fixvotes[i]
             ELSE IF fixvotes[i].is_withdraw THEN NoFix
             ELSE FixCleanAge(fixvotes[i], block)]
        /\ available' = [available EXCEPT ![voter] = @ + reward]
        /\ bps' = [bps EXCEPT ![bpname].rewards_pool = @ - reward,
                              ![bpname].total_voteage =
                                  total - ClaimAge(voter, bpname),
                              ![bpname].voteage_update_height = block]
        /\ UNCHANGED <<chainVars, vote4ramsum, gvotestat>>

\* What votefix does after it has taken the stake: the fixvotes row, the
\* producer and the global total, all with the stake times the power.
AddFixVote(voter, bpname, type, stake) ==
    LET key == AvailableKey(voter)
        power == stake * FixPower[type]
        bpsNew == [bps EXCEPT ![bpname] = AddTotalStaked(@, block, power)]
    IN  /\ 0 < stake /\ stake % PRECISION = 0
        /\ ~IsFreezed(voter)
        /\ bpname \notin blackpro
        /\ key \in Key
        /\ fixvotes' = [fixvotes EXCEPT ![<<voter, key>>] =
             [bpname |-> bpname, staked |-> power, age |-> 0,
              update_height |-> block, vote |-> stake,
              withdraw |-> block + FixBlocks[type], is_withdraw |-> FALSE]]
        /\ bps' = bpsNew
        /\ gvotestat' = OnChangeTotalStaked(bpsNew, power)
        /\ UNCHANGED <<chainVars, vote4ramsum>>

\* system_contract::votefix with use_account_token
VoteFixAvailable(voter, bpname, type, stake) ==
    /\ AddFixVote(voter, bpname, type, stake)
    /\ stake <= available[voter]
    /\ available' = [available EXCEPT ![voter] = @ - stake]
    /\ UNCHANGED votes

\* system_contract::votefix with use_unstaking_token
VoteFixUnstaking(voter, bpname, type, stake) ==
    /\ AddFixVote(voter, bpname, type, stake)
    /\ stake < votes[<<"votes", voter, bpname>>].unstaking
    /\ votes' = [votes EXCEPT ![<<"votes", voter, bpname>>].unstaking = @ - stake]
    /\ UNCHANGED available

\* system_contract::revotefix: needs a claim in the same block
RevoteFix(voter, key, bpname) ==
    LET f == fixvotes[<<voter, key>>]
    IN  /\ Exists(f) /\ f.bpname # bpname
        /\ ~f.is_withdraw /\ f.withdraw > block
        /\ ~IsFreezed(voter)
        /\ bpname \notin blackpro
        /\ FixGetAge(f, block) = 0
        /\ fixvotes' = [fixvotes EXCEPT ![<<voter, key>>] =
                          [FixCleanAge(f, block) EXCEPT !.bpname = bpname]]
        /\ bps' = [bps EXCEPT
                     ![f.bpname] = AddTotalStaked(@, block, -f.staked),
                     ![bpname] = AddTotalStaked(@, block, f.staked)]
        /\ UNCHANGED <<chainVars, available, votes, vote4ramsum, gvotestat>>

EndedEarly(f) == f.withdraw <= block + 1
\* check( fitr->withdraw_block_num <= curr_block_num, ... )
Ended(f) == f.withdraw <= block

\* system_contract::outfixvote: the stake of a timed out fix-time vote starts
\* to unstake; its row stays, with its age, until the next claim
OutFixVote(voter, key) ==
    LET f == fixvotes[<<voter, key>>]
        bpsNew == [bps EXCEPT ![f.bpname] = AddTotalStaked(@, block, -f.staked)]
    IN  /\ Exists(f)
        /\ Ended(f) /\ ~f.is_withdraw
        /\ votes' = [votes EXCEPT ![<<"votes", voter, f.bpname>>] =
                       AddUnstaking(@, block, f.vote)]
        /\ fixvotes' = [fixvotes EXCEPT ![<<voter, key>>].vote = 0,
                                        ![<<voter, key>>].is_withdraw = TRUE]
        /\ bps' = bpsNew
        /\ gvotestat' = OnChangeTotalStaked(bpsNew, -f.staked)
        /\ UNCHANGED <<chainVars, available, vote4ramsum>>

\* system_contract::removebp
RemoveBP(bpname) ==
    /\ blackpro' = blackpro \cup {bpname}
    /\ UNCHANGED <<block, gfstate, freezed, voteVars, available, bps, gvotestat>>

\* A block whose onblock reaches reward_bps: it makes the gvotestat row and
\* adds to the pool of producers that have stake and are not blacklisted.
\* What it adds is a parameter here.
OnBlock ==
    \E reward \in [BP -> PoolRewards] :
        /\ block < MaxBlock
        /\ \A b \in BP : reward[b] > 0 => /\ b \notin blackpro
                                          /\ bps[b].total_staked > 0
                                          /\ GetGlobalVotestate(bps) > 0
        /\ block' = block + 1
        /\ gvotestat' = GetGlobalVotestate(bps)
        /\ bps' = [b \in BP |-> [bps[b] EXCEPT !.rewards_pool = @ + reward[b]]]
        /\ UNCHANGED <<blackpro, gfstate, freezed, voteVars, available>>

\* A block whose onblock returns at once, with fewer active producers than
\* NUM_OF_TOP_BPS.
OnBlockShort ==
    /\ block < MaxBlock
    /\ block' = block + 1
    /\ UNCHANGED <<blackpro, gfstate, freezed, voteVars, available, bps, gvotestat>>

\* actfreezed of eosio.freeze: a table is activated, once and for all ...
ActFreezed(accounts) ==
    /\ ~gfstate
    /\ gfstate' = TRUE
    /\ freezed' = accounts
    /\ UNCHANGED <<block, blackpro, voteVars, available, bps, gvotestat>>

\* ... and actconfirmed: an account that had confirmed its activity leaves it.
ActConfirmed(account) ==
    /\ gfstate
    /\ account \in freezed
    /\ freezed' = freezed \ {account}
    /\ UNCHANGED <<block, blackpro, gfstate, voteVars, available, bps, gvotestat>>

-----------------------------------------------------------------------------
TransferNext ==
    \E from \in Voter, to \in Voter, q \in Quantities : Transfer(from, to, q)

VoteNext ==
    \E v \in Voter, b \in BP :
        \/ \E stake \in Stakes : Vote(v, b, stake)
        \/ \E stake \in RamStakes : Vote4Ram(v, b, stake)
        \/ \E to \in BP, restake \in Stakes : Revote(v, b, to, restake)
        \/ Unfreeze(v, b)
        \/ UnfreezeRam(v, b)
        \/ Claim(v, b)

FixNext ==
    \E v \in Voter :
        \/ \E b \in BP, type \in FixType, stake \in FixStakes :
              \/ VoteFixAvailable(v, b, type, stake)
              \/ VoteFixUnstaking(v, b, type, stake)
        \/ \E k \in Key, b \in BP : RevoteFix(v, k, b)
        \/ \E k \in Key : OutFixVote(v, k)

ChainNext ==
    \/ OnBlock
    \/ OnBlockShort
    \/ \E b \in Removable : RemoveBP(b)
    \/ \E accounts \in FreezeTables : ActFreezed(accounts)
    \/ \E v \in Voter : ActConfirmed(v)

Next == TransferNext \/ VoteNext \/ FixNext \/ ChainNext

Spec == Init /\ [][Next]_vars

-----------------------------------------------------------------------------
(* Safety *)

VoteStakeSum(table, bpname) ==
    SumFunction([i \in Tables \X Voter |->
                   table[<<i[1], i[2], bpname>>].staked \div PRECISION])
FixStakeSum(table, bpname) ==
    SumFunction([i \in Voter \X Key |-> FixStakeOn(table[i], bpname)])

\* A producer's total_staked, which elects it and weighs its reward, is what
\* the three kinds of votes on it add up to. No code recomputes it: each of
\* vote, vote4ram, revote, votefix, revotefix and outfixvote moves it by a
\* difference (vote.cpp:65-69, 114-120, 318-322, 359-365, 410-414).
StakeAccounting ==
    \A b \in BP : bps[b].total_staked = VoteStakeSum(votes, b) + FixStakeSum(fixvotes, b)

\* The cached global total is the sum over all producers. revote and
\* revotefix do not touch it since they only move stake.
GlobalStakeIsSum == gvotestat # NoStat => gvotestat = SumStaked(bps)

VoteAgeSum(table, bpname, n) ==
    SumFunction([i \in Tables \X Voter |-> GetAge(table[<<i[1], i[2], bpname>>], n)])
FixAgeSum(table, bpname, n) ==
    SumFunction([i \in Voter \X Key |-> FixAgeOn(table[i], bpname, n)])

\* The voteage of a producer covers the ages of all votes on it, whatever
\* was voted, withdrawn or claimed before: no claim can take total_voteage
\* below zero or ask for more than the pool, so the check of claim that
\* 0 <= reward <= rewards_pool (vote.cpp:230) never refuses a voter.
VoteAgeCovered ==
    \A b \in BP :
        VoteAgeSum(votes, b, block) + FixAgeSum(fixvotes, b, block)
          <= BPGetAge(bps[b], block)

\* The block numbers get_age subtracts are unsigned: no update height is ever
\* ahead of the block it is subtracted from, which for a fix-time vote is its
\* withdraw_block_num once that has passed; the age would wrap around. And a
\* fix-time vote marked as withdrawn has reached its end.
NoAgeUnderflow ==
    /\ \A i \in Tables \X Voter \X BP : votes[i].update_height <= block
    /\ \A i \in Voter \X Key :
          Exists(fixvotes[i]) =>
             /\ fixvotes[i].update_height <= CalcBlock(fixvotes[i], block)
             /\ fixvotes[i].is_withdraw => fixvotes[i].withdraw <= block
    /\ \A b \in BP : bps[b].voteage_update_height <= block

RamStake(table, voter) ==
    SumFunction([b \in BP |-> table[<<"votes4ram", voter, b>>].staked])

\* vote4ramsum, which limits a voter's memory, is the stake of the voter in
\* votes4ram over all producers.
Vote4RamSum ==
    \A v \in Voter :
        RamStake(votes, v) = IF v \in DOMAIN vote4ramsum THEN vote4ramsum[v] ELSE 0

Supply ==
    SumFunction(available)
      + SumFunction([i \in Tables \X Voter \X BP |-> votes[i].staked + votes[i].unstaking])
      + SumFunction([i \in Voter \X Key |-> fixvotes[i].vote])
      + SumFunction([b \in BP |-> bps[b].rewards_pool])

PoolSum == SumFunction([b \in BP |-> bps[b].rewards_pool])

\* No call creates or destroys core tokens: what leaves one of the balances,
\* the stakes, the unstaking amounts, the fix-time votes and the pools enters
\* another. Only a block adds tokens, and all it adds is in the pools.
SupplyConserved ==
    [][Supply' - Supply = IF block' = block THEN 0 ELSE PoolSum' - PoolSum]_vars

\* What voter may claim on bpname now.
Claimable(voter, bpname) ==
    IF BPGetAge(bps[bpname], block) = 0 THEN 0 ELSE ClaimReward(voter, bpname)

\* The order in which voters claim does not matter to them: a claim never
\* lowers what another voter could have claimed on the same producer.
ClaimsIndependent ==
    [][\A v \in Voter, b \in BP : Claim(v, b) =>
          \A w \in Voter \ {v} : Claimable(w, b)' >= Claimable(w, b)]_vars

\* FIP #11: while an account is frozen its balance does not fall, its votes
\* stay where they are, and no token it holds passes to a vote.
FrozenIsInert ==
    [][\A v \in freezed :
          /\ available'[v] >= available[v]
          /\ \A t \in Tables, b \in BP : votes'[<<t, v, b>>].staked = votes[<<t, v, b>>].staked
          /\ \A k \in Key : Exists(fixvotes'[<<v, k>>]) =>
                /\ fixvotes'[<<v, k>>].bpname = fixvotes[<<v, k>>].bpname
                /\ fixvotes'[<<v, k>>].staked = fixvotes[<<v, k>>].staked]_vars

\* A fix-time vote keeps its stake and its end until that end is reached:
\* neither a claim, a revotefix nor a new vote on a reused key cuts it short.
FixVoteLocked ==
    [][\A i \in Voter \X Key :
          Exists(fixvotes[i]) /\ block < fixvotes[i].withdraw =>
             /\ fixvotes'[i].vote = fixvotes[i].vote
             /\ fixvotes'[i].staked = fixvotes[i].staked
             /\ fixvotes'[i].withdraw = fixvotes[i].withdraw
             /\ ~fixvotes'[i].is_withdraw]_vars
=============================================================================
