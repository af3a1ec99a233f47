# Verification of the EOSForce system contracts

TLA+ models of the contracts under `src/contracts`, the TLC runs that check
them on small instances, and TLAPS proofs of the properties that matter most.
File and line references are to the repository, `vote.cpp:230` standing for
`src/contracts/eosio.system/src/vote.cpp` line 230.

Contracts run one action of one transaction at a time, in the order the block
producer chose, and a failed `check` undoes the whole transaction. So one TLA+
action is one whole contract action with everything it calls, its `check`s are
conjuncts of the guard, and the concurrency that remains is the one that matters
here: calls of different accounts in any order, blocks passing between any two
of them, and rules (blacklist, frozen accounts, committees) that change between
two calls of the same account.

## Inventory

| component | state | operations | what makes it correct |
|---|---|---|---|
| votes and voting rewards (`vote.cpp`, `vote.hpp`, `assetage.hpp`) | `votes`, `votes4ram`, `vote4ramsum`, `fixvotes`, stake and voteage in `bps`, `gvotestat` | vote, vote4ram, revote, unfreeze, unfreezeram, claim, votefix, revotefix, outfixvote | totals follow the rows they sum; every age is covered by its producer's voteage, so that claims always work and do not depend on their order; tokens are conserved; unstaked tokens wait; fix-time votes stay locked |
| core token (`transfer.cpp`) | `accounts` | transfer, fee | conserved; frozen accounts cannot move it |
| block rewards and the drain monitor (`onblock.cpp`) | `schs`, `blockreward`, `hbs`, `bpmonitor`, `lastproducers`, `drainblocks`, `bpsreward`, pools of `bps` | onblock, every block | each producer's missed blocks are settled once per round; total block age is the sum of the producers' |
| election (`onblock.cpp:108-162`) | proposed schedule | every 115 blocks | the 23 producers with the most votes that are neither banned nor punished; a ban takes effect |
| producer registry (`producer.cpp`, `eosio.system.cpp`) | `bps`, `blackpro`, `chainstatus`, `globalconfig` | updatebp, removebp, setemergency, heartbeat, bpclaim, updateconfig | bpclaim pays a share of what was mined |
| punishment (`bppunish.cpp`) | `punishbps`, `bp_status` and `end_punish_block` of `bpmonitor` | punishbp, approvebp, bailpunish, monitorevise, removepunish | executed only when enough producers of the last schedule have approved it lately; a punishment lasts; what it deals out was charged for missed blocks |
| eosio.pledge | `pledgetype`, `pledge`, `reward`, its balance of the core token | addtype, addpledge (on transfer), deduction, withdraw, getreward, allotreward, dealreward, open, close, amendpledge | the one balance covers what all rows promise |
| eosio.freeze | `freezed`, `freezedstat`, `gfstate`, `actaccounts` | addfreezed, delfreezed, lockfreezed, actfreezed, confirmact, actconfirmed | at most one table is ever active, with the contents the producers reviewed |
| eosio.budget | `committee`, `motions`, `approvers`, `takecoins` | propose, approve, unapprove, takecoin, agreecoin, unagreecoin, turndown, closecoin, closemotion, handover | money leaves only for a motion the committee passed, up to its amount |
| eosio.token | `stat`, `accounts` | create, issue, retire, transfer, open, close | supply is the sum of balances and at most max_supply |
| eosio.msig | `proposal`, `approvals2`, `approvals`, `invals` | propose, approve, unapprove, cancel, exec, invalidate | executed only with approvals of two thirds that still hold, and once |
| eosio.lock, native actions, scripts, tools, build files | none | none in this repository | not modelled: nothing changes state |

How they interact: `onblock` reads the votes' totals and fills the pools the
voters `claim` from; it sends inline `deduction`s to eosio.pledge for drained
blocks and reads the pledge rows to decide who is paid; `exec_punish_bp` sends
`dealreward`; every call of the system contract that moves tokens or votes looks
up the active table of eosio.freeze; eosio.budget and eosio.pledge move the core
token by inline transfers; the committee and the producers act through
eosio.msig. Hazards are listed in `PROJECT.json` at the lines where they bite.

## Modules

| module | models | |
|---|---|---|
| `Vote` | votes, voting rewards, core token transfers, the effect of removebp, of a block and of an activated freeze table | state machine |
| `MCVote` | instances of `Vote` for TLC | |
| `VoteThaw` | `Vote` with a history of when each row was last unstaked from, for the property `ThawDelay` | state machine |
| `MCVoteThaw` | `VoteThaw` with the constants of `MCVote` | |
| `Pledge` | eosio.pledge | state machine |
| `MCPledge` | instances of `Pledge` | |
| `Monitor` | onblock's settlement of rounds, block rewards and missed blocks, heartbeats, rewards for votes, bpclaim, updateconfig | state machine |
| `MCMonitor` | instances of `Monitor` | |
| `Punish` | bppunish, over `Monitor`, with the last producers and the rewards dealt in eosio.pledge | state machine, composed |
| `MCPunish` | instance of `Punish` | |
| `Election` | update_elected_bps, the registry it reads, setemergency, the stages of a schedule in the chain | state machine, with fairness |
| `Freeze` | eosio.freeze | state machine |
| `FreezeList` | what the system contract expects of eosio.freeze | abstract specification |
| `Msig` | eosio.msig | state machine |
| `FreezeMsig` | `Freeze` with `Msig` as the way to the authority it needs | composition |
| `MCFreezeMsig` | instance of `FreezeMsig` | |
| `Budget`, `MCBudget` | eosio.budget, an instance | state machine |
| `Token`, `MCToken` | eosio.token, an instance | state machine |
| `Sums` | lemmas on `SumFunctionOnSet` of the community modules and on truncated shares | proved |
| `VoteProofs` | theorems of `Vote` and `VoteThaw` | proved |
| `MonitorProofs` | theorems of `Monitor` and `Punish` | proved |
| `FreezeProofs` | theorems of `Freeze`, `Msig` and `FreezeMsig` | proved |
| `PledgeProofs`, `ElectionProofs`, `BudgetProofs`, `TokenProofs` | theorems of `Pledge`, `Election`, `Budget`, `Token` | proved |

### Vote

A row of `votes`, `votes4ram` and `bps` is never erased and a missing one acts as
zeros in every check, so these tables are total functions. A fix-time vote is
erased by claim, and only by claim: `fixvotes` maps a voter and a key to a row or
to `NoFix`, and `AvailableKey` reuses the key above the largest in use, as
`available_primary_key` does. `bps` keeps the four fields the votes touch. The
three forms of age in the code (`assetage`, `fix_time_vote_info`, `bp_info`) are
`GetAge`, `FixGetAge` and `BPGetAge`; a vote counts whole tokens
(`staked \div PRECISION`), a fix-time vote no blocks after its end. `votefix` is two actions, for its
two sources of the stake. `OnBlock` is the part of `onblock` that votes can see:
a new block number, a `gvotestat` row, and some reward to producers that have
stake and are not blacklisted; the amounts are a parameter, 0 for those that its other
checks (heartbeat, pledge, punishment, commission) skip. `OnBlockShort` is the
block for which `onblock` returns at its first check. Who calls is a parameter of
the action, so `require_auth` needs no guard. The types of fix-time votes are
constants, arithmetic is unbounded.

### Pledge

`pledges` maps a type and an account to a row that is open or not. A pledge may
be negative, after a deduction of more than it holds. `held` is the contract's
balance of the core token and `balance` that of the accounts, which only a
transfer, `withdraw` and `getreward` change. `granted` is a history variable:
what `amendpledge`, which the contract's own authority may call with any amounts,
has added to the claims on `held`. Who pays for the memory of a row is left out,
and all pledge types have the core symbol, since no other can be added to.

### Monitor

The chain is outside: it gives each time slot to the producer at its index in
`active`, in the order of names, and adopts an elected schedule at any moment,
but no second one before a block under the first (`Promote`). A slot is either
`MissSlot` or `OnBlock`, in which the contract is told the producer and the
schedule version of the block before. `version`, `schedule` and `amount` are the
last row of `schs`, the only one the code reads; `monitors`, `drainblocks` and
`blockreward` are the tables of those names, with the default of a missing row in
`NewMonitor` and `NoBlockReward`. `OnBlock` begins a round, settles one
(`Settle`) or neither, exactly as `is_reward_block` and `reward_block` decide,
then makes a heartbeat for the producer and pays rewards for votes. The deductions that
`reward_block` sends are inline actions and run after onblock, so `RewardBps`
still reads the old pledges. `cal_drain_num` compares a negative number with an
unsigned constant; `CalDrainNum` does what that compiles to. Left out of `OnBlock`:
the rows of `lastproducers`, which are in `Punish`, and the election, which is in
`Election`. `BringPledge` is what calls of eosio.pledge may do to a pledge meanwhile.

`heartbeat` holds the timestamps of the `hbs` rows and `now` the time of the block.
A row is written by `OnBlock`, for the producer it is told, and by `Heartbeat`, the call,
which stores the current time whatever timestamp it is given. `RewardBps` has
the checks of `reward_bps` in their places: no row, or one older than `hb.max`
seconds, when `heartbeat` is open; no pledge above the minimum, when
`bp_punish` is; and the status of the producer after the settlement. The chain's
`is_func_open` and the value of `hb.max` are outside: each block finds any set of
`OpenFuncs` open and any value of `HbMax`. Between two blocks any number of seconds of
`Intervals` pass, slots without a block among them. The amounts are not computed
from votes: each block pays any of the lists of `BpAccountRewards`, in which a
producer on the blacklist, below the stake that is rewarded or with a commission
outside its range earns 0, and all do while nobody has stake.

`missed` is a history variable: the slots a
producer has really missed since the last settlement.

### Punish

`Punish` extends `Monitor`: its steps are those of `Monitor`, with `OnBlock` also
writing `lastproducers` and counting what it moves from pledges to deductions, and
the calls of `bppunish.cpp`, which run in the block of the last `OnBlock`.
`lastproducers` is a sequence of the last `MAX_LAST_PRODUCER_SIZE` producers where
the code has a ring, since only its content is read. `ExecPunish` contains the
inline `dealreward`, with the split of module `Pledge`; its guard fails the whole
`ApproveBp`, as a failed `check` does. Two history variables, `approvedAt` and
`punishedAt`, hold the blocks of approvals and punishments.

### Election

Names are numbers, since the code goes through `bps` in the order of names and
keeps the later of two equals. `Insert(p)` maps the vector to what the loop body of
`update_elected_bps` makes of it for the row of `p`, and `VoteSchedule` is the loop. The loop compares with entries behind the end of the
vector as long as it has fewer than 23: that is memory which `reserve` has got and
nothing has written (the vector never shrinks below 23 once it was longer), which a
contract, running in a fresh and zeroed memory, reads as 0 (`StakeAt`). The chain keeps a
proposed, a pending and an active schedule; they move on when blocks become
irreversible, at any time here. The same block numbers modulo `UPDATE_CYCLE` are one
state; `untilOpen` counts the blocks to the one configured under `update.bp`.

Fairness: `WF(OnBlock)`, since every block runs onblock and blocks go on, and
`WF(BecomePending)`, `WF(BecomeActive)`, since blocks become irreversible. None is
assumed for calls of accounts. Under it, a banned producer leaves the schedule
(`BannedLeave`), though elections are lost while another proposal is waiting.

### Freeze, Msig and their composition

`Freeze` has eosio.freeze with the authority of the system account as given
(`SystemNext`). `FreezeList` is what `is_account_freezed` relies on: one list comes
into force once and then only shrinks; `ImplementsFreezeList` checks that `Freeze`
implements it, with the list mapped to the table `gfstate` names. `Msig` has opaque
transactions that need the system account's authority, which the chain gives to more
than two thirds of its producers and which `exec` checks, not the deferred
transaction when it runs. `proposals`, `approvals` (table `approvals2`),
`old_approvals` (table `approvals`, of an earlier version, with rows only where
`Legacy` puts them) and `invalidations` are partial functions of what the code keys
the rows by. A transaction in `deferred` succeeds, fails, or expires, once
(`RunDeferred`, `DropExpired`). Approvals that `propose` asks for are sets of actors; the code
keeps lists, which may name a level twice, and looks levels up by their first place.
`given` is a history variable: approvals given for a proposal, neither withdrawn nor
invalidated, and used up when `exec` schedules it or `cancel` drops it, whatever the tables
then hold.

`FreezeMsig` composes the two: a transaction of `Msig` is one call of `Unlock` or
`ActFreezed`, and only such a transaction makes these calls. `reviewed` records the
content of a locked table at each approval of its activation, and `backed` the proposals
that a quorum of unused approvals (`given`) had executed, until their transactions have run.
`SystemActsOnce` would notice an `exec` that leaves its proposal, whose approvals then act again. `ReviewedTableKept`
is about the life between a lock and the next unlock: an approval given before an unlock
stays valid for the same proposal when the committer has changed and locked the
table again, as nothing in eosio.msig knows of tables. Producers that unlock a table
must have approvals of its activation withdrawn, or `invalidate`.

### Budget

Motions and takecoins are partial functions of their ids, and an approvers row or
takecoin carries its lists in a record, `NewBallot` from the committee of the
moment. `closemotion` reads the proposer from the row it has just erased, which
still holds it. The payment is an inline transfer that fails, and takes the whole
call with it, for a negative amount or one above what the contract holds. `drawn`
is a history variable.

### Token

Rows are erased when they fall to zero and are present or not, since `open` and
`close` depend on that; `Issue` contains its inline transfer. Symbols are a code and
a precision, and tables are keyed by the code alone, as in the code.

## Runs

| run | instance | question |
|---|---|---|
| `vote_claim` | two voters, one producer, 1 token each, pools of 0 or 3, blocks 1 to 4, delay 1 | do claims in every order stay covered and leave the others' rewards alone |
| `vote_stake` | one voter, two producers, precision 2, 5 units, blocks 1 and 2, the voter frozen and released | do the totals follow vote, vote4ram, revote, votefix, revotefix and outfixvote, also with a producer on the blacklist; does nothing leave a frozen account |
| `vote_fix` | one voter, one producer, 3 tokens, two keys, one type, blocks 1 to 5 | are tokens conserved, do unstaked ones wait, are fix-time votes locked through withdrawal, claim and a reused key |
| `pledge` | two accounts with 3 tokens, amounts 1 and 3, debts to 2, lists of two and three rewarders, amendments that forgive a debt or grant a pledge | is the contract solvent, but for what amendments grant; is no debt spent |
| `monitor` | three of four producers, two schedules, one change at any moment, 6 blocks, at most one slot missed by each producer between settlements, two producers with a pledge, `heartbeat` and `bp_punish` closed | is every block counted once, is nobody charged in a complete round who missed nothing, do the shares of block age make up the whole |
| `punish` | two of three producers, two schedules, 7 blocks, two approvals needed, proposals and punishments of two blocks; one producer keeps a pledge, and so its rewards, after what it is charged, one falls into debt; both switches are open, a heartbeat counts for a second, producer 2 may call it at time 3 | does a punishment have the approvals it needs, does it keep rewards for votes away until it is over, is what it deals out paid for |
| `election` | two of three producers, one registered later, stakes 0 to 2, an election every second block | does the insertion elect the best, do banned producers leave, is a short schedule final |
| `budget` | three members, then one, a motion of 2, two takecoins of 2 or -1, blocks 1 to 3 | are verdicts backed by thirds of their ballot, is never more paid than was asked |
| `token` | three accounts, two codes of either precision, amounts -1 to 3, supplies to 3 | is the supply the sum of the balances |
| `freeze_msig` | two committers, one account, two producers of which one or both are scheduled, one proposal name, times 1 and 2, proposals that expire after both and an activation that may expire between, a proposal of the earlier version or none | is only the reviewed table put in force, by a quorum, once; is the list kept as the system contract expects |

Two voters are needed for one to harm the other and none of the checks tells
three apart from two; two producers are needed to move a stake; a precision of 2
makes a whole token differ from its units; the five blocks of
`vote_fix` let a fix-time vote of one block end, be withdrawn, claimed and its key
used again. Two
thirds of two producers are both, of one it alone, and three members of a committee tell a
half from two thirds. Seven blocks of two producers let one miss a run, be proposed,
approved, punished and bailed, and the schedule change in between; two of three places let
a producer lose its place to a better, a ban or a tie. Six blocks of three producers are a change of schedule and a complete
round on either side of it, and four names let a producer leave and another join. Amounts are large enough
to split, to unstake twice and for divisions to leave a remainder.

`CHECK_DEADLOCK FALSE` everywhere but in `token`: the last block is a bound, and no contract
must be called. Bounds: `MaxBlock`, `MaxKey` in `Vote`; `MaxDebt`, `MaxGrant` in
`Pledge`; `MaxBlock`, `MaxMiss`, `MaxVersion` in `Monitor` and `Punish`, with `Beating`, the times at which `heartbeat`
may be called, `Intervals` and `HbMax`; `MaxUntilOpen` in
`Election`; `MaxBlock`, `MaxMotion`, `MaxTakeCoin` in `Budget`; `MaxTime` in `Msig`, with `Proposable`, the
transactions and expirations proposed.
`election` has one signing key, so that a producer that changes its key is modelled
and not exercised. But for `Election` the properties are of safety: a contract acts when called and nobody is
obliged to call, so there is no fairness the code would justify.

Disagreements between the code and what it says of itself, each a run that
violates one property:

| run | what the code does |
|---|---|
| `monitor_charged` | a change of schedule charges producers for slots that have not come |
| `budget_own` | a takecoin outlives its motion and is paid from the motion of another proposer that got the same id |

Others, in the models as the code has them, without a run of their own: revote
adds stake to a producer on the blacklist, which vote, votefix and revotefix refuse
(`vote.cpp:100`, against `:59`, `:300`, `:340`); votefix refuses the whole unstaking amount, though
its message allows it (`vote.cpp:286`); an ended fix-time vote counts until its voter
calls outfixvote (`vote.cpp:408`, README.md:254 of eosio.system); a first vote before
`gvotestat` has its row is counted twice in it (`eosio.system.hpp:453`), which is why
`GlobalStakeIsSum` is checked with the row there from the start; dealreward with one rewarder divides
by zero (`eosio.pledge.cpp:241`, against `:224`).

## Proofs

The theorems hold for every value of the constants that the ASSUMEs of the module
allow: finite sets of accounts and producers, natural numbers where the code has
unsigned ones, positive precision and powers. Each has an inductive invariant with
`Init`, step and conclusion, and an action property is proved of every step from
a state in which the invariant holds. `PROJECT.json` lists the theorems with the
properties they prove.

`Sums` proves what the other modules need of sums over finite sets: the value
when one index changes, is added or removed, additivity, monotonicity, constant and
scaled sums, and that truncated shares of a pool leave enough for the others
(`FairShare`). The library's induction principles take operators as parameters, so
each fact is proved from a minimal counterexample among the finite subsets.

### Vote

`Invariance` shows that `IInv` holds always; `TypeCorrect`,
`StakeAccounted`, `VoteAgeAlwaysCovered`, `NoUnderflow` and `RamSumCorrect` follow.
No part is inductive alone. `total_voteage` stays a natural number when a voter
claims only because the ages of that voter's votes are covered by it; ages stay
covered when a block passes only because `total_staked` is the sum of the stakes
(what all ages grow by is what the voteage grows by); that sum follows the
differences in units of `PRECISION` only because every stake is a multiple of it,
and ages are natural numbers only because no height is ahead of its block, or of
the end of its fix-time vote. One lemma per action, over lemmas on how one row
moves the sums. Over that invariant:

- `GlobalStakeAlwaysSum`: the sum that `gvotestat` caches moves with each producer's.
  It assumes `VoteStatExists`, as the run does: a stake put before the row exists
  counts twice in it (see above).
- `FrozenAlwaysInert`: every call that lets tokens or votes of a voter move asks
  `IsFreezed`, but `ActConfirmed` and the activation change the list itself; `Thawed`, that
  nobody is on the list before an activation, is inductive and ties the two.
- `FixVotesLocked`: the end of a fix-time vote is never moved, and `AvailableKey` gives no
  key in use.
- `ClaimsAlwaysIndependent`: a claim takes ages from the voteage and tokens from the pool, both
  truncated. The others' share of the pool does not fall, because the truncation of
  the claimer's leaves the pool at least its part (`FairShare`), and because their ages do not
  change and remain covered by what is left of the voteage.
- `SupplyAlwaysConserved`: each call moves the four sums that make up the supply by amounts that
  cancel, and a block only adds what it mines. One lemma per call (`...Balances`), and `Cleared`: a
  fix-time vote that was withdrawn or erased holds nothing.
- `UnstakedAlwaysWaits`, of `VoteThaw`: `unstake_height` is never before the block remembered
  (`Waited`), since each growth sets it and nothing lowers it.

### Pledge

`Solvent` is inductive with the types. What a row promises,
`Claims`, is the positive part of the pledge and of what was taken and paid in;
a deposit adds to it at most what it brings, a deduction nothing, and each payment
takes off what it pays. `dealreward` needs that the shares of a list, in which an
account may stand twice, add up to at most what is dealt. `DealsLoseLittle` is the other
half: they miss it by less than a unit for each in the list. `DebtNeverSpent` assumes
that no amendment leaves a debt spent (`AmendmentsBacked`): the contract's own authority may
write any row.

### Monitor and Punish

`EveryBlockIsCounted`, `RoundAlwaysBounded`, `BlockAgeIsSum` and
`RunsRecorded` follow from one invariant. The unsigned subtractions of
`reward_block` stay natural numbers because no producer is behind its last
settlement (`RoundBounded`); a settlement keeps that at a change of schedule, when
it resets the block numbers of the old schedule's producers only, because others
have none (`RowOfSchedule` with `RoundBounded`); the number of blocks paid for is
natural because it is the sum of the blocks counted (`EveryBlockCounted`); a claim
leaves a natural `total_block_age` because it is the sum of all block ages.

`AlwaysChargedForMissesInRound` needs to know in which order slots come up. `Rotation`
says that, since the last settlement and while no new schedule waits, the slots that a
producer got, with a block not yet settled or a miss, are as many as those of any
other, but for one more for the producers between the last settled and the next slot.
The difference to the standard producer's blocks, which is what it is charged, is then at most what it missed.
`ClaimsAlwaysIndependent` is `FairShare` again, with block ages.

The steps of `Punish` are those of `Monitor` and changes of a producer's status, which
keep the monitor's invariant. `RewardsAlwaysFromDrains` sums, over the producers, that a deduction
grows by no more than its drained blocks cost, and, over a list, that the shares of
`dealreward` do not exceed what it deals. `AlwaysByRecentQuorum` needs `ApprovalsRecent`: no
approval is older than its proposal, so that one counted before the proposal runs out is
recent; and `NoProposalLeft`, that a punished producer has no proposal that could
punish it again. `PunishedNeverGetVoteReward` needs `Sentenced`, which ties the status to the block
of the punishment; it holds for any amounts, heartbeats and switches, since the status alone
is enough for `reward_bps` to skip a producer, and it says nothing of block rewards.

`DrainsRecorded` of `Monitor`, that recorded runs of missed blocks and the current one never exceed
`total_drain_block`, is proved (`RunsRecorded`) and has no run.

### Election

`TopOf` describes the vector after some rows without counting: it is in the order of
ranks, full or with all candidates so far, and what is in it outranks what is not.
`InsertStep` shows that the loop body keeps that for one more row, in the order of
names; it also covers the comparison with the unwritten entries behind the end of the
vector. The loop is a recursive function, and `LoopKeepsTop` follows it to the
last row by a least counterexample. `AlwaysElectsBest`, which counts those
that outrank a producer, follows from it with injections between the places of the vector
and the producers. `TypeCorrect` is about schedules: those elected are of at most
`NUM_OF_TOP_BPS` producers with their keys.

### Freeze, Msig and FreezeMsig

`SizeAlwaysCount` and `OnlyOneActivated` are inductive with the types.
`freezed_size - 1` stays a natural number because the counter is the number of
accounts in a table that has the one removed; an activation leaves one table
activated because `gfstate` names none before it and then no table is. From that
invariant follow two facts of every step, `ReleasesAreConfirmed` and the step of
`Implements`: once `gfstate` names a table, only `ActConfirmed` changes that table or
the confirmations, every other call is refused by `NotActivated` or by the state of
the table. The initial states and the steps map to those of `FreezeList` or to a stutter.

`AlwaysByQuorum`, of `Msig`, needs `Backed`: whatever approval `exec` counts is one that was given and
neither withdrawn nor invalidated since, in the table of either version. An approval is never
from the future, so that an invalidation in its own block or later is not before it.
`QueueAssumption`, in `FreezeMsig`, states what the initial rows of the earlier version may be.

`SystemImplementsBoth`: every step of the composition is one of `Freeze` and one of `Msig`, or a
stutter of either, so what is proved of each holds of both (`SystemReleases`,
`SystemImplementsList`, `SystemByQuorum`). `ReviewedTableAlwaysKept` is inductive with
`ReviewedLocked`: what has been reviewed is locked until an unlock discards the review.
`SystemAlwaysActsOnce` needs `QueueBacked`: whatever is scheduled was scheduled with a quorum of
approvals still unused (`ExecByQuorum`, which also gives `AlwaysByQuorum`), and is backed until it
leaves the queue. Only the run of such a transaction activates or unlocks.

### Budget

`IInv` goes table by table, as the calls do: each motion with its ballot and what was
drawn of it, each takecoin. A verdict stands because votes after it are refused
and the size of a ballot never changes; a new row falls on no other because its
key is free (`KeyIsFree`); what is left of a motion and what it paid make up what was asked,
because a payment needs a passed takecoin and at least its amount left.

### Token

`TypeCorrect` and `SupplyAlwaysSum` need each other. A retired amount
leaves a natural supply because it is at most one balance, and the supply is the
sum of all; the sum follows each call because one row, or two one after the other,
moves it by the amount (`Add`, `Subtract`), also when the row is erased at zero.

### Only model-checked

`BannedLeave`, which is a liveness property under fairness and out of the prover's
reach. `ChargedForMisses` and `PaidToItsProposer` are violated. No theorem needs induction over data
or ENABLED.

## Not modelled

- monitorevise and drainblock_revise (`bppunish.cpp:136-180`): they repair counters above
  ten million, which an earlier version of the contract left.
- the address of a producer, notes and block numbers kept for information,
  eosio.budget's updateconfig: nothing reads them.
- the commission rate of a producer, the rewarded stake and the blacklist as `reward_bps`
  reads them (`onblock.cpp:192-198`): they only choose among the amounts of `BpAccountRewards`.
- Fees, accounts, keys and code (`native.hpp`): the chain's own code.
- eosio.lock, which has declarations only; scripts, tools and build files.
- Overflow of int64 amounts and ages, which depends on the supply of the token and
  the age of the chain only.

## Plan

Every invariant and action property that the passing runs check is proved. What
is left is to make the proofs say more. `Monitor` takes what the producers' votes earn
them in a block from a constant set and `Punish` takes what eosio.pledge does to a pledge as
`BringPledge`: with `Pledge` composed in their place, `Solvent` could be stated and proved
across the deductions of `onblock` and the `dealreward` of a punishment, as
`SystemImplementsList` does it for eosio.freeze and eosio.msig. In the same way
`Vote` could take its list of frozen accounts from `FreezeList`, which `Freeze` is
proved to implement.
