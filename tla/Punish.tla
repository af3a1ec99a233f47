------------------------------- MODULE Punish -------------------------------
(***************************************************************************)
(* The punishment of producers that miss blocks (bppunish.cpp), composed   *)
(* with the monitor that finds them (module Monitor) and with what it      *)
(* deals out in eosio.pledge: somebody with a pledge proposes to punish a  *)
(* producer, producers of the last schedule approve, the last approval     *)
(* needed punishes it and shares what it was charged.                      *)
(*                                                                         *)
(* Actions run in the block whose onblock was the last to run. Left out is *)
(* monitorevise, which repairs counts above ten million that an earlier    *)
(* version left; this one does not reach them.                             *)
(***************************************************************************)
EXTENDS Monitor, Sequences

CONSTANTS
    APPROVE_TO_PUNISH_NUM,    \* approvals needed, also from the configuration
    PUNISH_BP_LIMIT,          \* blocks a proposal, and a punishment, last
    PROPOSAL_PLEDGE,          \* a proposaler needs a larger pledge
    MAX_LAST_PRODUCER_SIZE,   \* blocks lastproducers remembers
    Proposaler                \* accounts that propose punishments

ASSUME PunishAssumption ==
    /\ APPROVE_TO_PUNISH_NUM \in Nat \ {0} /\ PUNISH_BP_LIMIT \in Nat
    /\ PROPOSAL_PLEDGE \in Nat /\ MAX_LAST_PRODUCER_SIZE \in Nat \ {0}
    /\ Proposaler \subseteq Producer

VARIABLES
    punishbps,         \* the proposal to punish each producer
    end_punish_block,  \* of the bpmonitor rows
    lastproducers,     \* producers of the last blocks
    deduction,         \* of the pledge rows: charged and not yet dealt out
    rewards,           \* what eosio.pledge owes for punishments
    approvedAt,        \* history: block of the last approval, by producer and approver
    punishedAt         \* history: block of the last punishment, 0 without one

proposalVars == <<punishbps, approvedAt>>
sentenceVars == <<end_punish_block, punishedAt>>
penaltyVars == <<deduction, rewards>>
punishVars == <<proposalVars, sentenceVars, lastproducers, penaltyVars>>
systemVars == <<vars, punishVars>>

NoProposal == [exists |-> FALSE, proposaler |-> 0, approve_bp |-> {},
               effective_block_num |-> 0]
\* before any approval could count
Never == -PUNISH_BP_LIMIT

\* No proposal against a punished producer is left to be approved and to deal
\* a reward for it a second time, whichever way the punishment went.
NoProposalLeft ==
    \A p \in Producer : monitors[p].bp_status = "PUNISHED" => ~punishbps[p].exists

PunishTypeOK ==
    /\ TypeOK /\ NoProposalLeft
    /\ punishbps \in [Producer -> [exists : BOOLEAN, proposaler : Producer \cup {0},
                                   approve_bp : SUBSET Producer, effective_block_num : Nat]]
    /\ end_punish_block \in [Producer -> Nat]
    /\ lastproducers \in Seq(Producer) /\ Len(lastproducers) <= MAX_LAST_PRODUCER_SIZE
    /\ deduction \in [Producer -> Nat] /\ rewards \in [Producer -> Nat]
    /\ approvedAt \in [Producer \X Producer -> Int]
    /\ punishedAt \in [Producer -> Nat]

PunishInit ==
    /\ Init
    /\ punishbps = [p \in Producer |-> NoProposal]
    /\ end_punish_block = [p \in Producer |-> 0]
    /\ lastproducers = <<>>
    /\ deduction = [p \in Producer |-> 0] /\ rewards = [p \in Producer |-> 0]
    /\ approvedAt = [i \in Producer \X Producer |-> Never]
    /\ punishedAt = [p \in Producer |-> 0]

-----------------------------------------------------------------------------
\* The ring of lastproducers: only its content matters.
Remembered(bp) ==
    IF Len(lastproducers) = MAX_LAST_PRODUCER_SIZE
    THEN Append(Tail(lastproducers), bp) ELSE Append(lastproducers, bp)

\* onblock, with lastproducers, and with what the settlement moves from
\* pledges to deductions
OnBlockRemembers(bp) ==
    /\ OnBlock(bp)
    /\ lastproducers' = Remembered(bp)
    /\ deduction' = [p \in Producer |-> deduction[p] + pledge[p].amount - pledge'[p].amount]
    /\ UNCHANGED <<proposalVars, sentenceVars, rewards>>

\* is_super_bp: in the last row of schedules
SuperBp(p) == p \in schedule

ProposedAgain(p, proposaler) ==
    [exists |-> TRUE, proposaler |-> proposaler, approve_bp |-> punishbps[p].approve_bp,
     effective_block_num |-> block + PUNISH_BP_LIMIT]
Proposed(p, proposaler) ==
    [exists |-> TRUE, proposaler |-> proposaler, approve_bp |-> {},
     effective_block_num |-> block + PUNISH_BP_LIMIT]

InForce(p) == punishbps[p].exists /\ punishbps[p].effective_block_num > block

\* punishbp; a proposal that has run out is replaced
PunishBp(p, proposaler) ==
    /\ monitors[p].exists /\ monitors[p].bp_status = "LACK_PLEDGE"
    /\ ~punishbps[p].exists \/ punishbps[p].effective_block_num < block
    /\ pledge[proposaler].exists /\ pledge[proposaler].amount > PROPOSAL_PLEDGE
    /\ punishbps' = [punishbps EXCEPT ![p] = Proposed(p, proposaler)]
    /\ UNCHANGED <<vars, approvedAt, sentenceVars, lastproducers, penaltyVars>>

\* What pre_allot leaves to deal out (module Pledge).
Penalty(p) == deduction[p] + (IF pledge[p].amount < 0 THEN pledge[p].amount ELSE 0)

DeductionKept(p) == deduction[p]
DeductionLeft(p) == deduction[p] - Penalty(p)

\* dealreward: half for the proposaler, which may have approved as well, and
\* half for those that approved
DealReward(p, proposaler, approvers) ==
    LET approval == Penalty(p) \div (2 * Cardinality(approvers))
    IN  /\ deduction' = [deduction EXCEPT ![p] = DeductionLeft(p)]
        /\ rewards' = [a \in Producer |->
              rewards[a] + (IF a = proposaler THEN Penalty(p) \div 2 ELSE 0)
                         + (IF a \in approvers THEN approval ELSE 0)]

PunishedUntil == block + PUNISH_BP_LIMIT

\* exec_punish_bp, with the approvals that still come from the last schedule
ExecPunish(p, proposaler, approvers) ==
    /\ monitors[p].exists /\ monitors[p].bp_status = "LACK_PLEDGE"
    /\ monitors' = [monitors EXCEPT ![p].bp_status = "PUNISHED"]
    /\ end_punish_block' = [end_punish_block EXCEPT ![p] = PunishedUntil]
    /\ IF pledge[p].exists /\ deduction[p] > 0 /\ pledge[p].amount + deduction[p] > 0
       THEN DealReward(p, proposaler, approvers)
       ELSE UNCHANGED penaltyVars
    /\ punishedAt' = [punishedAt EXCEPT ![p] = block]

Supers(approvals) == {a \in approvals : SuperBp(a)}

AfterExecKept(p, approvals) == [punishbps[p] EXCEPT !.approve_bp = approvals]
AfterExec(p, approvals) == NoProposal

\* approvebp: once enough have approved, those that are not in the last
\* schedule any more do not count, and the producer must still be punishable
\* or the call fails.
ApproveBp(p, approver) ==
    LET approvals == punishbps[p].approve_bp \cup {approver}
        counted == Supers(approvals)
    IN  /\ version # 0 /\ SuperBp(approver)
        /\ InForce(p)
        /\ approver \notin punishbps[p].approve_bp
        /\ IF Cardinality(counted) >= APPROVE_TO_PUNISH_NUM
           THEN /\ ExecPunish(p, punishbps[p].proposaler, counted)
                /\ punishbps' = [punishbps EXCEPT ![p] = AfterExec(p, approvals)]
           ELSE /\ punishbps' = [punishbps EXCEPT ![p].approve_bp = approvals]
                /\ UNCHANGED <<monitors, sentenceVars, penaltyVars>>
        /\ approvedAt' = [approvedAt EXCEPT ![<<p, approver>>] = block]
        /\ UNCHANGED <<block, chainVars, version, schedule, amount, drainblocks, blockreward,
                       pledge, config, bpsreward, available, beatVars, lastproducers>>

BailAny(p) == monitors[p].bp_status = "PUNISHED"
\* The punishment of p is over.
Bail(p) == monitors[p].bp_status = "PUNISHED" /\ end_punish_block[p] < block

\* bailpunish; the run of missed blocks stays as it is
BailPunish(p) ==
    /\ monitors[p].exists /\ Bail(p)
    /\ monitors' = [monitors EXCEPT ![p].bp_status = "NORMAL"]
    /\ end_punish_block' = [end_punish_block EXCEPT ![p] = 0]
    /\ UNCHANGED <<block, chainVars, version, schedule, amount, drainblocks, blockreward,
                   pledge, config, bpsreward, available, beatVars>>
    /\ UNCHANGED <<proposalVars, lastproducers, penaltyVars, punishedAt>>

\* removepunish, by a producer that produces again; a proposal stays
RemovePunish(p) ==
    /\ monitors[p].exists /\ monitors[p].bp_status = "LACK_PLEDGE"
    /\ p \in {lastproducers[i] : i \in DOMAIN lastproducers}
    /\ monitors' = [monitors EXCEPT ![p].bp_status = "NORMAL"]
    /\ UNCHANGED <<block, chainVars, version, schedule, amount, drainblocks, blockreward,
                   pledge, config, bpsreward, available, beatVars>>
    /\ UNCHANGED punishVars

PunishNext ==
    \/ \E p \in Producer :
          \/ OnBlockRemembers(p)
          \/ BailPunish(p)
          \/ RemovePunish(p)
          \/ \E proposaler \in Proposaler : PunishBp(p, proposaler)
          \/ \E approver \in Producer : ApproveBp(p, approver)
    \/ /\ \/ \E p \in Producer : MissSlot(p) \/ BpClaim(p)
          \/ \E b \in Beating : now = b[2] /\ Heartbeat(b[1])
          \/ \E S \in Elected : Promote(S)
          \/ \E d \in Pledged : BringPledge(d[1], d[2])
          \/ \E c \in Configs : UpdateConfig(c)
       /\ UNCHANGED punishVars

PunishSpec == PunishInit /\ [][PunishNext]_systemVars

-----------------------------------------------------------------------------
Becomes(p, status) == monitors[p].bp_status # status /\ monitors'[p].bp_status = status

\* A producer is punished only when enough producers of the last schedule
\* have approved it in the last PUNISH_BP_LIMIT blocks, whatever proposals
\* ran out, were replaced or were left over by removepunish, and however the
\* schedule changed between their approvals (bppunish.cpp:76, 182).
PunishedByRecentQuorum ==
    [][\A p \in Producer : Becomes(p, "PUNISHED") =>
         APPROVE_TO_PUNISH_NUM <=
           Cardinality({a \in schedule : approvedAt'[<<p, a>>] + PUNISH_BP_LIMIT > block})]_systemVars

\* From its punishment on, a producer gets no reward for its votes for
\* PUNISH_BP_LIMIT blocks, whatever it misses, produces, is proposed for or
\* calls, and whichever switches are open (bppunish.cpp:63, onblock.cpp:212).
PunishedGetNoVoteReward ==
    [][\A p \in Producer : bpsreward'[p] > bpsreward[p] =>
         punishedAt[p] = 0 \/ block' > punishedAt[p] + PUNISH_BP_LIMIT]_systemVars

\* What proposers and approvers have earned, and what is left to deal, never
\* is more than DRAIN_BLOCK_PUNISH for each block a producer is recorded to
\* have missed.
RewardsFromDrains ==
    SumFunction(rewards) + SumFunction(deduction)
      <= DRAIN_BLOCK_PUNISH * SumFunction([p \in Producer |-> monitors[p].total_drain_block])
=============================================================================
