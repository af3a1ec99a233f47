----------------------------- MODULE FreezeMsig -----------------------------
(***************************************************************************)
(* eosio.freeze with the only way to the authority its actfreezed and      *)
(* unlock take: a transaction of the system account, proposed and executed *)
(* with eosio.msig by the block producers, run as a deferred one.          *)
(***************************************************************************)
EXTENDS Freeze

CONSTANTS   \* those of Msig
    Transaction, Proposal, Approver, Requests, Producers, Legacy, Proposable, MaxTime

VARIABLES
    time, producers, proposals, approvals, old_approvals, invalidations, deferred, given,
    reviewed,  \* history: contents a locked table had when its activation was approved
    backed     \* history: proposals a quorum had executed, with their transactions, until run

\* The transactions proposed: one action each, for one committer's table
ASSUME TransactionAssumption == Transaction \subseteq {"unlock", "actfreezed"} \X Committer

ASSUME QueueAssumption ==
    /\ MaxTime \in Nat \ {0} /\ Requests \subseteq SUBSET Approver
    /\ Proposable \subseteq [trx : Transaction, expiration : 0..MaxTime]
    /\ \A P \in Producers : IsFiniteSet(P)
    /\ \A row \in Legacy :
          /\ row.id \in Proposal /\ row.trx \in Transaction
          /\ row.expiration \in 0..MaxTime /\ row.requested \subseteq Approver

M == INSTANCE Msig

queueVars == <<time, producers, proposals, approvals, old_approvals, invalidations,
               deferred, given>>
systemVars == <<freezeVars, queueVars, reviewed, backed>>

\* Types, with what the tables of both contracts always agree on: sizes are
\* counts, one table at most is activated, and approvals have a proposal.
SystemTypeOK ==
    /\ TypeOK /\ SizeIsCount /\ OneActivated
    /\ M!TypeOK
    /\ reviewed \in [Committer -> SUBSET SUBSET Account]
    /\ backed \subseteq Proposal \X Transaction

SystemInit == Init /\ M!Init /\ reviewed = [c \in Committer |-> {}] /\ backed = {}

\* The approval of an activation of c's table, when that is locked
Review(i) ==
    LET c == proposals[i].trx[2]
    IN  reviewed' = IF proposals[i].trx[1] = "actfreezed" /\ freezedstat[c].state = "locked"
                    THEN [reviewed EXCEPT ![c] = @ \cup {freezed[c]}] ELSE reviewed

\* Calls of eosio.msig and steps of the chain that run or schedule nothing
MsigCall ==
    \/ \E i \in Proposal :
         \/ \E row \in Proposable, requested \in Requests :
               M!Propose(i, row.trx, row.expiration, requested)
         \/ \E level \in Approver : M!Unapprove(i, level)
         \/ \E canceler \in Approver \cup {i[1]} : M!Cancel(i, canceler)
    \/ \E account \in Approver : M!Invalidate(account)
    \/ \E P \in Producers : M!ChangeProducers(P)
    \/ M!NextBlock
CallMsig == MsigCall /\ UNCHANGED <<freezeVars, reviewed, backed>>
CallApprove ==
    /\ \E i \in Proposal, level \in Approver :
         \/ M!Approve(i, level) /\ Review(i)
         \/ \E row \in M!ProposalRow : M!ApproveHash(i, level, row) /\ Review(i)
    /\ UNCHANGED <<freezeVars, backed>>

\* exec, backed by a quorum when two thirds have approved this proposal and
\* none of its approvals has served for an execution before
ByQuorum(i) ==
    3 * Cardinality({p \in producers : <<i, p>> \in given}) > 2 * Cardinality(producers)
CallExec(i) ==
    /\ M!Exec(i)
    /\ backed' = IF ByQuorum(i) THEN backed \cup {<<i, proposals[i].trx>>} ELSE backed
    /\ UNCHANGED <<freezeVars, reviewed>>

\* A deferred transaction runs: its action succeeds, or it fails and changes
\* nothing, or it is too late. It is not tried again.
Unlocks(trx) ==
    /\ trx[1] = "unlock" /\ Unlock(trx[2])
    /\ reviewed' = [reviewed EXCEPT ![trx[2]] = {}]
Activates(trx) == trx[1] = "actfreezed" /\ ActFreezed(trx[2]) /\ UNCHANGED reviewed
Fails(trx) ==
    /\ ~NotActivated \/ freezedstat[trx[2]].state # "locked"
    /\ UNCHANGED <<freezeVars, reviewed>>
RunDeferred(i) ==
    /\ M!Runs(i)
    /\ LET trx == deferred[i].trx
       IN  /\ Unlocks(trx) \/ Activates(trx) \/ Fails(trx)
           /\ backed' = backed \ {<<i, trx>>}
DropExpired(i) ==
    /\ M!Take(i) /\ deferred[i].expiration < time
    /\ backed' = backed \ {<<i, deferred[i].trx>>}
    /\ UNCHANGED <<freezeVars, reviewed>>

CallFreeze == AccountNext /\ UNCHANGED <<queueVars, reviewed, backed>>

SystemStep ==
    \/ CallFreeze
    \/ CallMsig \/ CallApprove
    \/ \E i \in Proposal : CallExec(i) \/ RunDeferred(i) \/ DropExpired(i)

SystemSpec == SystemInit /\ [][SystemStep]_systemVars

-----------------------------------------------------------------------------
\* What the contract eosio.msig promises for any transactions.
ExecutedByQuorum == M!ExecutedByQuorum

\* Producers review a table once it is locked and approve its activation
\* (README.md of eosio.freeze): from then on, whoever calls what meanwhile,
\* and after the activation but for the accounts released, it is the table
\* they reviewed, unless they have it unlocked by another proposal.
ReviewedTableKept ==
    \A c \in Committer :
        /\ NotActivated => reviewed[c] \subseteq {freezed[c]}
        /\ \A accounts \in reviewed[c] : freezed[c] \subseteq accounts

\* Only the table of a proposal that a quorum has executed is unlocked or put
\* in force, and one set of approvals does that at most once: exec erases
\* what it has scheduled (eosio.msig.cpp:190-193), and what has run, failed
\* or expired does not run again.
SystemActsOnce ==
    [][\A c \in Committer :
         freezedstat[c].state = "locked" /\ freezedstat'[c].state # "locked" =>
            \E i \in Proposal :
               <<i, <<IF freezedstat'[c].state = "actived" THEN "actfreezed" ELSE "unlock", c>>>>
                  \in backed \ backed']_systemVars
=============================================================================
