-------------------------------- MODULE Msig --------------------------------
(***************************************************************************)
(* eosio.msig: proposals of a transaction, the approvals they collect, and *)
(* exec, which schedules the transaction when what is left of its          *)
(* approvals after invalidations authorizes it.                            *)
(*                                                                         *)
(* The transactions are opaque here. All of them need the authority of the *)
(* system account, which the chain gives to more than two thirds of its    *)
(* current producers and checks (check_transaction_authorization) when a   *)
(* transaction is proposed and when it is executed, not when the deferred  *)
(* transaction runs: eosio.msig is a privileged account. A permission      *)
(* level is named by its actor.                                            *)
(***************************************************************************)
EXTENDS Integers, FiniteSets

CONSTANTS
    Transaction,   \* what may be proposed
    Proposal,      \* pairs of a proposer and a proposal_name
    Approver,      \* accounts asked for approvals
    Requests,      \* sets of approvers a proposal may name
    Producers,     \* sets of producers the chain may have
    Legacy,        \* rows of "proposal" with approvals in the table of an earlier version
    Proposable,    \* bound: the transactions proposed, with their expirations
    MaxTime        \* bound

VARIABLES
    time,           \* current_time_point(), the same for all actions of a block
    producers,      \* the chain's producers, who hold the system account
    proposals,      \* proposal rows
    approvals,      \* approvals2 rows
    old_approvals,  \* approvals rows, made by an earlier version
    invalidations,  \* last_invalidation_time, 0 without a row
    deferred,       \* scheduled transactions, by sender id
    given           \* history: approvals given, not withdrawn and not invalidated since

msigVars == <<time, producers, proposals, approvals, old_approvals, invalidations,
              deferred, given>>
msigTables == <<proposals, approvals, old_approvals, invalidations>>

ProposalRow == [trx : Transaction, expiration : 0..MaxTime]
Times == 1..MaxTime

\* A function from some subset of D to R
PartialTo(f, D, R) == DOMAIN f \subseteq D /\ \A x \in DOMAIN f : f[x] \in R
With(f, x, row) == [y \in DOMAIN f \cup {x} |-> IF y = x THEN row ELSE f[y]]
Without(f, x) == [y \in DOMAIN f \ {x} |-> f[y]]

\* Every proposal has its approvals in one of the two tables, and no
\* approvals are left without their proposal.
TypeOK ==
    /\ time \in Times /\ producers \in Producers
    /\ PartialTo(proposals, Proposal, ProposalRow)
    /\ DOMAIN proposals = DOMAIN approvals \cup DOMAIN old_approvals
    /\ DOMAIN approvals \cap DOMAIN old_approvals = {}
    /\ \A i \in DOMAIN approvals :
          /\ approvals[i].requested \subseteq Approver
          /\ PartialTo(approvals[i].provided, Approver, Times)
          /\ approvals[i].requested \cap DOMAIN approvals[i].provided = {}
    /\ \A i \in DOMAIN old_approvals :
          /\ old_approvals[i].requested \subseteq Approver
          /\ old_approvals[i].provided \subseteq Approver
    /\ invalidations \in [Approver -> 0..MaxTime]
    /\ PartialTo(deferred, Proposal, ProposalRow)
    /\ given \subseteq Proposal \X Approver

NoRows == [x \in {} |-> x]

\* A chain on which no proposal is open, or one from the earlier version
Init ==
    /\ time = 1 /\ producers \in Producers
    /\ \/ proposals = NoRows /\ old_approvals = NoRows
       \/ \E row \in Legacy :
            /\ proposals = With(NoRows, row.id, [trx |-> row.trx, expiration |-> row.expiration])
            /\ old_approvals = With(NoRows, row.id, [requested |-> row.requested, provided |-> {}])
    /\ approvals = NoRows
    /\ invalidations = [a \in Approver |-> 0]
    /\ deferred = NoRows
    /\ given = {}

-----------------------------------------------------------------------------
\* check_transaction_authorization for a transaction of the system account
Authorized(levels) == 3 * Cardinality(levels \cap producers) > 2 * Cardinality(producers)

Propose(i, trx, expiration, requested) ==
    /\ expiration >= time
    /\ i \notin DOMAIN proposals
    /\ Authorized(requested)
    /\ proposals' = With(proposals, i, [trx |-> trx, expiration |-> expiration])
    /\ approvals' = With(approvals, i, [requested |-> requested, provided |-> NoRows])
    /\ UNCHANGED <<time, producers, old_approvals, invalidations, deferred, given>>

\* approve, with a proposal_hash or without. The hash is that of the packed
\* transaction: header and actions.
ApproveRow(i, level) ==
    \/ /\ i \in DOMAIN approvals
       /\ level \in approvals[i].requested
       /\ approvals' = [approvals EXCEPT ![i] =
            [requested |-> @.requested \ {level}, provided |-> With(@.provided, level, time)]]
       /\ UNCHANGED old_approvals
    \/ /\ i \in DOMAIN old_approvals
       /\ level \in old_approvals[i].requested
       /\ old_approvals' = [old_approvals EXCEPT ![i] =
            [requested |-> @.requested \ {level}, provided |-> @.provided \cup {level}]]
       /\ UNCHANGED approvals

Approve(i, level) ==
    /\ ApproveRow(i, level)
    /\ given' = given \cup {<<i, level>>}
    /\ UNCHANGED <<time, producers, proposals, invalidations, deferred>>

ApproveHash(i, level, row) ==
    /\ i \in DOMAIN proposals /\ proposals[i] = row
    /\ Approve(i, level)

UnapproveKept(i, level) ==
    /\ i \in DOMAIN approvals
    /\ level \in DOMAIN approvals[i].provided
    /\ approvals' = [approvals EXCEPT ![i].requested = @ \cup {level}]
    /\ UNCHANGED old_approvals
UnapproveRow(i, level) ==
    \/ /\ i \in DOMAIN approvals
       /\ level \in DOMAIN approvals[i].provided
       /\ approvals' = [approvals EXCEPT ![i] =
            [requested |-> @.requested \cup {level}, provided |-> Without(@.provided, level)]]
       /\ UNCHANGED old_approvals
    \/ /\ i \in DOMAIN old_approvals
       /\ level \in old_approvals[i].provided
       /\ old_approvals' = [old_approvals EXCEPT ![i] =
            [requested |-> @.requested \cup {level}, provided |-> @.provided \ {level}]]
       /\ UNCHANGED approvals

Unapprove(i, level) ==
    /\ UnapproveRow(i, level)
    /\ given' = given \ {<<i, level>>}
    /\ UNCHANGED <<time, producers, proposals, invalidations, deferred>>

EraseKept(i) == UNCHANGED <<proposals, approvals, old_approvals>>
\* Both rows of a proposal go.
Erase(i) ==
    /\ proposals' = Without(proposals, i)
    /\ approvals' = Without(approvals, i)
    /\ old_approvals' = Without(old_approvals, i)

\* cancel by canceler: the proposer at any time, others once it has expired
Cancel(i, canceler) ==
    /\ i \in DOMAIN proposals
    /\ canceler # i[1] => proposals[i].expiration < time
    /\ Erase(i)
    /\ given' = {g \in given : g[1] # i}
    /\ UNCHANGED <<time, producers, invalidations, deferred>>

CountedSameTime(i) ==
    IF i \in DOMAIN approvals
    THEN {level \in DOMAIN approvals[i].provided :
             invalidations[level] <= approvals[i].provided[level]}
    ELSE {level \in old_approvals[i].provided : invalidations[level] = 0}
\* The approvals exec counts: an invalidation in the same block as an
\* approval undoes it, whichever came first, and in the old table any does.
Counted(i) ==
    IF i \in DOMAIN approvals
    THEN {level \in DOMAIN approvals[i].provided :
             invalidations[level] < approvals[i].provided[level]}
    ELSE {level \in old_approvals[i].provided : invalidations[level] = 0}

\* exec. The chain refuses a second scheduled transaction with one sender id.
\* The approvals given are used up, whatever the tables still hold.
Exec(i) ==
    /\ i \in DOMAIN proposals
    /\ proposals[i].expiration >= time
    /\ Authorized(Counted(i))
    /\ i \notin DOMAIN deferred
    /\ deferred' = With(deferred, i, proposals[i])
    /\ Erase(i)
    /\ given' = {g \in given : g[1] # i}
    /\ UNCHANGED <<time, producers, invalidations>>

Invalidate(account) ==
    /\ invalidations' = [invalidations EXCEPT ![account] = time]
    /\ given' = {g \in given : g[2] # account}
    /\ UNCHANGED <<time, producers, proposals, approvals, old_approvals, deferred>>

-----------------------------------------------------------------------------
(* The chain *)

\* A scheduled transaction is taken off the queue: what it does is up to it.
\* Once expired it is only dropped.
Take(i) ==
    /\ i \in DOMAIN deferred
    /\ deferred' = Without(deferred, i)
    /\ UNCHANGED <<time, producers, msigTables, given>>
Runs(i) == Take(i) /\ deferred[i].expiration >= time

NextBlock ==
    /\ time < MaxTime /\ time' = time + 1
    /\ UNCHANGED <<producers, msigTables, deferred, given>>

\* Another schedule becomes active: the system account has other holders.
ChangeProducers(P) ==
    /\ producers' = P
    /\ UNCHANGED <<time, msigTables, deferred, given>>

Next ==
    \/ \E i \in Proposal :
         \/ \E row \in Proposable, requested \in Requests :
               Propose(i, row.trx, row.expiration, requested)
         \/ \E level \in Approver : Approve(i, level) \/ Unapprove(i, level)
         \/ \E level \in Approver, row \in ProposalRow : ApproveHash(i, level, row)
         \/ \E canceler \in Approver \cup {i[1]} : Cancel(i, canceler)
         \/ Exec(i) \/ Take(i)
    \/ \E account \in Approver : Invalidate(account)
    \/ \E P \in Producers : ChangeProducers(P)
    \/ NextBlock
Spec == Init /\ [][Next]_msigVars

-----------------------------------------------------------------------------
\* Nothing is scheduled unless more than two thirds of the producers of that
\* moment have each approved this very proposal and neither withdrawn that
\* nor invalidated their approvals since (eosio.msig.cpp:162, 174): not the
\* approvals of an earlier proposal of the same name, nor of former producers.
ExecutedByQuorum ==
    [][\A i \in DOMAIN deferred' \ DOMAIN deferred :
         3 * Cardinality({p \in producers : <<i, p>> \in given}) > 2 * Cardinality(producers)
      ]_msigVars
=============================================================================
