------------------------------- MODULE Pledge -------------------------------
(***************************************************************************)
(* eosio.pledge: accounts pledge core tokens under a pledge type; the      *)
(* deduction account of the type takes from a pledge, beyond what it holds *)
(* if need be, and allots what was taken as rewards. The tokens themselves *)
(* are one balance of the core token, the contract's, that withdraw and    *)
(* getreward pay from: nothing but the tables says whose they are.         *)
(* Every pledge type has the core symbol, the only one a transfer can add. *)
(***************************************************************************)
EXTENDS Integers, Sequences, FiniteSets, Functions

CONSTANTS
    Account,     \* pledgers and rewarders
    PledgeType,  \* names a pledge type can have
    Genesis,     \* core tokens each account starts with
    Quantities,  \* amounts offered to the calls
    Rewarders,   \* lists of rewarders dealreward is called with
    Amendments,  \* rows amendpledge is called with
    MaxDebt,     \* bound: how far below zero deductions take a pledge
    MaxGrant     \* bound: what amendments add to, or take from, the claims

ASSUME AccountAssumption == IsFiniteSet(Account) /\ IsFiniteSet(PledgeType)
ASSUME AmountAssumption ==
    /\ Genesis \in Nat /\ Quantities \subseteq Int
    /\ MaxDebt \in Nat /\ MaxGrant \in Nat
ASSUME RewarderAssumption == Rewarders \subseteq Seq(Account)
ASSUME AmendmentAssumption == Amendments \subseteq [pledge : Int, deduction : Int]

VARIABLES
    types,      \* rows of pledgetype
    pledges,    \* rows of the pledge tables, by type and pledger
    rewards,    \* rows of the reward tables; no row is a reward of 0
    balance,    \* core tokens of each account
    held,       \* core tokens of eosio.pledge
    granted     \* what amendments have added to the claims on held

vars == <<types, pledges, rewards, balance, held, granted>>

Rows == PledgeType \X Account
NoRow == [open |-> FALSE, pledge |-> 0, deduction |-> 0]
ZeroRow == [open |-> TRUE, pledge |-> 0, deduction |-> 0]

-----------------------------------------------------------------------------
CheckPledgeTypeAny(t) == TRUE
\* check_pledge_typ
CheckPledgeType(t) == t \in types

Least0(n) == IF n < 0 THEN n ELSE 0
Most0(n) == IF n > 0 THEN n ELSE 0

PreAllotIgnoresDebt(row) == row.deduction
\* pre_allot: what was taken from the pledge and had been paid in
PreAllot(row) == row.deduction + Least0(row.pledge)

ReportReward(pre) == pre \div 2
ApproveRewardOfAll(pre, n) == pre \div n
\* The rewarders after the first share the second half of pre.
ApproveReward(pre, n) == pre \div (2 * (n - 1))

\* How often an account is in a list of rewarders.
Times(a, list) == Cardinality({i \in DOMAIN list : list[i] = a})

\* What dealreward assigns to a: the first rewarder gets the report's share
\* less one approval's, and then everybody in the list gets an approval's.
Share(a, list, pre) ==
    (IF a = list[1] THEN ReportReward(pre) - ApproveReward(pre, Len(list)) ELSE 0)
      + Times(a, list) * ApproveReward(pre, Len(list))

\* What is left of a deduction once what the pledger still owes is taken off.
Unspent(row) == row.deduction + Least0(row.pledge)

\* What a row entitles to: the pledger to what is left of the pledge, the
\* rewarders to what was taken from it.
Claims(row) == Most0(row.pledge) + Most0(Unspent(row))

-----------------------------------------------------------------------------
TypeOK ==
    /\ types \subseteq PledgeType
    /\ pledges \in [Rows -> [open : BOOLEAN, pledge : Int, deduction : Int]]
    /\ \A i \in Rows : pledges[i].open => i[1] \in types
    /\ rewards \in [Account -> Nat]
    /\ balance \in [Account -> Nat]
    /\ held \in Nat
    /\ granted \in Int

Init ==
    /\ types = {}
    /\ pledges = [i \in Rows |-> NoRow]
    /\ rewards = [a \in Account |-> 0]
    /\ balance = [a \in Account |-> Genesis]
    /\ held = 0
    /\ granted = 0

\* addtype, by the system account
AddType(t) ==
    /\ t \notin types
    /\ types' = types \cup {t}
    /\ UNCHANGED <<pledges, rewards, balance, held, granted>>

\* A transfer to the contract whose memo names type t, and addpledge which
\* it notifies. The row is created when it is missing.
AddPledge(t, from, quantity) ==
    /\ 0 <= quantity /\ quantity <= balance[from]
    /\ CheckPledgeType(t)
    /\ balance' = [balance EXCEPT ![from] = @ - quantity]
    /\ held' = held + quantity
    /\ pledges' = [pledges EXCEPT
          ![<<t, from>>] = [open |-> TRUE, pledge |-> @.pledge + quantity,
                            deduction |-> @.deduction]]
    /\ UNCHANGED <<types, rewards, granted>>

\* A transfer without a memo: addpledge returns at once.
Donate(from, quantity) ==
    /\ 0 <= quantity /\ quantity <= balance[from]
    /\ balance' = [balance EXCEPT ![from] = @ - quantity]
    /\ held' = held + quantity
    /\ UNCHANGED <<types, pledges, rewards, granted>>

\* deduction, by the deduction account of t
Deduction(t, debitee, quantity) ==
    LET row == pledges[<<t, debitee>>]
    IN  /\ CheckPledgeType(t)
        /\ 0 < quantity
        /\ -MaxDebt <= row.pledge - quantity
        /\ pledges' = [pledges EXCEPT
              ![<<t, debitee>>] = [open |-> TRUE,
                                   pledge |-> row.pledge - quantity,
                                   deduction |-> row.deduction + quantity]]
        /\ UNCHANGED <<types, rewards, balance, held, granted>>

\* withdraw, and the transfer it sends, which fails if the contract is short
Withdraw(t, pledger, quantity) ==
    /\ CheckPledgeType(t)
    /\ pledges[<<t, pledger>>].open
    /\ 0 < quantity /\ quantity < pledges[<<t, pledger>>].pledge
    /\ quantity <= held
    /\ pledges' = [pledges EXCEPT ![<<t, pledger>>].pledge = @ - quantity]
    /\ held' = held - quantity
    /\ balance' = [balance EXCEPT ![pledger] = @ + quantity]
    /\ UNCHANGED <<types, rewards, granted>>

\* getreward pays the whole reward, whatever quantity it is called with.
GetReward(rewarder) ==
    /\ 0 < rewards[rewarder] /\ rewards[rewarder] <= held
    /\ held' = held - rewards[rewarder]
    /\ balance' = [balance EXCEPT ![rewarder] = @ + rewards[rewarder]]
    /\ rewards' = [rewards EXCEPT ![rewarder] = 0]
    /\ UNCHANGED <<types, pledges, granted>>

\* allotreward, by the deduction account of t
AllotReward(t, pledger, rewarder, quantity) ==
    /\ CheckPledgeType(t)
    /\ pledges[<<t, pledger>>].open
    /\ 0 < quantity /\ quantity <= PreAllot(pledges[<<t, pledger>>])
    /\ pledges' = [pledges EXCEPT ![<<t, pledger>>].deduction = @ - quantity]
    /\ rewards' = [rewards EXCEPT ![rewarder] = @ + quantity]
    /\ UNCHANGED <<types, balance, held, granted>>

\* dealreward, by the deduction account of t: the division by twice the
\* number of rewarders after the first aborts the call when there is none.
DealReward(t, pledger, rewarder) ==
    LET pre == PreAllot(pledges[<<t, pledger>>])
    IN  /\ CheckPledgeType(t)
        /\ Len(rewarder) > 1
        /\ pledges[<<t, pledger>>].open
        /\ 0 < pre
        /\ pledges' = [pledges EXCEPT ![<<t, pledger>>].deduction = @ - pre]
        /\ rewards' = [a \in Account |-> rewards[a] + Share(a, rewarder, pre)]
        /\ UNCHANGED <<types, balance, held, granted>>

\* open; for a row that exists it returns and changes nothing
Open(t, payer) ==
    /\ t \in types
    /\ ~pledges[<<t, payer>>].open
    /\ pledges' = [pledges EXCEPT ![<<t, payer>>] = ZeroRow]
    /\ UNCHANGED <<types, rewards, balance, held, granted>>

Close(t, payer) ==
    /\ t \in types
    /\ pledges[<<t, payer>>] = ZeroRow
    /\ pledges' = [pledges EXCEPT ![<<t, payer>>] = NoRow]
    /\ UNCHANGED <<types, rewards, balance, held, granted>>

\* amendpledge, by the contract itself: any amounts at all. granted keeps
\* what this adds to the claims.
AmendPledge(t, pledger, row) ==
    LET amended == [open |-> TRUE, pledge |-> row.pledge, deduction |-> row.deduction]
        change == Claims(amended) - Claims(pledges[<<t, pledger>>])
    IN  /\ pledges[<<t, pledger>>].open
        /\ -MaxGrant <= granted + change /\ granted + change <= MaxGrant
        /\ pledges' = [pledges EXCEPT ![<<t, pledger>>] = amended]
        /\ granted' = granted + change
        /\ UNCHANGED <<types, rewards, balance, held>>

Next ==
    \/ \E from \in Account, q \in Quantities : Donate(from, q)
    \/ \E rewarder \in Account : GetReward(rewarder)
    \/ \E t \in PledgeType :
          \/ AddType(t)
          \/ \E a \in Account :
                \/ Open(t, a)
                \/ Close(t, a)
                \/ \E q \in Quantities :
                      \/ AddPledge(t, a, q)
                      \/ Deduction(t, a, q)
                      \/ Withdraw(t, a, q)
                      \/ \E rewarder \in Account : AllotReward(t, a, rewarder, q)
                \/ \E rewarder \in Rewarders : DealReward(t, a, rewarder)
                \/ \E row \in Amendments : AmendPledge(t, a, row)

Spec == Init /\ [][Next]_vars

-----------------------------------------------------------------------------
\* The contract always holds what pledgers may withdraw, what was taken from
\* them and is not yet allotted, and the rewards nobody has fetched, apart
\* from what amendpledge has promised without a deposit. The one balance
\* pays for all of it, so a reward allotted from a debt, or twice, would be
\* paid with the pledge of somebody else.
Solvent ==
    SumFunction([i \in Rows |-> Claims(pledges[i])]) + SumFunction(rewards)
      <= held + granted

\* No reward was ever allotted out of what a pledger still owes: unless an
\* amendment says so, pre_allot is never negative (eosio.pledge.cpp:139).
DebtIsUnspent == \A i \in Rows : 0 <= Unspent(pledges[i])

\* dealreward gives away all that was taken but for the remainders of its
\* two divisions, and the first rewarder gets half of it, rounded down; what
\* remains is in the contract's balance but on no row, so nobody can claim it.
DealLosesLittle ==
    [][\A t \in PledgeType, a \in Account, list \in Rewarders :
          DealReward(t, a, list) =>
             LET pre == PreAllot(pledges[<<t, a>>])
                 dealt == SumFunction(rewards') - SumFunction(rewards)
             IN  /\ dealt <= pre
                 /\ pre < dealt + Len(list)
                 /\ rewards'[list[1]] - rewards[list[1]] >= pre \div 2]_vars

=============================================================================
