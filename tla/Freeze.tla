------------------------------- MODULE Freeze -------------------------------
(***************************************************************************)
(* eosio.freeze: committers prepare and lock tables of accounts, the block *)
(* producers activate one of them, by the authority of the system account, *)
(* and accounts that had confirmed before leave the activated one. Block   *)
(* numbers, memos and who pays for memory are left out.                    *)
(***************************************************************************)
EXTENDS Integers, FiniteSets

CONSTANTS
    Committer,    \* accounts that prepare tables
    Account,      \* accounts that may be frozen
    NoCommitter,  \* gfstate's committer before an activation
    MaxAdded,     \* most accounts in one addfreezed
    Additions     \* committers, and the accounts they may name in a call

ASSUME CommitterAssumption == NoCommitter \notin Committer
ASSUME AccountAssumption ==
    /\ IsFiniteSet(Account) /\ MaxAdded \in Nat
    /\ Additions \subseteq Committer \X SUBSET Account

VARIABLES
    freezedstat,   \* freezedstat rows; a table without one has state "none"
    freezed,       \* the accounts in each committer's table
    committer,     \* gfstate: whose table is activated
    actaccounts    \* accounts that have confirmed to be active

freezeVars == <<freezedstat, freezed, committer, actaccounts>>

TypeOK ==
    /\ freezedstat \in [Committer -> [state : {"none", "committing", "locked", "actived"},
                                      freezed_size : Nat]]
    /\ freezed \in [Committer -> SUBSET Account]
    /\ committer \in Committer \cup {NoCommitter}
    /\ actaccounts \subseteq Account

Init ==
    /\ freezedstat = [c \in Committer |-> [state |-> "none", freezed_size |-> 0]]
    /\ freezed = [c \in Committer |-> {}]
    /\ committer = NoCommitter
    /\ actaccounts = {}

NotActivated == committer = NoCommitter

\* Accounts of the call that the table has not yet
Added(c, accounts) == accounts \ freezed[c]

AddFreezedLocked(c, accounts) ==
    /\ Cardinality(accounts) <= MaxAdded
    /\ NotActivated
    /\ freezed' = [freezed EXCEPT ![c] = @ \cup accounts]
    /\ freezedstat' = [freezedstat EXCEPT
         ![c] = [state |-> IF @.state = "none" THEN "committing" ELSE @.state,
                 freezed_size |-> @.freezed_size + Cardinality(Added(c, accounts))]]
    /\ UNCHANGED <<committer, actaccounts>>
\* addfreezed: makes the committer's row when it is the first call
AddFreezed(c, accounts) ==
    /\ Cardinality(accounts) <= MaxAdded
    /\ NotActivated
    /\ freezedstat[c].state \in {"none", "committing"}
    /\ freezed' = [freezed EXCEPT ![c] = @ \cup accounts]
    /\ freezedstat' = [freezedstat EXCEPT
         ![c] = [state |-> "committing",
                 freezed_size |-> @.freezed_size + Cardinality(Added(c, accounts))]]
    /\ UNCHANGED <<committer, actaccounts>>

\* delfreezed: without a row the table is empty and the call fails
DelFreezed(c, account) ==
    /\ NotActivated
    /\ freezedstat[c].state \in {"none", "committing"}
    /\ account \in freezed[c]
    /\ freezed' = [freezed EXCEPT ![c] = @ \ {account}]
    /\ freezedstat' = [freezedstat EXCEPT ![c].freezed_size = @ - 1]
    /\ UNCHANGED <<committer, actaccounts>>

\* lockfreezed by the committer
Lock(c) ==
    /\ NotActivated
    /\ freezedstat[c].state = "committing"
    /\ freezedstat' = [freezedstat EXCEPT ![c].state = "locked"]
    /\ UNCHANGED <<freezed, committer, actaccounts>>

\* lockfreezed with is_locked = false, by the system account
Unlock(c) ==
    /\ NotActivated
    /\ freezedstat[c].state = "locked"
    /\ freezedstat' = [freezedstat EXCEPT ![c].state = "committing"]
    /\ UNCHANGED <<freezed, committer, actaccounts>>

ActFreezedAgain(c) ==
    /\ freezedstat[c].state = "locked"
    /\ freezedstat' = [freezedstat EXCEPT ![c].state = "actived"]
    /\ committer' = c
    /\ UNCHANGED <<freezed, actaccounts>>
\* actfreezed, by the system account
ActFreezed(c) ==
    /\ NotActivated
    /\ freezedstat[c].state = "locked"
    /\ freezedstat' = [freezedstat EXCEPT ![c].state = "actived"]
    /\ committer' = c
    /\ UNCHANGED <<freezed, actaccounts>>

ConfirmActLate(account) ==
    /\ account \notin actaccounts
    /\ actaccounts' = actaccounts \cup {account}
    /\ UNCHANGED <<freezedstat, freezed, committer>>
\* confirmact
ConfirmAct(account) ==
    /\ NotActivated
    /\ account \notin actaccounts
    /\ actaccounts' = actaccounts \cup {account}
    /\ UNCHANGED <<freezedstat, freezed, committer>>

\* actconfirmed: the confirmation is used up
ActConfirmed(account) ==
    /\ ~NotActivated
    /\ account \in actaccounts
    /\ account \in freezed[committer]
    /\ actaccounts' = actaccounts \ {account}
    /\ freezed' = [freezed EXCEPT ![committer] = @ \ {account}]
    /\ freezedstat' = [freezedstat EXCEPT ![committer].freezed_size = @ - 1]
    /\ UNCHANGED committer

\* What an account may call, and what takes the system account's authority.
AccountNext ==
    \/ \E add \in Additions : AddFreezed(add[1], add[2])
    \/ \E c \in Committer, account \in Account : DelFreezed(c, account)
    \/ \E c \in Committer : Lock(c)
    \/ \E account \in Account : ConfirmAct(account) \/ ActConfirmed(account)
SystemNext == \E c \in Committer : Unlock(c) \/ ActFreezed(c)

Next == AccountNext \/ SystemNext
Spec == Init /\ [][Next]_freezeVars

-----------------------------------------------------------------------------
\* freezed_size, an unsigned counter moved by every call, is the number of
\* accounts in the table, also after one call has named accounts the table
\* had already and others have removed some: it never wraps.
SizeIsCount ==
    \A c \in Committer : freezedstat[c].freezed_size = Cardinality(freezed[c])

\* However many tables have been locked, and in whatever order calls come, at
\* most the one gfstate names is actived (eosio.freeze.cpp:126).
OneActivated ==
    \A c \in Committer : freezedstat[c].state = "actived" <=> c = committer

\* Once a list is in force, an account leaves it only with a confirmation
\* from before that, each of which works once (eosio.freeze.cpp:151, README
\* 2.6): no confirmation is ever added, and one goes with each account.
ReleasedByConfirmation ==
    [][~NotActivated =>
         /\ actaccounts' \subseteq actaccounts
         /\ freezed[committer] \ freezed'[committer] = actaccounts \ actaccounts']_freezeVars

\* eosio.freeze keeps the promise on which the system contract relies.
List == INSTANCE FreezeList WITH
            inForce <- ~NotActivated,
            frozen <- IF NotActivated THEN {} ELSE freezed[committer]
ImplementsFreezeList == List!Spec
=============================================================================
