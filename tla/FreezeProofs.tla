---------------------------- MODULE FreezeProofs ----------------------------
(***************************************************************************)
(* Theorems of modules Freeze, Msig and FreezeMsig. Of eosio.freeze: its   *)
(* types, that freezed_size counts, that one table at most is activated,   *)
(* that confirmations release accounts one by one, and that the contract   *)
(* implements FreezeList. Of eosio.msig: that a quorum is behind whatever  *)
(* is scheduled. Of both together: that the table in force is the one that *)
(* was reviewed, and that one execution puts in force or unlocks one.      *)
(***************************************************************************)
EXTENDS FreezeMsig, FiniteSetTheorems, TLAPS

FInv == TypeOK /\ SizeIsCount /\ OneActivated

\* The contract starts with no tables.
LEMMA InitFInv == Init => FInv
<1>. SUFFICES ASSUME Init PROVE FInv
  OBVIOUS
<1>1. TypeOK
  BY DEF Init, TypeOK
<1>2. SizeIsCount
  BY FS_EmptySet DEF Init, SizeIsCount
<1>3. OneActivated
  BY CommitterAssumption DEF Init, OneActivated
<1>. QED
  BY <1>1, <1>2, <1>3 DEF FInv

\* The accounts of a table are finitely many.
LEMMA TableFinite ==
    ASSUME TypeOK, NEW c \in Committer
    PROVE  IsFiniteSet(freezed[c]) /\ Cardinality(freezed[c]) \in Nat
<1>1. freezed[c] \subseteq Account
  BY DEF TypeOK
<1>2. IsFiniteSet(freezed[c])
  BY <1>1, AccountAssumption, FS_Subset
<1>. QED
  BY <1>2, FS_CardinalityType

\* addfreezed counts the accounts it adds.
LEMMA AddCounts ==
    ASSUME TypeOK, NEW c \in Committer, NEW accounts \in SUBSET Account
    PROVE  /\ Cardinality(freezed[c] \cup accounts)
                = Cardinality(freezed[c]) + Cardinality(Added(c, accounts))
           /\ Cardinality(Added(c, accounts)) \in Nat
<1>. DEFINE new == Added(c, accounts)
<1>0. new = accounts \ freezed[c]
  BY DEF Added
<1>. HIDE DEF new
<1>1. IsFiniteSet(accounts) /\ IsFiniteSet(new)
  BY <1>0, AccountAssumption, FS_Subset
<1>2. IsFiniteSet(freezed[c])
  BY TableFinite
<1>3. freezed[c] \cap new = {} /\ freezed[c] \cup accounts = freezed[c] \cup new
  BY <1>0
<1>4. Cardinality(freezed[c] \cup new)
        = Cardinality(freezed[c]) + Cardinality(new) - Cardinality(freezed[c] \cap new)
  BY <1>1, <1>2, FS_Union
<1>5. Cardinality(new) \in Nat /\ Cardinality(freezed[c]) \in Nat
  BY <1>1, <1>2, FS_CardinalityType
<1>6. Cardinality(freezed[c] \cap new) = 0
  BY <1>3, FS_EmptySet
<1>7. Cardinality(freezed[c] \cup new) = Cardinality(freezed[c]) + Cardinality(new)
  BY <1>4, <1>5, <1>6
<1>8. freezed[c] \cup accounts = freezed[c] \cup new
  BY <1>3
<1>. QED
  BY <1>5, <1>7, <1>8 DEF new

\* A call that takes one account off a table counts it.
LEMMA RemoveCounts ==
    ASSUME TypeOK, NEW c \in Committer, NEW account \in freezed[c]
    PROVE  /\ Cardinality(freezed[c] \ {account}) = Cardinality(freezed[c]) - 1
           /\ Cardinality(freezed[c]) - 1 \in Nat
<1>1. IsFiniteSet(freezed[c])
  BY TableFinite
<1>2. IsFiniteSet(freezed[c] \ {account})
  BY <1>1, FS_Subset
<1>3. Cardinality(freezed[c] \ {account}) = Cardinality(freezed[c]) - 1
  BY <1>1, FS_RemoveElement
<1>. QED
  BY <1>2, <1>3, FS_CardinalityType

LEMMA AddFreezedFInv ==
    ASSUME FInv, NEW c \in Committer, NEW accounts \in SUBSET Account, AddFreezed(c, accounts)
    PROVE  FInv'
<1>. USE DEF FInv
<1>. DEFINE n == Cardinality(Added(c, accounts))
           row == [state |-> "committing", freezed_size |-> freezedstat[c].freezed_size + n]
<1>1. n \in Nat /\ Cardinality(freezed[c] \cup accounts) = Cardinality(freezed[c]) + n
  BY AddCounts
<1>2. /\ freezed' = [freezed EXCEPT ![c] = freezed[c] \cup accounts]
      /\ freezedstat' = [freezedstat EXCEPT ![c] = row]
      /\ UNCHANGED <<committer, actaccounts>>
      /\ NotActivated
  BY DEF AddFreezed
<1>. HIDE DEF n
<1>3. row \in [state : {"none", "committing", "locked", "actived"}, freezed_size : Nat]
  BY <1>1 DEF TypeOK
<1>4. TypeOK'
  BY <1>2, <1>3 DEF TypeOK
<1>5. SizeIsCount'
  BY <1>1, <1>2 DEF SizeIsCount, TypeOK
<1>6. OneActivated'
  BY <1>2, CommitterAssumption DEF OneActivated, TypeOK, NotActivated
<1>. QED
  BY <1>4, <1>5, <1>6

LEMMA DelFreezedFInv ==
    ASSUME FInv, NEW c \in Committer, NEW account \in Account, DelFreezed(c, account)
    PROVE  FInv'
<1>. USE DEF FInv
<1>1. account \in freezed[c]
  BY DEF DelFreezed
<1>2. /\ Cardinality(freezed[c] \ {account}) = Cardinality(freezed[c]) - 1
      /\ Cardinality(freezed[c]) - 1 \in Nat
  BY <1>1, RemoveCounts
<1>3. /\ freezed' = [freezed EXCEPT ![c] = freezed[c] \ {account}]
      /\ freezedstat' = [freezedstat EXCEPT
            ![c].freezed_size = Cardinality(freezed[c]) - 1]
      /\ UNCHANGED <<committer, actaccounts>>
  BY DEF DelFreezed, SizeIsCount
<1>4. TypeOK'
  BY <1>2, <1>3 DEF TypeOK
<1>5. SizeIsCount'
  BY <1>2, <1>3 DEF SizeIsCount, TypeOK
<1>6. OneActivated'
  BY <1>3 DEF OneActivated, TypeOK
<1>. QED
  BY <1>4, <1>5, <1>6

\* Lock, Unlock and ActFreezed change the state of one table.
LEMMA StateFInv ==
    ASSUME FInv, NEW c \in Committer, Lock(c) \/ Unlock(c) \/ ActFreezed(c)
    PROVE  FInv'
<1>. USE DEF FInv
<1>1. CASE ActFreezed(c)
  <2>1. TypeOK'
    BY <1>1 DEF ActFreezed, TypeOK
  <2>2. SizeIsCount'
    BY <1>1 DEF ActFreezed, SizeIsCount, TypeOK
  <2>3. OneActivated'
    BY <1>1, CommitterAssumption DEF ActFreezed, NotActivated, OneActivated, TypeOK
  <2>. QED
    BY <2>1, <2>2, <2>3
<1>2. ASSUME NEW s \in {"committing", "locked"}, NotActivated,
             freezedstat' = [freezedstat EXCEPT ![c].state = s],
             UNCHANGED <<freezed, committer, actaccounts>>
      PROVE  FInv'
  <2>1. TypeOK'
    BY <1>2 DEF TypeOK
  <2>2. SizeIsCount'
    BY <1>2 DEF SizeIsCount, TypeOK
  <2>3. OneActivated'
    BY <1>2, CommitterAssumption DEF NotActivated, OneActivated, TypeOK
  <2>. QED
    BY <2>1, <2>2, <2>3
<1>3. CASE Lock(c)
  BY <1>2, <1>3 DEF Lock
<1>4. CASE Unlock(c)
  BY <1>2, <1>4 DEF Unlock
<1>. QED
  BY <1>1, <1>3, <1>4

LEMMA ConfirmActFInv ==
    ASSUME FInv, NEW account \in Account, ConfirmAct(account)
    PROVE  FInv'
<1>. QED
  BY DEF FInv, ConfirmAct, TypeOK, SizeIsCount, OneActivated

LEMMA ActConfirmedFInv ==
    ASSUME FInv, NEW account \in Account, ActConfirmed(account)
    PROVE  FInv'
<1>. USE DEF FInv
<1>1. committer \in Committer /\ account \in freezed[committer]
  BY DEF ActConfirmed, NotActivated, TypeOK
<1>2. /\ Cardinality(freezed[committer] \ {account}) = Cardinality(freezed[committer]) - 1
      /\ Cardinality(freezed[committer]) - 1 \in Nat
  BY <1>1, RemoveCounts
<1>3. /\ freezed' = [freezed EXCEPT ![committer] = freezed[committer] \ {account}]
      /\ freezedstat' = [freezedstat EXCEPT
            ![committer].freezed_size = Cardinality(freezed[committer]) - 1]
      /\ actaccounts' = actaccounts \ {account}
      /\ UNCHANGED committer
  BY <1>1 DEF ActConfirmed, SizeIsCount
<1>4. TypeOK'
  BY <1>1, <1>2, <1>3 DEF TypeOK
<1>5. SizeIsCount'
  BY <1>1, <1>2, <1>3 DEF SizeIsCount, TypeOK
<1>6. OneActivated'
  BY <1>1, <1>3 DEF OneActivated, TypeOK
<1>. QED
  BY <1>4, <1>5, <1>6

\* No call of anyone ends it.
LEMMA NextFInv ==
    ASSUME FInv, [Next]_freezeVars
    PROVE  FInv'
<1>1. CASE AccountNext
  <2>1. CASE \E add \in Additions : AddFreezed(add[1], add[2])
    BY <2>1, AddFreezedFInv, AccountAssumption
  <2>2. CASE \E c \in Committer, account \in Account : DelFreezed(c, account)
    BY <2>2, DelFreezedFInv
  <2>3. CASE \E c \in Committer : Lock(c)
    BY <2>3, StateFInv
  <2>4. CASE \E account \in Account : ConfirmAct(account) \/ ActConfirmed(account)
    BY <2>4, ConfirmActFInv, ActConfirmedFInv
  <2>. QED
    BY <1>1, <2>1, <2>2, <2>3, <2>4 DEF AccountNext
<1>2. CASE SystemNext
  BY <1>2, StateFInv DEF SystemNext
<1>3. CASE UNCHANGED freezeVars
  BY <1>3 DEF freezeVars, FInv, TypeOK, SizeIsCount, OneActivated
<1>. QED
  BY <1>1, <1>2, <1>3 DEF Next

\* Every reachable state satisfies the invariant: the types, the counts, and
\* that gfstate and the states of the tables agree.
THEOREM Invariance == Spec => []FInv
<1>. QED
  BY InitFInv, NextFInv, PTL DEF Spec

\* Every reachable state is well typed; freezed_size never wraps.
THEOREM TypeCorrect == Spec => []TypeOK
<1>1. FInv => TypeOK
  BY DEF FInv
<1>. QED
  BY <1>1, Invariance, PTL

\* freezed_size is always the number of accounts in the table.
THEOREM SizeAlwaysCount == Spec => []SizeIsCount
<1>1. FInv => SizeIsCount
  BY DEF FInv
<1>. QED
  BY <1>1, Invariance, PTL

\* At most one table is ever activated, the one gfstate names.
THEOREM OnlyOneActivated == Spec => []OneActivated
<1>1. FInv => OneActivated
  BY DEF FInv
<1>. QED
  BY <1>1, Invariance, PTL

\* Once a list is in force, only actconfirmed changes it.
LEMMA ActivatedStep ==
    ASSUME FInv, Next, ~NotActivated
    PROVE  \E account \in Account : ActConfirmed(account)
<1>. QED
  BY DEF Next, AccountNext, SystemNext, AddFreezed, DelFreezed, Lock, Unlock,
         ActFreezed, ConfirmAct

\* Each account that leaves the list in force uses up its confirmation, and
\* none is given any more.
THEOREM ReleasesAreConfirmed == Spec => ReleasedByConfirmation
<1>. DEFINE Good == ~NotActivated =>
                      /\ actaccounts' \subseteq actaccounts
                      /\ freezed[committer] \ freezed'[committer] = actaccounts \ actaccounts'
<1>1. ASSUME FInv, [Next]_freezeVars
      PROVE  [Good]_freezeVars
  <2>1. CASE UNCHANGED freezeVars
    BY <2>1
  <2>2. CASE Next /\ NotActivated
    BY <2>2
  <2>3. CASE Next /\ ~NotActivated
    <3>1. PICK account \in Account : ActConfirmed(account)
      BY <1>1, <2>3, ActivatedStep
    <3>2. committer \in Committer /\ account \in freezed[committer] /\ account \in actaccounts
      BY <1>1, <3>1 DEF ActConfirmed, NotActivated, FInv, TypeOK
    <3>3. /\ freezed'[committer] = freezed[committer] \ {account}
          /\ actaccounts' = actaccounts \ {account}
      BY <1>1, <3>1, <3>2 DEF ActConfirmed, FInv, TypeOK
    <3>. QED
      BY <3>2, <3>3
  <2>. QED
    BY <1>1, <2>1, <2>2, <2>3
<1>. QED
  BY <1>1, Invariance, PTL DEF Spec, ReleasedByConfirmation

-----------------------------------------------------------------------------
\* A step of the contract puts a list in force, releases an account from it,
\* or does nothing to it.
LEMMA StepImplements ==
    ASSUME FInv, [Next]_freezeVars
    PROVE  [List!Next]_<<~NotActivated, IF NotActivated THEN {} ELSE freezed[committer]>>
<1>. USE DEF List!Next
<1>1. CASE UNCHANGED freezeVars
  BY <1>1 DEF freezeVars, NotActivated
<1>2. CASE Next /\ ~NotActivated
  <2>1. PICK account \in Account : ActConfirmed(account)
    BY <1>2, ActivatedStep
  <2>2. committer \in Committer /\ account \in freezed[committer]
    BY <2>1 DEF ActConfirmed, NotActivated, FInv, TypeOK
  <2>3. freezed'[committer] = freezed[committer] \ {account} /\ UNCHANGED committer
    BY <2>1, <2>2 DEF ActConfirmed, FInv, TypeOK
  <2>. QED
    BY <1>2, <2>2, <2>3 DEF List!Release, NotActivated
<1>3. CASE Next /\ NotActivated /\ committer' = committer
  BY <1>3 DEF NotActivated
<1>4. CASE \E c \in Committer : ActFreezed(c)
  <2>1. PICK c \in Committer : ActFreezed(c)
    BY <1>4
  <2>2. NotActivated /\ committer' = c /\ freezed' = freezed /\ freezed[c] \in SUBSET Account
    BY <2>1 DEF ActFreezed, FInv, TypeOK
  <2>. QED
    BY <2>2, CommitterAssumption DEF List!Enforce, NotActivated
<1>5. Next => committer' = committer \/ \E c \in Committer : ActFreezed(c)
  BY DEF Next, AccountNext, SystemNext, AddFreezed, DelFreezed, Lock, Unlock, ConfirmAct,
         ActConfirmed
<1>. QED
  BY <1>1, <1>2, <1>3, <1>4, <1>5

\* eosio.freeze implements FreezeList, on which the system contract relies:
\* one list is put in force, once, and from then on only shrinks.
THEOREM Implements == Spec => ImplementsFreezeList
<1>1. Init => List!Init
  BY DEF Init, List!Init, NotActivated
<1>. QED
  BY <1>1, StepImplements, Invariance, PTL DEF Spec, ImplementsFreezeList, List!Spec
-----------------------------------------------------------------------------
(* eosio.msig *)

\* What exec counts was given, and is not withdrawn or invalidated. An
\* approval is never from the future, which makes the invalidation of an
\* approval in its own block, or later, count.
Backed ==
    /\ \A i \in DOMAIN approvals : \A level \in DOMAIN approvals[i].provided :
          /\ approvals[i].provided[level] <= time
          /\ invalidations[level] < approvals[i].provided[level] => <<i, level>> \in given
    /\ \A i \in DOMAIN old_approvals : \A level \in old_approvals[i].provided :
          invalidations[level] = 0 => <<i, level>> \in given

QInv == M!TypeOK /\ Backed

LEMMA InitQInv == M!Init => QInv
<1>. SUFFICES ASSUME M!Init PROVE QInv
  OBVIOUS
<1>1. /\ time \in M!Times /\ producers \in Producers /\ time = 1
      /\ DOMAIN approvals = {} /\ DOMAIN deferred = {} /\ given = {}
      /\ invalidations \in [Approver -> 0..MaxTime]
  BY QueueAssumption DEF M!Init, M!Times, M!NoRows
<1>2. CASE proposals = M!NoRows /\ old_approvals = M!NoRows
  BY <1>1, <1>2 DEF QInv, Backed, M!TypeOK, M!PartialTo, M!NoRows
<1>3. ASSUME NEW row \in Legacy,
             proposals = M!With(M!NoRows, row.id, [trx |-> row.trx, expiration |-> row.expiration]),
             old_approvals = M!With(M!NoRows, row.id, [requested |-> row.requested, provided |-> {}])
      PROVE  QInv
  <2>1. /\ row.id \in Proposal /\ row.trx \in Transaction
        /\ row.expiration \in 0..MaxTime /\ row.requested \subseteq Approver
    BY QueueAssumption
  <2>2. /\ DOMAIN proposals = {row.id} /\ proposals[row.id] = [trx |-> row.trx, expiration |-> row.expiration]
        /\ DOMAIN old_approvals = {row.id}
        /\ old_approvals[row.id] = [requested |-> row.requested, provided |-> {}]
    BY <1>3 DEF M!With, M!NoRows
  <2>3. M!PartialTo(proposals, Proposal, M!ProposalRow)
    BY <2>1, <2>2 DEF M!PartialTo, M!ProposalRow
  <2>4. \A i \in DOMAIN old_approvals :
           old_approvals[i].requested \subseteq Approver /\ old_approvals[i].provided = {}
    BY <2>1, <2>2
  <2>. QED
    BY <1>1, <2>2, <2>3, <2>4 DEF QInv, Backed, M!TypeOK, M!PartialTo
<1>. QED
  BY <1>2, <1>3 DEF M!Init

LEMMA ProposeQInv ==
    ASSUME QInv, NEW i \in Proposal, NEW row \in Proposable,
           NEW requested \in Requests, M!Propose(i, row.trx, row.expiration, requested)
    PROVE  QInv'
<1>. DEFINE p == [trx |-> row.trx, expiration |-> row.expiration]
            a == [requested |-> requested, provided |-> M!NoRows]
<1>1. /\ i \notin DOMAIN proposals
      /\ proposals' = M!With(proposals, i, p) /\ approvals' = M!With(approvals, i, a)
      /\ UNCHANGED <<time, producers, old_approvals, invalidations, deferred, given>>
  BY DEF M!Propose
<1>2. p \in M!ProposalRow /\ a.requested \subseteq Approver /\ DOMAIN a.provided = {}
  BY QueueAssumption DEF M!ProposalRow, M!Times, M!NoRows
<1>. HIDE DEF p, a
<1>3. i \notin DOMAIN approvals /\ i \notin DOMAIN old_approvals
  BY <1>1 DEF QInv, M!TypeOK
<1>4. /\ DOMAIN proposals' = DOMAIN proposals \cup {i} /\ proposals'[i] = p
      /\ \A j \in DOMAIN proposals : proposals'[j] = proposals[j]
  BY <1>1 DEF M!With
<1>5. /\ DOMAIN approvals' = DOMAIN approvals \cup {i} /\ approvals'[i] = a
      /\ \A j \in DOMAIN approvals : approvals'[j] = approvals[j]
  BY <1>1, <1>3 DEF M!With
<1>6. M!PartialTo(proposals, Proposal, M!ProposalRow)'
  BY <1>2, <1>4 DEF QInv, M!TypeOK, M!PartialTo, M!ProposalRow
<1>7. \A j \in DOMAIN approvals' :
          /\ approvals'[j].requested \subseteq Approver
          /\ M!PartialTo(approvals'[j].provided, Approver, M!Times)
          /\ approvals'[j].requested \cap DOMAIN approvals'[j].provided = {}
  BY <1>2, <1>5 DEF QInv, M!TypeOK, M!PartialTo
<1>8. M!TypeOK'
  BY <1>1, <1>3, <1>4, <1>5, <1>6, <1>7 DEF QInv, M!TypeOK, M!PartialTo, M!Times, M!ProposalRow
<1>9. Backed'
  BY <1>1, <1>2, <1>5 DEF QInv, Backed
<1>. QED
  BY <1>8, <1>9 DEF QInv

\* A step that changes one row of approvals, and what is given for it.
LEMMA RowChanged ==
    ASSUME QInv, NEW i \in DOMAIN approvals, NEW a, approvals' = [approvals EXCEPT ![i] = a],
           a.requested \subseteq Approver, M!PartialTo(a.provided, Approver, M!Times),
           a.requested \cap DOMAIN a.provided = {},
           \A level \in DOMAIN a.provided :
              /\ a.provided[level] <= time
              /\ invalidations[level] < a.provided[level] => <<i, level>> \in given',
           given' \subseteq Proposal \X Approver,
           \A g \in given : g[1] # i => g \in given',
           UNCHANGED <<time, producers, proposals, old_approvals, invalidations, deferred>>
    PROVE  QInv'
<1>1. /\ DOMAIN approvals' = DOMAIN approvals /\ approvals'[i] = a
      /\ \A j \in DOMAIN approvals \ {i} : approvals'[j] = approvals[j]
  OBVIOUS
<1>2. \A j \in DOMAIN approvals' :
          /\ approvals'[j].requested \subseteq Approver
          /\ M!PartialTo(approvals'[j].provided, Approver, M!Times)
          /\ approvals'[j].requested \cap DOMAIN approvals'[j].provided = {}
  BY <1>1 DEF QInv, M!TypeOK
<1>3. M!TypeOK'
  BY <1>1, <1>2 DEF QInv, M!TypeOK, M!PartialTo, M!Times, M!ProposalRow
<1>4. \A j \in DOMAIN approvals' : \A level \in DOMAIN approvals'[j].provided :
          /\ approvals'[j].provided[level] <= time
          /\ invalidations[level] < approvals'[j].provided[level] => <<j, level>> \in given'
  BY <1>1 DEF QInv, Backed
<1>5. \A j \in DOMAIN old_approvals : j # i
  BY DEF QInv, M!TypeOK
<1>6. \A j \in DOMAIN old_approvals : \A level \in old_approvals[j].provided :
          invalidations[level] = 0 => <<j, level>> \in given'
  BY <1>5 DEF QInv, Backed
<1>. QED
  BY <1>3, <1>4, <1>6 DEF QInv, Backed

\* The same in the table of the earlier version.
LEMMA OldRowChanged ==
    ASSUME QInv, NEW i \in DOMAIN old_approvals, NEW a,
           old_approvals' = [old_approvals EXCEPT ![i] = a],
           a.requested \subseteq Approver, a.provided \subseteq Approver,
           \A level \in a.provided : invalidations[level] = 0 => <<i, level>> \in given',
           given' \subseteq Proposal \X Approver,
           \A g \in given : g[1] # i => g \in given',
           UNCHANGED <<time, producers, proposals, approvals, invalidations, deferred>>
    PROVE  QInv'
<1>1. /\ DOMAIN old_approvals' = DOMAIN old_approvals /\ old_approvals'[i] = a
      /\ \A j \in DOMAIN old_approvals \ {i} : old_approvals'[j] = old_approvals[j]
  OBVIOUS
<1>2. \A j \in DOMAIN old_approvals' :
          /\ old_approvals'[j].requested \subseteq Approver
          /\ old_approvals'[j].provided \subseteq Approver
  BY <1>1 DEF QInv, M!TypeOK
<1>3. M!TypeOK'
  BY <1>1, <1>2 DEF QInv, M!TypeOK, M!PartialTo, M!Times, M!ProposalRow
<1>4. \A j \in DOMAIN old_approvals' : \A level \in old_approvals'[j].provided :
          invalidations[level] = 0 => <<j, level>> \in given'
  BY <1>1 DEF QInv, Backed
<1>5. \A j \in DOMAIN approvals : j # i
  BY DEF QInv, M!TypeOK
<1>6. \A j \in DOMAIN approvals : \A level \in DOMAIN approvals[j].provided :
          /\ approvals[j].provided[level] <= time
          /\ invalidations[level] < approvals[j].provided[level] => <<j, level>> \in given'
  BY <1>5 DEF QInv, Backed
<1>. QED
  BY <1>3, <1>4, <1>6 DEF QInv, Backed

LEMMA ApproveQInv ==
    ASSUME QInv, NEW i \in Proposal, NEW level \in Approver, M!Approve(i, level)
    PROVE  QInv'
<1>1. /\ M!ApproveRow(i, level) /\ given' = given \cup {<<i, level>>}
      /\ UNCHANGED <<time, producers, proposals, invalidations, deferred>>
      /\ given' \subseteq Proposal \X Approver
  BY DEF M!Approve, QInv, M!TypeOK
<1>2. time \in M!Times /\ invalidations \in [Approver -> 0..MaxTime] /\ time <= time
  BY QueueAssumption DEF QInv, M!TypeOK, M!Times
<1>3. ASSUME i \in DOMAIN approvals, level \in approvals[i].requested, UNCHANGED old_approvals,
             approvals' = [approvals EXCEPT ![i] =
                [requested |-> @.requested \ {level}, provided |-> M!With(@.provided, level, time)]]
      PROVE  QInv'
  <2>. DEFINE q == approvals[i].provided
              a == [requested |-> approvals[i].requested \ {level},
                    provided |-> M!With(q, level, time)]
  <2>1. /\ a.requested = approvals[i].requested \ {level}
        /\ DOMAIN a.provided = DOMAIN q \cup {level}
        /\ a.provided[level] = time
        /\ \A l \in DOMAIN q \ {level} : a.provided[l] = q[l]
    BY DEF M!With
  <2>2. approvals' = [approvals EXCEPT ![i] = a]
    BY <1>3
  <2>. HIDE DEF a
  <2>3. /\ a.requested \subseteq Approver /\ M!PartialTo(a.provided, Approver, M!Times)
        /\ a.requested \cap DOMAIN a.provided = {}
    BY <1>2, <1>3, <2>1 DEF QInv, M!TypeOK, M!PartialTo
  <2>4. \A l \in DOMAIN a.provided :
          /\ a.provided[l] <= time
          /\ invalidations[l] < a.provided[l] => <<i, l>> \in given'
    BY <1>1, <1>2, <1>3, <2>1 DEF QInv, Backed
  <2>. QED
    BY <1>1, <1>3, <2>2, <2>3, <2>4, RowChanged
<1>4. ASSUME i \in DOMAIN old_approvals, level \in old_approvals[i].requested, UNCHANGED approvals,
             old_approvals' = [old_approvals EXCEPT ![i] =
                [requested |-> @.requested \ {level}, provided |-> @.provided \cup {level}]]
      PROVE  QInv'
  <2>. DEFINE a == [requested |-> old_approvals[i].requested \ {level},
                    provided |-> old_approvals[i].provided \cup {level}]
  <2>1. /\ a.requested = old_approvals[i].requested \ {level}
        /\ a.provided = old_approvals[i].provided \cup {level}
        /\ old_approvals' = [old_approvals EXCEPT ![i] = a]
    BY <1>4
  <2>. HIDE DEF a
  <2>2. a.requested \subseteq Approver /\ a.provided \subseteq Approver
    BY <1>4, <2>1 DEF QInv, M!TypeOK
  <2>3. \A l \in a.provided : invalidations[l] = 0 => <<i, l>> \in given'
    BY <1>1, <1>4, <2>1 DEF QInv, Backed
  <2>. QED
    BY <1>1, <1>4, <2>1, <2>2, <2>3, OldRowChanged
<1>. QED
  BY <1>1, <1>3, <1>4 DEF M!ApproveRow

LEMMA UnapproveQInv ==
    ASSUME QInv, NEW i \in Proposal, NEW level \in Approver, M!Unapprove(i, level)
    PROVE  QInv'
<1>1. /\ M!UnapproveRow(i, level) /\ given' = given \ {<<i, level>>}
      /\ UNCHANGED <<time, producers, proposals, invalidations, deferred>>
      /\ given' \subseteq Proposal \X Approver
      /\ \A g \in given : g[1] # i => g \in given'
  BY DEF M!Unapprove, QInv, M!TypeOK
<1>2. ASSUME i \in DOMAIN approvals, UNCHANGED old_approvals,
             approvals' = [approvals EXCEPT ![i] =
                [requested |-> @.requested \cup {level}, provided |-> M!Without(@.provided, level)]]
      PROVE  QInv'
  <2>. DEFINE q == approvals[i].provided
              a == [requested |-> approvals[i].requested \cup {level},
                    provided |-> M!Without(q, level)]
  <2>1. /\ a.requested = approvals[i].requested \cup {level}
        /\ DOMAIN a.provided = DOMAIN q \ {level}
        /\ \A l \in DOMAIN q \ {level} : a.provided[l] = q[l]
    BY DEF M!Without
  <2>2. approvals' = [approvals EXCEPT ![i] = a]
    BY <1>2
  <2>. HIDE DEF a
  <2>3. /\ a.requested \subseteq Approver /\ M!PartialTo(a.provided, Approver, M!Times)
        /\ a.requested \cap DOMAIN a.provided = {}
    BY <1>2, <2>1 DEF QInv, M!TypeOK, M!PartialTo
  <2>4. \A l \in DOMAIN a.provided :
          /\ a.provided[l] <= time
          /\ invalidations[l] < a.provided[l] => <<i, l>> \in given'
    BY <1>1, <1>2, <2>1 DEF QInv, Backed
  <2>. QED
    BY <1>1, <1>2, <2>2, <2>3, <2>4, RowChanged
<1>3. ASSUME i \in DOMAIN old_approvals, UNCHANGED approvals,
             old_approvals' = [old_approvals EXCEPT ![i] =
                [requested |-> @.requested \cup {level}, provided |-> @.provided \ {level}]]
      PROVE  QInv'
  <2>. DEFINE a == [requested |-> old_approvals[i].requested \cup {level},
                    provided |-> old_approvals[i].provided \ {level}]
  <2>1. /\ a.requested = old_approvals[i].requested \cup {level}
        /\ a.provided = old_approvals[i].provided \ {level}
        /\ old_approvals' = [old_approvals EXCEPT ![i] = a]
    BY <1>3
  <2>. HIDE DEF a
  <2>2. a.requested \subseteq Approver /\ a.provided \subseteq Approver
    BY <1>3, <2>1 DEF QInv, M!TypeOK
  <2>3. \A l \in a.provided : invalidations[l] = 0 => <<i, l>> \in given'
    BY <1>1, <1>3, <2>1 DEF QInv, Backed
  <2>. QED
    BY <1>1, <1>3, <2>1, <2>2, <2>3, OldRowChanged
<1>. QED
  BY <1>1, <1>2, <1>3 DEF M!UnapproveRow

\* An erased proposal takes its approvals with it.
LEMMA EraseQInv ==
    ASSUME QInv, NEW i \in Proposal, M!Erase(i), given' = {g \in given : g[1] # i},
           UNCHANGED <<time, producers, invalidations>>,
           M!PartialTo(deferred, Proposal, M!ProposalRow)'
    PROVE  QInv'
<1>1. /\ proposals' = M!Without(proposals, i) /\ approvals' = M!Without(approvals, i)
      /\ old_approvals' = M!Without(old_approvals, i) /\ given' = {g \in given : g[1] # i}
  BY DEF M!Erase
<1>2. /\ DOMAIN proposals' = DOMAIN proposals \ {i}
      /\ \A j \in DOMAIN proposals \ {i} : proposals'[j] = proposals[j]
  BY <1>1 DEF M!Without
<1>3. /\ DOMAIN approvals' = DOMAIN approvals \ {i}
      /\ \A j \in DOMAIN approvals \ {i} : approvals'[j] = approvals[j]
  BY <1>1 DEF M!Without
<1>4. /\ DOMAIN old_approvals' = DOMAIN old_approvals \ {i}
      /\ \A j \in DOMAIN old_approvals \ {i} : old_approvals'[j] = old_approvals[j]
  BY <1>1 DEF M!Without
<1>5. M!PartialTo(proposals, Proposal, M!ProposalRow)'
  BY <1>2 DEF QInv, M!TypeOK, M!PartialTo, M!ProposalRow
<1>6. M!TypeOK'
  BY <1>1, <1>2, <1>3, <1>4, <1>5 DEF QInv, M!TypeOK, M!PartialTo, M!Times, M!ProposalRow
<1>7. Backed'
  BY <1>1, <1>3, <1>4 DEF QInv, Backed
<1>. QED
  BY <1>6, <1>7 DEF QInv

LEMMA CancelQInv ==
    ASSUME QInv, NEW i \in Proposal, NEW canceler, M!Cancel(i, canceler)
    PROVE  QInv'
<1>1. /\ M!Erase(i) /\ UNCHANGED <<time, producers, invalidations, deferred>>
      /\ given' = {g \in given : g[1] # i}
      /\ M!PartialTo(deferred, Proposal, M!ProposalRow)
  BY DEF M!Cancel, QInv, M!TypeOK
<1>2. M!PartialTo(deferred, Proposal, M!ProposalRow)'
  BY <1>1 DEF M!PartialTo, M!ProposalRow
<1>. QED
  BY <1>1, <1>2, EraseQInv

LEMMA ExecQInv ==
    ASSUME QInv, NEW i \in Proposal, M!Exec(i)
    PROVE  QInv'
<1>1. /\ i \in DOMAIN proposals /\ i \notin DOMAIN deferred
      /\ deferred' = M!With(deferred, i, proposals[i])
      /\ M!Erase(i) /\ UNCHANGED <<time, producers, invalidations>>
      /\ given' = {g \in given : g[1] # i}
  BY DEF M!Exec
<1>2. /\ DOMAIN deferred' = DOMAIN deferred \cup {i} /\ deferred'[i] = proposals[i]
      /\ \A j \in DOMAIN deferred : deferred'[j] = deferred[j]
  BY <1>1 DEF M!With
<1>3. M!PartialTo(deferred, Proposal, M!ProposalRow)'
  BY <1>1, <1>2 DEF QInv, M!TypeOK, M!PartialTo, M!ProposalRow
<1>. QED
  BY <1>1, <1>3, EraseQInv

LEMMA InvalidateQInv ==
    ASSUME QInv, NEW account \in Approver, M!Invalidate(account)
    PROVE  QInv'
<1>1. /\ invalidations' = [invalidations EXCEPT ![account] = time]
      /\ given' = {g \in given : g[2] # account}
      /\ UNCHANGED <<time, producers, proposals, approvals, old_approvals, deferred>>
      /\ time \in M!Times /\ invalidations \in [Approver -> 0..MaxTime]
  BY DEF M!Invalidate, QInv, M!TypeOK
<1>2. /\ invalidations' \in [Approver -> 0..MaxTime] /\ time > 0
      /\ given' \subseteq Proposal \X Approver
  BY <1>1, QueueAssumption DEF M!Times, QInv, M!TypeOK
<1>3. M!TypeOK'
  BY <1>1, <1>2 DEF QInv, M!TypeOK, M!PartialTo, M!Times, M!ProposalRow
<1>4. Backed'
  <2>1. ASSUME NEW i \in DOMAIN approvals, NEW level \in DOMAIN approvals[i].provided
        PROVE  /\ approvals[i].provided[level] <= time
               /\ invalidations'[level] < approvals[i].provided[level] => <<i, level>> \in given'
    <3>1. level \in Approver /\ approvals[i].provided[level] \in M!Times
      BY DEF QInv, M!TypeOK, M!PartialTo
    <3>2. CASE level = account
      BY <1>1, <2>1, <3>1, <3>2, QueueAssumption DEF QInv, Backed, M!Times
    <3>3. CASE level # account
      BY <1>1, <2>1, <3>1, <3>3 DEF QInv, Backed
    <3>. QED
      BY <3>2, <3>3
  <2>2. ASSUME NEW i \in DOMAIN old_approvals, NEW level \in old_approvals[i].provided,
               invalidations'[level] = 0
        PROVE  <<i, level>> \in given'
    <3>1. level \in Approver
      BY DEF QInv, M!TypeOK
    <3>2. level # account /\ invalidations[level] = 0
      BY <1>1, <1>2, <2>2, <3>1
    <3>. QED
      BY <1>1, <3>2 DEF QInv, Backed
  <2>. QED
    BY <1>1, <2>1, <2>2 DEF Backed
<1>. QED
  BY <1>3, <1>4 DEF QInv

LEMMA TakeQInv ==
    ASSUME QInv, NEW i \in Proposal, M!Take(i)
    PROVE  QInv'
<1>1. /\ deferred' = M!Without(deferred, i)
      /\ UNCHANGED <<time, producers, proposals, approvals, old_approvals, invalidations, given>>
  BY DEF M!Take, M!msigTables
<1>2. M!PartialTo(deferred, Proposal, M!ProposalRow)'
  BY <1>1 DEF QInv, M!TypeOK, M!PartialTo, M!ProposalRow, M!Without
<1>3. M!TypeOK'
  BY <1>1, <1>2 DEF QInv, M!TypeOK, M!PartialTo, M!Times, M!ProposalRow
<1>. QED
  BY <1>1, <1>3 DEF QInv, Backed

\* Time goes on, and the schedule changes.
LEMMA ChainQInv ==
    ASSUME QInv, M!NextBlock \/ (\E P \in Producers : M!ChangeProducers(P))
                 \/ UNCHANGED M!msigVars
    PROVE  QInv'
<1>1. /\ UNCHANGED <<proposals, approvals, old_approvals, invalidations, deferred, given>>
      /\ time' \in M!Times /\ producers' \in Producers /\ time' >= time /\ time \in M!Times
  BY QueueAssumption
     DEF M!NextBlock, M!ChangeProducers, M!msigTables, M!msigVars, QInv, M!TypeOK, M!Times
<1>2. M!TypeOK'
  BY <1>1 DEF QInv, M!TypeOK, M!PartialTo, M!Times, M!ProposalRow
<1>3. ASSUME NEW i \in DOMAIN approvals, NEW level \in DOMAIN approvals[i].provided
      PROVE  approvals[i].provided[level] <= time'
  <2>1. approvals[i].provided[level] <= time /\ approvals[i].provided[level] \in M!Times
    BY DEF QInv, Backed, M!TypeOK, M!PartialTo
  <2>. QED
    BY <1>1, <2>1, QueueAssumption DEF M!Times
<1>4. Backed'
  BY <1>1, <1>3 DEF QInv, Backed
<1>. QED
  BY <1>2, <1>4 DEF QInv

LEMMA NextQInv ==
    ASSUME QInv, [M!Next]_M!msigVars
    PROVE  QInv'
<1>1. ASSUME NEW i \in Proposal,
             \/ \E row \in Proposable, requested \in Requests :
                   M!Propose(i, row.trx, row.expiration, requested)
             \/ \E level \in Approver : M!Approve(i, level) \/ M!Unapprove(i, level)
             \/ \E level \in Approver, row \in M!ProposalRow : M!ApproveHash(i, level, row)
             \/ \E canceler \in Approver \cup {i[1]} : M!Cancel(i, canceler)
             \/ M!Exec(i) \/ M!Take(i)
      PROVE  QInv'
  <2>1. \A level \in Approver : \A row \in M!ProposalRow :
           M!ApproveHash(i, level, row) => M!Approve(i, level)
    BY DEF M!ApproveHash
  <2>. QED
    BY <1>1, <2>1, ProposeQInv, ApproveQInv, UnapproveQInv, CancelQInv, ExecQInv, TakeQInv
<1>2. CASE \E account \in Approver : M!Invalidate(account)
  BY <1>2, InvalidateQInv
<1>3. CASE M!NextBlock \/ (\E P \in Producers : M!ChangeProducers(P)) \/ UNCHANGED M!msigVars
  BY <1>3, ChainQInv
<1>. QED
  BY <1>1, <1>2, <1>3 DEF M!Next

\* What eosio.msig promises, for any caller.
THEOREM QueueInvariance == M!Spec => []QInv
<1>. QED
  BY InitQInv, NextQInv, PTL DEF M!Spec

\* The instance of eosio.msig counts as this module does.
LEMMA SameCardinality == \A S : M!Cardinality(S) = Cardinality(S)
<1>. QED
  BY DEF M!Cardinality, Cardinality

\* exec adds to the queue; nothing else does.
LEMMA OnlyExecSchedules ==
    ASSUME QInv, [M!Next]_M!msigVars, NEW i \in DOMAIN deferred' \ DOMAIN deferred
    PROVE  M!Exec(i)
<1>1. ~UNCHANGED deferred
  OBVIOUS
<1>2. PICK j \in Proposal : M!Exec(j) \/ M!Take(j)
  BY <1>1 DEF M!Next, M!Propose, M!Approve, M!Unapprove, M!ApproveHash, M!Cancel, M!Invalidate,
     M!NextBlock, M!ChangeProducers, M!msigVars
<1>3. CASE M!Exec(j)
  <2>1. DOMAIN deferred' = DOMAIN deferred \cup {j}
    BY <1>3 DEF M!Exec, M!With
  <2>. QED
    BY <1>3, <2>1
<1>4. CASE M!Take(j)
  BY <1>4 DEF M!Take, M!Without
<1>. QED
  BY <1>2, <1>3, <1>4

\* What exec counts is among the approvals given, so these are a quorum too.
LEMMA ExecByQuorum ==
    ASSUME QInv, NEW i \in Proposal, M!Exec(i)
    PROVE  3 * Cardinality({p \in producers : <<i, p>> \in given}) > 2 * Cardinality(producers)
<1>. DEFINE all == {p \in producers : <<i, p>> \in given}
            counted == M!Counted(i) \cap producers
<1>1. i \in DOMAIN proposals /\ M!Authorized(M!Counted(i))
  BY DEF M!Exec
<1>2. M!Counted(i) \subseteq {level \in M!Counted(i) : <<i, level>> \in given}
  BY <1>1 DEF M!Counted, QInv, Backed, M!TypeOK
<1>3. counted \subseteq all
  BY <1>2
<1>4. IsFiniteSet(producers)
  BY QueueAssumption DEF QInv, M!TypeOK
<1>5. IsFiniteSet(all) /\ all \subseteq producers
  BY <1>4, FS_Subset
<1>. HIDE DEF all, counted
<1>6. Cardinality(counted) <= Cardinality(all) /\ IsFiniteSet(counted)
  BY <1>3, <1>5, FS_Subset
<1>7. Cardinality(counted) \in Nat /\ Cardinality(all) \in Nat /\ Cardinality(producers) \in Nat
  BY <1>4, <1>5, <1>6, FS_CardinalityType
<1>8. 3 * Cardinality(counted) > 2 * Cardinality(producers)
  <2>1. counted = M!Counted(i) \cap producers
    BY DEF counted
  <2>. QED
    BY <1>1, <2>1, SameCardinality DEF M!Authorized
<1>9. 3 * Cardinality(all) > 2 * Cardinality(producers)
  BY <1>6, <1>7, <1>8
<1>. QED
  BY <1>9 DEF all

\* Nothing is scheduled without the approvals of two thirds of the producers
\* of the moment that are given and neither withdrawn nor invalidated.
THEOREM AlwaysByQuorum == M!Spec => M!ExecutedByQuorum
<1>. DEFINE Good == \A i \in DOMAIN deferred' \ DOMAIN deferred :
               3 * M!Cardinality({p \in producers : <<i, p>> \in given}) > 2 * M!Cardinality(producers)
<1>1. ASSUME QInv, [M!Next]_M!msigVars, NEW i \in DOMAIN deferred' \ DOMAIN deferred
      PROVE  3 * M!Cardinality({p \in producers : <<i, p>> \in given}) > 2 * M!Cardinality(producers)
  <2>1. M!Exec(i)
    BY <1>1, OnlyExecSchedules
  <2>2. i \in Proposal
    BY <1>1, <2>1 DEF M!Exec, QInv, M!TypeOK, M!PartialTo
  <2>. QED
    BY <1>1, <2>1, <2>2, ExecByQuorum, SameCardinality
<1>2. ASSUME QInv, [M!Next]_M!msigVars
      PROVE  [Good]_M!msigVars
  BY <1>1, <1>2
<1>. QED
  BY <1>2, QueueInvariance, PTL DEF M!Spec, M!ExecutedByQuorum

-----------------------------------------------------------------------------
(* The two contracts together *)

\* A table is reviewed once it is locked, and stays locked until it is
\* unlocked, which discards the review, or activated.
ReviewedLocked ==
    \A c \in Committer : reviewed[c] # {} => freezedstat[c].state \in {"locked", "actived"}

\* All that is scheduled had a quorum's approvals, none of them used before.
QueueBacked ==
    /\ backed \subseteq Proposal \X Transaction
    /\ \A i \in DOMAIN deferred : <<i, deferred[i].trx>> \in backed

SystemInv ==
    /\ FInv /\ QInv /\ QueueBacked
    /\ reviewed \in [Committer -> SUBSET SUBSET Account]
    /\ ReviewedTableKept /\ ReviewedLocked

\* The transactions of the queue are of the kinds proposed.
LEMMA DeferredIs ==
    ASSUME QInv, NEW i \in DOMAIN deferred
    PROVE  /\ deferred[i].trx \in {"unlock", "actfreezed"} \X Committer
           /\ deferred[i].trx[2] \in Committer
           /\ deferred[i].trx = <<deferred[i].trx[1], deferred[i].trx[2]>>
<1>1. deferred[i].trx \in {"unlock", "actfreezed"} \X Committer
  BY TransactionAssumption DEF QInv, M!TypeOK, M!PartialTo, M!ProposalRow
<1>. QED
  BY <1>1

\* The system makes only steps of eosio.freeze, and only those that an
\* account may call, or that a deferred transaction makes.
LEMMA FreezeSteps ==
    ASSUME QInv, [SystemStep]_systemVars
    PROVE  \/ AccountNext /\ UNCHANGED <<queueVars, reviewed>>
           \/ \E i \in Proposal : RunDeferred(i) /\ deferred[i].trx[2] \in Committer
           \/ /\ UNCHANGED freezeVars
              /\ CallMsig \/ CallApprove \/ \E i \in Proposal : CallExec(i) \/ DropExpired(i)
           \/ UNCHANGED systemVars
<1>1. ASSUME NEW i \in Proposal, RunDeferred(i)
      PROVE  deferred[i].trx[2] \in Committer
  BY <1>1, DeferredIs DEF RunDeferred, M!Runs, M!Take
<1>. QED
  BY <1>1 DEF SystemStep, CallFreeze, CallMsig, CallApprove, CallExec, DropExpired

LEMMA RunIsNext ==
    ASSUME NEW i, RunDeferred(i), deferred[i].trx[2] \in Committer
    PROVE  [Next]_freezeVars
<1>. QED
  BY DEF RunDeferred, Unlocks, Activates, Fails, Next, SystemNext

LEMMA SystemIsFreeze ==
    ASSUME QInv, [SystemStep]_systemVars
    PROVE  [Next]_freezeVars
<1>1. CASE AccountNext
  BY <1>1 DEF Next
<1>2. CASE \E i \in Proposal : RunDeferred(i) /\ deferred[i].trx[2] \in Committer
  BY <1>2, RunIsNext
<1>3. CASE UNCHANGED systemVars
  BY <1>3 DEF systemVars
<1>. QED
  BY <1>1, <1>2, <1>3, FreezeSteps

\* The system makes only steps of eosio.msig and the chain.
LEMMA SystemIsMsig ==
    ASSUME [SystemStep]_systemVars
    PROVE  [M!Next]_M!msigVars
<1>1. CASE CallFreeze \/ UNCHANGED systemVars
  BY <1>1 DEF CallFreeze, systemVars, queueVars, M!msigVars
<1>2. CASE CallMsig
  BY <1>2 DEF CallMsig, MsigCall, M!Next
<1>3. CASE CallApprove
  BY <1>3 DEF CallApprove, M!Next
<1>4. CASE \E i \in Proposal : CallExec(i) \/ RunDeferred(i) \/ DropExpired(i)
  BY <1>4 DEF CallExec, RunDeferred, DropExpired, M!Runs, M!Next
<1>. QED
  BY <1>1, <1>2, <1>3, <1>4 DEF SystemStep

LEMMA SystemInitInv == SystemInit => SystemInv
<1>. SUFFICES ASSUME SystemInit PROVE SystemInv
  OBVIOUS
<1>1. FInv /\ QInv
  BY InitFInv, InitQInv DEF SystemInit
<1>2. /\ reviewed \in [Committer -> SUBSET SUBSET Account]
      /\ \A c \in Committer : reviewed[c] = {}
  BY DEF SystemInit
<1>3. QueueBacked
  BY DEF SystemInit, M!Init, M!NoRows, QueueBacked
<1>. QED
  BY <1>1, <1>2, <1>3 DEF SystemInv, ReviewedTableKept, ReviewedLocked

\* A call of eosio.freeze changes no locked table, and releases from an
\* activated one.
LEMMA AccountKeepsReviewed ==
    ASSUME SystemInv, AccountNext, UNCHANGED reviewed
    PROVE  ReviewedTableKept' /\ ReviewedLocked'
<1>. USE DEF SystemInv, FInv
<1>1. ASSUME NEW add \in Additions, AddFreezed(add[1], add[2])
      PROVE  ReviewedTableKept' /\ ReviewedLocked'
  <2>1. add[1] \in Committer
    BY AccountAssumption
  <2>2. \A c \in Committer : reviewed[c] # {} =>
           c # add[1] /\ freezed'[c] = freezed[c] /\ freezedstat'[c] = freezedstat[c]
    BY <1>1, <2>1 DEF AddFreezed, ReviewedLocked, TypeOK
  <2>. QED
    BY <1>1, <2>2 DEF AddFreezed, ReviewedTableKept, ReviewedLocked, NotActivated
<1>2. ASSUME NEW d \in Committer, NEW account \in Account, DelFreezed(d, account)
      PROVE  ReviewedTableKept' /\ ReviewedLocked'
  <2>1. \A c \in Committer : reviewed[c] # {} =>
           c # d /\ freezed'[c] = freezed[c] /\ freezedstat'[c] = freezedstat[c]
    BY <1>2 DEF DelFreezed, ReviewedLocked, TypeOK
  <2>. QED
    BY <1>2, <2>1 DEF DelFreezed, ReviewedTableKept, ReviewedLocked, NotActivated
<1>3. ASSUME NEW d \in Committer, Lock(d)
      PROVE  ReviewedTableKept' /\ ReviewedLocked'
  <2>1. \A c \in Committer : reviewed[c] # {} => c # d /\ freezedstat'[c] = freezedstat[c]
    BY <1>3 DEF Lock, ReviewedLocked, TypeOK
  <2>. QED
    BY <1>3, <2>1 DEF Lock, ReviewedTableKept, ReviewedLocked, NotActivated
<1>4. ASSUME NEW account \in Account, ConfirmAct(account)
      PROVE  ReviewedTableKept' /\ ReviewedLocked'
  BY <1>4 DEF ConfirmAct, ReviewedTableKept, ReviewedLocked, NotActivated
<1>5. ASSUME NEW account \in Account, ActConfirmed(account)
      PROVE  ReviewedTableKept' /\ ReviewedLocked'
  <2>1. committer \in Committer /\ ~NotActivated /\ committer' = committer
    BY <1>5 DEF ActConfirmed, NotActivated, TypeOK
  <2>2. \A c \in Committer : freezed'[c] \subseteq freezed[c]
    BY <1>5, <2>1 DEF ActConfirmed, TypeOK
  <2>3. \A c \in Committer : freezedstat'[c].state = freezedstat[c].state
    BY <1>5, <2>1 DEF ActConfirmed, TypeOK
  <2>4. ReviewedTableKept'
    BY <2>1, <2>2 DEF ReviewedTableKept, NotActivated
  <2>. QED
    BY <2>3, <2>4 DEF ReviewedLocked
<1>. QED
  BY <1>1, <1>2, <1>3, <1>4, <1>5 DEF AccountNext

\* A deferred transaction unlocks or activates a table, which is as it was.
LEMMA RunKeepsReviewed ==
    ASSUME SystemInv, NEW i \in Proposal, RunDeferred(i), deferred[i].trx[2] \in Committer
    PROVE  /\ ReviewedTableKept' /\ ReviewedLocked'
           /\ reviewed' \in [Committer -> SUBSET SUBSET Account]
<1>. USE DEF SystemInv, FInv
<1>. DEFINE trx == deferred[i].trx
            d == trx[2]
<1>1. CASE Unlocks(trx)
  <2>1. /\ NotActivated /\ committer' = committer /\ freezed' = freezed
        /\ freezedstat' = [freezedstat EXCEPT ![d].state = "committing"]
        /\ reviewed' = [reviewed EXCEPT ![d] = {}]
    BY <1>1 DEF Unlocks, Unlock
  <2>2. \A c \in Committer : reviewed'[c] # {} =>
           reviewed'[c] = reviewed[c] /\ freezedstat'[c] = freezedstat[c]
    BY <2>1 DEF TypeOK
  <2>3. reviewed' \in [Committer -> SUBSET SUBSET Account]
    BY <2>1
  <2>4. \A c \in Committer : reviewed'[c] \subseteq reviewed[c]
    BY <2>1
  <2>. QED
    BY <2>1, <2>2, <2>3, <2>4 DEF ReviewedTableKept, ReviewedLocked, NotActivated
<1>2. CASE Activates(trx)
  <2>1. /\ NotActivated /\ committer' = d /\ freezed' = freezed /\ reviewed' = reviewed
        /\ freezedstat' = [freezedstat EXCEPT ![d].state = "actived"]
    BY <1>2 DEF Activates, ActFreezed
  <2>2. \A c \in Committer : freezedstat'[c].state \in {freezedstat[c].state, "actived"}
    BY <2>1 DEF TypeOK
  <2>3. ~NotActivated'
    BY <2>1, CommitterAssumption DEF NotActivated
  <2>. QED
    BY <2>1, <2>2, <2>3 DEF ReviewedTableKept, ReviewedLocked
<1>3. CASE Fails(trx)
  BY <1>3 DEF Fails, freezeVars, ReviewedTableKept, ReviewedLocked, NotActivated
<1>. QED
  BY <1>1, <1>2, <1>3 DEF RunDeferred

\* An approval reviews the table of an activation if that is locked.
LEMMA ApproveKeepsReviewed ==
    ASSUME SystemInv, CallApprove
    PROVE  /\ ReviewedTableKept' /\ ReviewedLocked'
           /\ reviewed' \in [Committer -> SUBSET SUBSET Account]
<1>. USE DEF SystemInv, FInv
<1>1. PICK i \in Proposal, level \in Approver : M!Approve(i, level) /\ Review(i)
  BY DEF CallApprove, M!ApproveHash
<1>2. UNCHANGED freezeVars
  BY DEF CallApprove
<1>3. i \in DOMAIN proposals
  BY <1>1 DEF M!Approve, M!ApproveRow, QInv, M!TypeOK
<1>. DEFINE d == proposals[i].trx[2]
<1>4. d \in Committer
  BY <1>3, TransactionAssumption DEF QInv, M!TypeOK, M!PartialTo, M!ProposalRow
<1>5. CASE freezedstat[d].state = "locked" /\ reviewed' = [reviewed EXCEPT ![d] = @ \cup {freezed[d]}]
  <2>1. /\ reviewed'[d] = reviewed[d] \cup {freezed[d]}
        /\ \A c \in Committer \ {d} : reviewed'[c] = reviewed[c]
    BY <1>4, <1>5
  <2>2. freezed[d] \in SUBSET Account
    BY <1>4 DEF TypeOK
  <2>3. reviewed' \in [Committer -> SUBSET SUBSET Account]
    BY <1>4, <1>5, <2>2
  <2>4. ReviewedTableKept'
    BY <1>2, <2>1 DEF freezeVars, ReviewedTableKept, NotActivated
  <2>5. ReviewedLocked'
    BY <1>2, <1>5, <2>1 DEF freezeVars, ReviewedLocked
  <2>. QED
    BY <2>3, <2>4, <2>5
<1>6. CASE reviewed' = reviewed
  BY <1>2, <1>6 DEF freezeVars, ReviewedTableKept, ReviewedLocked, NotActivated
<1>. QED
  BY <1>1, <1>5, <1>6 DEF Review

\* exec adds to the queue by a quorum, and what leaves the queue is backed
\* no more.
LEMMA QueueStaysBacked ==
    ASSUME QInv, QueueBacked, [SystemStep]_systemVars
    PROVE  QueueBacked'
<1>1. ASSUME NEW i \in Proposal, CallExec(i)
      PROVE  QueueBacked'
  <2>1. backed' = backed \cup {<<i, proposals[i].trx>>}
    BY <1>1, ExecByQuorum DEF CallExec, ByQuorum
  <2>2. /\ i \in DOMAIN proposals /\ proposals[i].trx \in Transaction
        /\ deferred' = M!With(deferred, i, proposals[i])
    BY <1>1 DEF CallExec, M!Exec, QInv, M!TypeOK, M!PartialTo, M!ProposalRow
  <2>3. /\ DOMAIN deferred' = DOMAIN deferred \cup {i}
        /\ \A j \in DOMAIN deferred' :
              deferred'[j] = IF j = i THEN proposals[i] ELSE deferred[j]
    BY <2>2 DEF M!With
  <2>4. \A j \in DOMAIN deferred' : <<j, deferred'[j].trx>> \in backed'
    BY <2>1, <2>3 DEF QueueBacked
  <2>. QED
    BY <2>1, <2>2, <2>4 DEF QueueBacked
<1>2. ASSUME NEW i \in Proposal, RunDeferred(i) \/ DropExpired(i)
      PROVE  QueueBacked'
  <2>1. M!Take(i) /\ backed' = backed \ {<<i, deferred[i].trx>>}
    BY <1>2 DEF RunDeferred, DropExpired, M!Runs
  <2>2. /\ DOMAIN deferred' = DOMAIN deferred \ {i}
        /\ \A j \in DOMAIN deferred' : deferred'[j] = deferred[j]
    BY <2>1 DEF M!Take, M!Without
  <2>3. \A j \in DOMAIN deferred' : <<j, deferred'[j].trx>> \in backed'
    BY <2>1, <2>2 DEF QueueBacked
  <2>. QED
    BY <2>1, <2>3 DEF QueueBacked
<1>3. CASE CallFreeze \/ CallMsig \/ CallApprove \/ UNCHANGED systemVars
  <2>1. backed' = backed
    BY <1>3 DEF CallFreeze, CallMsig, CallApprove, systemVars
  <2>2. deferred' = deferred
    BY <1>3 DEF CallFreeze, queueVars, CallMsig, MsigCall, CallApprove, M!Propose, M!Unapprove,
       M!Cancel, M!Invalidate, M!ChangeProducers, M!NextBlock, M!Approve, M!ApproveHash, systemVars
  <2>. QED
    BY <2>1, <2>2 DEF QueueBacked
<1>. QED
  BY <1>1, <1>2, <1>3 DEF SystemStep

LEMMA SystemNextInv ==
    ASSUME SystemInv, [SystemStep]_systemVars
    PROVE  SystemInv'
<1>1. FInv' /\ QInv' /\ QueueBacked'
  BY SystemIsFreeze, SystemIsMsig, NextFInv, NextQInv, QueueStaysBacked DEF SystemInv
<1>2. CASE AccountNext /\ UNCHANGED <<queueVars, reviewed>>
  BY <1>1, <1>2, AccountKeepsReviewed DEF SystemInv
<1>3. CASE \E i \in Proposal : RunDeferred(i) /\ deferred[i].trx[2] \in Committer
  BY <1>1, <1>3, RunKeepsReviewed DEF SystemInv
<1>4. CASE CallApprove
  BY <1>1, <1>4, ApproveKeepsReviewed DEF SystemInv
<1>5. CASE UNCHANGED freezeVars /\ UNCHANGED reviewed
  BY <1>1, <1>5 DEF freezeVars, SystemInv, ReviewedTableKept, ReviewedLocked, NotActivated
<1>6. (CallMsig \/ (\E i \in Proposal : CallExec(i) \/ DropExpired(i)) \/ UNCHANGED systemVars)
         => UNCHANGED freezeVars /\ UNCHANGED reviewed
  BY DEF CallMsig, CallExec, DropExpired, systemVars
<1>7. QInv
  BY DEF SystemInv
<1>. QED
  BY <1>2, <1>3, <1>4, <1>5, <1>6, <1>7, FreezeSteps

\* Every reachable state of the two contracts together satisfies the invariant.
THEOREM SystemInvariance == SystemSpec => []SystemInv
<1>. QED
  BY SystemInitInv, SystemNextInv, PTL DEF SystemSpec

\* The tables of both contracts agree: sizes are counts, at most one table is
\* activated, and every proposal has its approvals in one of the two tables.
THEOREM SystemTypeCorrect == SystemSpec => []SystemTypeOK
<1>1. SystemInv => SystemTypeOK
  BY DEF SystemInv, SystemTypeOK, FInv, QInv, QueueBacked
<1>. QED
  BY <1>1, SystemInvariance, PTL

\* The table in force is the one that was reviewed, but for those released.
THEOREM ReviewedTableAlwaysKept == SystemSpec => []ReviewedTableKept
<1>1. SystemInv => ReviewedTableKept
  BY DEF SystemInv
<1>. QED
  BY <1>1, SystemInvariance, PTL

\* Together with the other contract, each of the two does only what it does
\* alone: what is proved of eosio.freeze, and of eosio.msig, holds here.
THEOREM SystemImplementsBoth == SystemSpec => Spec /\ M!Spec
<1>1. SystemInit => Init /\ M!Init
  BY DEF SystemInit
<1>2. SystemInv /\ [SystemStep]_systemVars => [Next]_freezeVars /\ [M!Next]_M!msigVars
  BY SystemIsFreeze, SystemIsMsig DEF SystemInv
<1>. QED
  BY <1>1, <1>2, SystemInvariance, PTL DEF SystemSpec, Spec, M!Spec

\* So accounts are released by confirmations only, the system contract finds
\* the list it expects, and nothing is scheduled without its quorum.
THEOREM SystemReleases == SystemSpec => ReleasedByConfirmation
<1>. QED
  BY SystemImplementsBoth, ReleasesAreConfirmed, PTL
THEOREM SystemImplementsList == SystemSpec => ImplementsFreezeList
<1>. QED
  BY SystemImplementsBoth, Implements, PTL
THEOREM SystemByQuorum == SystemSpec => ExecutedByQuorum
<1>. QED
  BY SystemImplementsBoth, AlwaysByQuorum, PTL DEF ExecutedByQuorum

\* A locked table is unlocked or activated only by a step that runs the
\* transaction for just that, and uses up the backing it has.
LEMMA LeavesLocked ==
    ASSUME SystemInv, [SystemStep]_systemVars, NEW c \in Committer,
           freezedstat[c].state = "locked", freezedstat'[c].state # "locked"
    PROVE  \E i \in Proposal :
              <<i, <<IF freezedstat'[c].state = "actived" THEN "actfreezed" ELSE "unlock", c>>>>
                 \in backed \ backed'
<1>. USE DEF SystemInv, FInv
<1>1. ~AccountNext
  <2>1. \A add \in Additions : AddFreezed(add[1], add[2]) => freezedstat'[c] = freezedstat[c]
    BY AccountAssumption DEF AddFreezed, TypeOK
  <2>2. \A d \in Committer, account \in Account :
           DelFreezed(d, account) => freezedstat'[c].state = freezedstat[c].state
    BY DEF DelFreezed, TypeOK
  <2>3. \A d \in Committer : ~Lock(d)
    BY DEF Lock, TypeOK
  <2>4. \A account \in Account : ~ConfirmAct(account)
    BY DEF ConfirmAct
  <2>5. \A account \in Account : ActConfirmed(account) => freezedstat'[c].state = freezedstat[c].state
    BY DEF ActConfirmed, NotActivated, TypeOK
  <2>. QED
    BY <2>1, <2>2, <2>3, <2>4, <2>5 DEF AccountNext
<1>2. ~UNCHANGED freezeVars
  BY DEF freezeVars
<1>3. PICK i \in Proposal : RunDeferred(i) /\ deferred[i].trx[2] \in Committer
  BY <1>1, <1>2, FreezeSteps DEF systemVars
<1>. DEFINE trx == deferred[i].trx
<1>4. <<i, trx>> \in backed \ backed' /\ trx = <<trx[1], trx[2]>>
  <2>1. i \in DOMAIN deferred /\ backed' = backed \ {<<i, deferred[i].trx>>}
    BY <1>3 DEF RunDeferred, M!Runs, M!Take
  <2>. QED
    BY <2>1, DeferredIs DEF QueueBacked
<1>5. CASE Unlocks(trx)
  <2>1. /\ trx[1] = "unlock" /\ freezedstat' = [freezedstat EXCEPT ![trx[2]].state = "committing"]
    BY <1>5 DEF Unlocks, Unlock
  <2>2. trx[2] = c /\ freezedstat'[c].state = "committing"
    BY <1>3, <2>1 DEF TypeOK
  <2>. QED
    BY <1>4, <2>1, <2>2
<1>6. CASE Activates(trx)
  <2>1. /\ trx[1] = "actfreezed" /\ freezedstat' = [freezedstat EXCEPT ![trx[2]].state = "actived"]
    BY <1>6 DEF Activates, ActFreezed
  <2>2. trx[2] = c /\ freezedstat'[c].state = "actived"
    BY <1>3, <2>1 DEF TypeOK
  <2>. QED
    BY <1>4, <2>1, <2>2
<1>7. ~Fails(trx)
  BY <1>2 DEF Fails
<1>. QED
  BY <1>3, <1>5, <1>6, <1>7 DEF RunDeferred

\* One quorum's approvals unlock or activate one table, once.
THEOREM SystemAlwaysActsOnce == SystemSpec => SystemActsOnce
<1>. DEFINE Good == \A c \in Committer :
              freezedstat[c].state = "locked" /\ freezedstat'[c].state # "locked" =>
                 \E i \in Proposal :
                    <<i, <<IF freezedstat'[c].state = "actived" THEN "actfreezed" ELSE "unlock", c>>>>
                       \in backed \ backed'
<1>1. ASSUME SystemInv, [SystemStep]_systemVars
      PROVE  [Good]_systemVars
  BY <1>1, LeavesLocked
<1>. QED
  BY <1>1, SystemInvariance, PTL DEF SystemSpec, SystemActsOnce
=============================================================================
