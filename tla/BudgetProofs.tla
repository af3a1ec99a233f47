---------------------------- MODULE BudgetProofs ----------------------------
(***************************************************************************)
(* Theorems of module Budget: its types, that verdicts are backed by their *)
(* ballots, and that no motion pays more than it asked.                    *)
(***************************************************************************)
EXTENDS Budget, Sums

-----------------------------------------------------------------------------
(* Ids *)

\* A finite, non-empty set of integers has a largest member.
LEMMA LargestExists ==
    ASSUME NEW S \in SUBSET Int, IsFiniteSet(S), S # {}
    PROVE  \E m \in S : \A i \in S : i <= m
<1>. DEFINE Bad == {T \in SUBSET S : T # {} /\ \A m \in T : \E i \in T : ~(i <= m)}
<1>1. SUFFICES ASSUME Bad # {} PROVE FALSE
  OBVIOUS
<1>2. PICK T \in Bad : \A U \in Bad : ~(U \subseteq T /\ U # T)
  <2>1. \A T \in Bad : T \in SUBSET S
    OBVIOUS
  <2>. HIDE DEF Bad
  <2>. QED
    BY <1>1, <2>1, MinimalSubset
<1>3. PICK x \in T : TRUE
  BY <1>2
<1>4. PICK y \in T : ~(y <= x)
  BY <1>2, <1>3
<1>5. x \in Int /\ y \in Int /\ y # x /\ x < y
  BY <1>2, <1>3, <1>4
<1>6. T \ {x} \in SUBSET S /\ T \ {x} # {} /\ T \ {x} # T /\ T \ {x} \subseteq T
  BY <1>2, <1>3, <1>4, <1>5
<1>7. T \ {x} \notin Bad
  <2>. HIDE DEF Bad
  <2>. QED
    BY <1>2, <1>6
<1>8. PICK m \in T \ {x} : \A i \in T \ {x} : i <= m
  BY <1>6, <1>7
<1>9. \A i \in T : i <= m
  BY <1>2, <1>4, <1>5, <1>8
<1>. QED
  BY <1>2, <1>8, <1>9

\* The key of a new row is not in use.
LEMMA KeyIsFree ==
    ASSUME NEW n \in Nat, NEW ids \in SUBSET (0..n)
    PROVE  AvailableKey(ids) \in Nat \ ids
<1>1. CASE ids = {}
  BY <1>1 DEF AvailableKey
<1>2. CASE ids # {}
  <2>1. ids \in SUBSET Int /\ IsFiniteSet(ids)
    <3>1. ids \in SUBSET Nat /\ \A i \in ids : i <= n
      OBVIOUS
    <3>. QED
      BY <3>1, FS_BoundedSetOfNaturals
  <2>. DEFINE top == CHOOSE i \in ids : \A j \in ids : j <= i
  <2>4. \E i \in ids : \A j \in ids : j <= i
    BY <1>2, <2>1, LargestExists
  <2>2. top \in ids /\ \A j \in ids : j <= top
    BY <2>4
  <2>3. AvailableKey(ids) = 1 + top
    BY <1>2 DEF AvailableKey
  <2>. HIDE DEF top
  <2>. QED
    BY <2>2, <2>3
<1>. QED
  BY <1>1, <1>2

-----------------------------------------------------------------------------
(* Ballots *)

GoodBallot(b) ==
    /\ IsBallot(b)
    /\ IsFiniteSet(b.requested) /\ IsFiniteSet(b.approved) /\ IsFiniteSet(b.unapproved)

LEMMA Cardinalities ==
    ASSUME NEW b, GoodBallot(b)
    PROVE  /\ Cardinality(b.requested) \in Nat /\ Cardinality(b.approved) \in Nat
           /\ Cardinality(b.unapproved) \in Nat /\ Size(b) \in Nat
<1>1. /\ Cardinality(b.requested) \in Nat /\ Cardinality(b.approved) \in Nat
      /\ Cardinality(b.unapproved) \in Nat
  BY FS_CardinalityType DEF GoodBallot
<1>. QED
  BY <1>1 DEF Size

\* The integer divisions decide as fractions would.
LEMMA Fractions ==
    ASSUME NEW b, GoodBallot(b)
    PROVE  (Agreed(b) <=> TwoThirds(b)) /\ (Refused(b) <=> OneThird(b))
<1>. DEFINE yes == Cardinality(b.approved)
            no == Cardinality(b.unapproved)
            n == Size(b)
<1>1. yes \in Nat /\ no \in Nat /\ n \in Nat
  BY Cardinalities
<1>2. /\ Agreed(b) <=> yes > (n * 2) \div 3
      /\ Refused(b) <=> no > n \div 3
      /\ TwoThirds(b) <=> 3 * yes > 2 * n
      /\ OneThird(b) <=> 3 * no > 1 * n
  BY DEF Agreed, Refused, TwoThirds, OneThird, Of
<1>. HIDE DEF yes, no, n
<1>3. \A k \in Nat : \A c \in Nat : c > k \div 3 <=> 3 * c > k
  OBVIOUS
<1>4. n * 2 \in Nat /\ n * 2 = 2 * n /\ 1 * n = n
  BY <1>1
<1>5. yes > (n * 2) \div 3 <=> 3 * yes > n * 2
  BY <1>1, <1>3, <1>4
<1>6. no > n \div 3 <=> 3 * no > n
  BY <1>1, <1>3
<1>. QED
  BY <1>2, <1>4, <1>5, <1>6

\* A vote moves a member from one list to another.
LEMMA Yes ==
    ASSUME NEW b, GoodBallot(b), NEW member \in b.requested
    PROVE  /\ GoodBallot(AfterYes(b, member)) /\ Size(AfterYes(b, member)) = Size(b)
           /\ AfterYes(b, member).unapproved = b.unapproved
<1>. DEFINE R == b.requested \ {member}
            T == b.approved \cup {member}
            new == AfterYes(b, member)
<1>1. b \in Ballot /\ member \notin b.approved
  BY DEF GoodBallot, IsBallot
<1>2. R \in SUBSET Member /\ T \in SUBSET Member
  BY <1>1 DEF Ballot
<1>3. new = [b EXCEPT !.requested = R, !.approved = T]
  BY DEF AfterYes
<1>4. new \in Ballot /\ new.requested = R /\ new.approved = T /\ new.unapproved = b.unapproved
  <2>. HIDE DEF R, T, new
  <2>. QED
    BY <1>1, <1>2, <1>3 DEF Ballot
<1>. HIDE DEF new
<1>5. IsFiniteSet(R) /\ Cardinality(R) = Cardinality(b.requested) - 1
  BY FS_RemoveElement DEF GoodBallot
<1>6. IsFiniteSet(T) /\ Cardinality(T) = Cardinality(b.approved) + 1
  BY <1>1, FS_AddElement DEF GoodBallot
<1>7. GoodBallot(new)
  BY <1>1, <1>4, <1>5, <1>6 DEF GoodBallot, IsBallot
<1>8. /\ Cardinality(b.requested) \in Nat /\ Cardinality(b.approved) \in Nat
      /\ Cardinality(b.unapproved) \in Nat
  BY Cardinalities
<1>. HIDE DEF R, T
<1>9. Size(new) = Size(b)
  BY <1>4, <1>5, <1>6, <1>8 DEF Size
<1>. QED
  BY <1>4, <1>7, <1>9 DEF new

LEMMA No ==
    ASSUME NEW b, GoodBallot(b), NEW member \in b.requested
    PROVE  /\ GoodBallot(AfterNo(b, member)) /\ Size(AfterNo(b, member)) = Size(b)
           /\ AfterNo(b, member).approved = b.approved
<1>. DEFINE R == b.requested \ {member}
            T == b.unapproved \cup {member}
            new == AfterNo(b, member)
<1>1. b \in Ballot /\ member \notin b.unapproved
  BY DEF GoodBallot, IsBallot
<1>2. R \in SUBSET Member /\ T \in SUBSET Member
  BY <1>1 DEF Ballot
<1>3. new = [b EXCEPT !.requested = R, !.unapproved = T]
  BY DEF AfterNo
<1>4. new \in Ballot /\ new.requested = R /\ new.unapproved = T /\ new.approved = b.approved
  <2>. HIDE DEF R, T, new
  <2>. QED
    BY <1>1, <1>2, <1>3 DEF Ballot
<1>. HIDE DEF new
<1>5. IsFiniteSet(R) /\ Cardinality(R) = Cardinality(b.requested) - 1
  BY FS_RemoveElement DEF GoodBallot
<1>6. IsFiniteSet(T) /\ Cardinality(T) = Cardinality(b.unapproved) + 1
  BY <1>1, FS_AddElement DEF GoodBallot
<1>7. GoodBallot(new)
  BY <1>1, <1>4, <1>5, <1>6 DEF GoodBallot, IsBallot
<1>8. /\ Cardinality(b.requested) \in Nat /\ Cardinality(b.approved) \in Nat
      /\ Cardinality(b.unapproved) \in Nat
  BY Cardinalities
<1>. HIDE DEF R, T
<1>9. Size(new) = Size(b)
  BY <1>4, <1>5, <1>6, <1>8 DEF Size
<1>. QED
  BY <1>4, <1>7, <1>9 DEF new

\* A ballot of the committee, on which nobody has voted, decides nothing.
LEMMA FreshBallot ==
    ASSUME committee \subseteq Member, IsFiniteSet(committee)
    PROVE  GoodBallot(NewBallot) /\ ~TwoThirds(NewBallot) /\ ~OneThird(NewBallot)
<1>1. GoodBallot(NewBallot)
  BY FS_EmptySet DEF GoodBallot, IsBallot, Ballot, NewBallot
<1>2. Cardinality(NewBallot.approved) = 0 /\ Cardinality(NewBallot.unapproved) = 0
  BY FS_EmptySet DEF NewBallot
<1>3. Size(NewBallot) \in Nat
  BY <1>1, Cardinalities
<1>. QED
  BY <1>1, <1>2, <1>3 DEF TwoThirds, OneThird, Of

-----------------------------------------------------------------------------
(* The invariant, table by table *)

MotionBacked(section, b) ==
    /\ section = "passed" => TwoThirds(b)
    /\ section = "rejected" => OneThird(b)
    /\ section = "proposed" => ~TwoThirds(b) /\ ~OneThird(b)
CoinBacked(section, b) ==
    /\ section = "passed" <=> TwoThirds(b)
    /\ section = "rejected" <=> OneThird(b)
Within(quantity, d) ==
    /\ quantity + d.paid = d.asked
    /\ d.paid > 0 => d.paid <= d.asked

GoodMotion(m, b, d) ==
    /\ m \in MotionRow /\ GoodBallot(b) /\ d \in [asked : Int, paid : Nat]
    /\ MotionBacked(m.section, b) /\ Within(m.quantity, d)
GoodCoin(t) ==
    t \in TakeCoinRow /\ GoodBallot(t.ballot) /\ CoinBacked(t.section, t.ballot)

CommitteeOK == committee \subseteq Member /\ IsFiniteSet(committee)
MotionsOK ==
    /\ DOMAIN motions \subseteq 0..MaxMotion
    /\ DOMAIN approvers = {BallotOf(i) : i \in DOMAIN motions}
    /\ DOMAIN drawn = DOMAIN motions
    /\ \A i \in DOMAIN motions : GoodMotion(motions[i], approvers[BallotOf(i)], drawn[i])
CoinsOK ==
    /\ DOMAIN takecoins \subseteq Proposer \X (0..MaxTakeCoin)
    /\ \A k \in DOMAIN takecoins : GoodCoin(takecoins[k])
MoneyOK == held \in Nat /\ received \in [Proposer -> Nat]

IInv == block \in Nat /\ CommitteeOK /\ MotionsOK /\ CoinsOK /\ MoneyOK

LEMMA InvariantImplies ==
    ASSUME IInv
    PROVE  TypeOK /\ VerdictBacked /\ PaidWithinAsked
<1>1. TypeOK
  <2>1. \A k \in DOMAIN approvers : IsBallot(approvers[k])
    BY DEF IInv, MotionsOK, GoodMotion, GoodBallot
  <2>2. /\ DOMAIN motions \subseteq Nat /\ DOMAIN drawn = DOMAIN motions
        /\ \A i \in DOMAIN motions : motions[i] \in MotionRow /\ drawn[i] \in [asked : Int, paid : Nat]
    BY DEF IInv, MotionsOK, GoodMotion
  <2>4. DOMAIN approvers = {<<motions[i].proposer, i>> : i \in DOMAIN motions}
    BY DEF IInv, MotionsOK, BallotOf
  <2>3. /\ DOMAIN takecoins \subseteq Proposer \X Nat
        /\ \A k \in DOMAIN takecoins :
             takecoins[k] \in TakeCoinRow /\ IsBallot(takecoins[k].ballot)
    BY DEF IInv, CoinsOK, GoodCoin, GoodBallot
  <2>. QED
    BY <2>1, <2>2, <2>3, <2>4 DEF IInv, CommitteeOK, MoneyOK, TypeOK
<1>2. VerdictBacked
  BY DEF IInv, MotionsOK, CoinsOK, GoodMotion, GoodCoin, MotionBacked, CoinBacked, VerdictBacked
<1>3. PaidWithinAsked
  BY DEF IInv, MotionsOK, GoodMotion, Within, PaidWithinAsked
<1>. QED
  BY <1>1, <1>2, <1>3

LEMMA Initial == Init => IInv
<1>. SUFFICES ASSUME Init PROVE IInv
  OBVIOUS
<1>1. DOMAIN motions = {} /\ DOMAIN approvers = {} /\ DOMAIN drawn = {} /\ DOMAIN takecoins = {}
  BY DEF Init, NoRows
<1>2. MotionsOK /\ CoinsOK
  BY <1>1 DEF MotionsOK, CoinsOK
<1>3. CommitteeOK /\ MoneyOK /\ block \in Nat
  BY FS_EmptySet, NumberAssumption DEF Init, CommitteeOK, MoneyOK
<1>. QED
  BY <1>2, <1>3 DEF IInv

\* A step that changes one motion, its ballot or what was drawn from it.
OneMotion(id) ==
    /\ DOMAIN motions' = DOMAIN motions /\ DOMAIN approvers' = DOMAIN approvers
    /\ DOMAIN drawn' = DOMAIN drawn
    /\ \A i \in DOMAIN motions \ {id} : motions'[i] = motions[i] /\ drawn'[i] = drawn[i]
    /\ \A k \in DOMAIN approvers \ {BallotOf(id)} : approvers'[k] = approvers[k]
    /\ motions'[id].proposer = motions[id].proposer

LEMMA MotionChanged ==
    ASSUME MotionsOK, NEW id \in DOMAIN motions, OneMotion(id),
           GoodMotion(motions'[id], approvers'[BallotOf(id)], drawn'[id])
    PROVE  MotionsOK'
<1>1. \A i \in DOMAIN motions : BallotOf(i)' = BallotOf(i)
  BY DEF OneMotion, BallotOf
<1>2. ASSUME NEW i \in DOMAIN motions
      PROVE  GoodMotion(motions'[i], approvers'[BallotOf(i)], drawn'[i])
  <2>1. CASE i = id
    BY <2>1
  <2>2. CASE i # id
    <3>1. BallotOf(i) \in DOMAIN approvers \ {BallotOf(id)}
      BY <2>2 DEF MotionsOK, BallotOf
    <3>. QED
      BY <2>2, <3>1 DEF OneMotion, MotionsOK
  <2>. QED
    BY <2>1, <2>2
<1>3. /\ DOMAIN motions' \subseteq 0..MaxMotion /\ DOMAIN drawn' = DOMAIN motions'
      /\ DOMAIN approvers' = {BallotOf(i) : i \in DOMAIN motions}
      /\ DOMAIN motions' = DOMAIN motions
  BY DEF OneMotion, MotionsOK
<1>4. {BallotOf(i) : i \in DOMAIN motions} = {BallotOf(i)' : i \in DOMAIN motions'}
  BY <1>1, <1>3
<1>5. \A i \in DOMAIN motions' : GoodMotion(motions'[i], approvers'[BallotOf(i)'], drawn'[i])
  BY <1>1, <1>2, <1>3
<1>. QED
  BY <1>3, <1>4, <1>5 DEF MotionsOK, GoodMotion, GoodBallot, MotionBacked, Within, TwoThirds, OneThird, Of, Size

\* A step that leaves the motions, or the takecoins, alone.
LEMMA MotionsSame ==
    ASSUME MotionsOK, UNCHANGED <<motions, approvers, drawn>>
    PROVE  MotionsOK'
<1>. QED
  BY DEF MotionsOK, GoodMotion, GoodBallot, MotionBacked, Within, TwoThirds, OneThird, Of, Size,
         BallotOf

LEMMA CoinsSame ==
    ASSUME CoinsOK, UNCHANGED takecoins
    PROVE  CoinsOK'
<1>. QED
  BY DEF CoinsOK, GoodCoin, GoodBallot, CoinBacked, TwoThirds, OneThird, Of, Size

\* A step that changes one takecoin.
LEMMA CoinChanged ==
    ASSUME CoinsOK, NEW k \in DOMAIN takecoins, DOMAIN takecoins' = DOMAIN takecoins,
           \A l \in DOMAIN takecoins \ {k} : takecoins'[l] = takecoins[l],
           GoodCoin(takecoins'[k])
    PROVE  CoinsOK'
<1>1. \A l \in DOMAIN takecoins' : GoodCoin(takecoins'[l])
  BY DEF CoinsOK
<1>2. DOMAIN takecoins' \subseteq Proposer \X (0..MaxTakeCoin)
  BY DEF CoinsOK
<1>. QED
  BY <1>1, <1>2 DEF CoinsOK, GoodCoin, GoodBallot, CoinBacked, TwoThirds, OneThird, Of, Size

LEMMA HandOverStep ==
    ASSUME IInv, NEW C \in Committee, HandOver(C)
    PROVE  IInv'
<1>1. C \subseteq Member /\ IsFiniteSet(C)
  BY CommitteeAssumption DEF Member
<1>2. MotionsOK' /\ CoinsOK'
  BY MotionsSame, CoinsSame DEF IInv, HandOver, money
<1>3. CommitteeOK'
  BY <1>1 DEF HandOver, CommitteeOK
<1>. QED
  BY <1>2, <1>3 DEF IInv, HandOver, money, MoneyOK

\* A new motion enters with a ballot nobody has voted on.
LEMMA ProposeStep ==
    ASSUME IInv, NEW p \in Proposer, NEW quantity \in Asked, Propose(p, quantity)
    PROVE  IInv'
<1>0. PICK id : id = AvailableKey(DOMAIN motions)
  OBVIOUS
<1>. DEFINE m == [proposer |-> p, quantity |-> quantity, section |-> "proposed",
                  end |-> block + APPROVE_BLOCK_NUM]
            d == [asked |-> quantity, paid |-> 0]
<1>1. id \in Nat \ DOMAIN motions /\ id \in 0..MaxMotion
  <2>1. DOMAIN motions \in SUBSET (0..MaxMotion)
    BY DEF IInv, MotionsOK
  <2>2. id \in Nat \ DOMAIN motions
    BY <1>0, <2>1, NumberAssumption, KeyIsFree
  <2>. QED
    BY <1>0, <2>2, NumberAssumption DEF Propose
<1>2. /\ motions' = With(motions, id, m)
      /\ approvers' = With(approvers, <<p, id>>, NewBallot)
      /\ drawn' = With(drawn, id, d)
      /\ UNCHANGED <<block, committee, takecoins, held, received>>
  BY <1>0 DEF Propose
<1>3. m \in MotionRow /\ m.section = "proposed" /\ m.quantity = quantity /\ m.proposer = p
  BY NumberAssumption DEF MotionRow, Section, IInv
<1>4. d \in [asked : Int, paid : Nat] /\ Within(m.quantity, d)
  BY NumberAssumption DEF Within
<1>. HIDE DEF m, d
<1>5. GoodMotion(m, NewBallot, d)
  BY <1>3, <1>4, FreshBallot DEF GoodMotion, MotionBacked, IInv, CommitteeOK
<1>6. /\ DOMAIN motions' = DOMAIN motions \cup {id} /\ motions'[id] = m
      /\ DOMAIN drawn' = DOMAIN motions \cup {id} /\ drawn'[id] = d
      /\ \A i \in DOMAIN motions : motions'[i] = motions[i] /\ drawn'[i] = drawn[i]
  <2>1. DOMAIN drawn = DOMAIN motions
    BY DEF IInv, MotionsOK
  <2>2. /\ DOMAIN motions' = DOMAIN motions \cup {id} /\ motions'[id] = m
        /\ \A i \in DOMAIN motions : motions'[i] = motions[i]
    BY <1>1, <1>2 DEF With
  <2>3. /\ DOMAIN drawn' = DOMAIN drawn \cup {id} /\ drawn'[id] = d
        /\ \A i \in DOMAIN drawn : drawn'[i] = drawn[i]
    BY <1>1, <1>2, <2>1 DEF With
  <2>. QED
    BY <2>1, <2>2, <2>3
<1>7. <<p, id>> \notin DOMAIN approvers
  BY <1>1 DEF IInv, MotionsOK, BallotOf
<1>8. /\ DOMAIN approvers' = DOMAIN approvers \cup {<<p, id>>}
      /\ approvers'[<<p, id>>] = NewBallot
      /\ \A k \in DOMAIN approvers : approvers'[k] = approvers[k]
  BY <1>2, <1>7 DEF With
<1>9. /\ BallotOf(id)' = <<p, id>>
      /\ \A i \in DOMAIN motions : BallotOf(i)' = BallotOf(i) /\ BallotOf(i) \in DOMAIN approvers
  <2>1. BallotOf(id)' = <<p, id>>
    BY <1>3, <1>6 DEF BallotOf
  <2>2. \A i \in DOMAIN motions : BallotOf(i)' = BallotOf(i)
    BY <1>6 DEF BallotOf
  <2>3. \A i \in DOMAIN motions : BallotOf(i) \in DOMAIN approvers
    BY DEF IInv, MotionsOK
  <2>. QED
    BY <2>1, <2>2, <2>3
<1>10. ASSUME NEW i \in DOMAIN motions'
       PROVE  GoodMotion(motions'[i], approvers'[BallotOf(i)'], drawn'[i])
  <2>1. CASE i = id
    BY <1>5, <1>6, <1>8, <1>9, <2>1
  <2>2. CASE i \in DOMAIN motions
    <3>1. /\ motions'[i] = motions[i] /\ drawn'[i] = drawn[i]
          /\ approvers'[BallotOf(i)'] = approvers[BallotOf(i)]
      BY <1>6, <1>8, <1>9, <2>2
    <3>2. GoodMotion(motions[i], approvers[BallotOf(i)], drawn[i])
      BY <2>2 DEF IInv, MotionsOK
    <3>. QED
      BY <3>1, <3>2
  <2>. QED
    BY <1>6, <2>1, <2>2
<1>11. DOMAIN approvers' = {BallotOf(i)' : i \in DOMAIN motions'}
  <2>1. {BallotOf(i)' : i \in DOMAIN motions'} = {BallotOf(i) : i \in DOMAIN motions} \cup {<<p, id>>}
    BY <1>6, <1>9
  <2>2. DOMAIN approvers = {BallotOf(i) : i \in DOMAIN motions}
    BY DEF IInv, MotionsOK
  <2>. QED
    BY <1>8, <2>1, <2>2
<1>12. DOMAIN motions' \subseteq 0..MaxMotion /\ DOMAIN drawn' = DOMAIN motions'
  BY <1>1, <1>6 DEF IInv, MotionsOK
<1>13. MotionsOK'
  BY <1>10, <1>11, <1>12 DEF MotionsOK, GoodMotion, GoodBallot, MotionBacked, Within, TwoThirds,
         OneThird, Of, Size
<1>14. CoinsOK' /\ CommitteeOK' /\ MoneyOK' /\ block' \in Nat
  BY <1>2, CoinsSame DEF IInv, CommitteeOK, MoneyOK
<1>. QED
  BY <1>13, <1>14 DEF IInv

\* The three parts of a motion.
LEMMA MotionIs ==
    ASSUME IInv, NEW id \in DOMAIN motions
    PROVE  /\ GoodMotion(motions[id], approvers[BallotOf(id)], drawn[id])
           /\ GoodBallot(approvers[BallotOf(id)]) /\ motions[id] \in MotionRow
           /\ BallotOf(id) \in DOMAIN approvers /\ id \in DOMAIN drawn
<1>. QED
  BY DEF IInv, MotionsOK, GoodMotion

\* A vote that ends in section s is recorded.
LEMMA VoteRecorded ==
    ASSUME IInv, NEW id \in DOMAIN motions, NEW b, GoodBallot(b), NEW s \in Section,
           MotionBacked(s, b),
           approvers' = [approvers EXCEPT ![BallotOf(id)] = b],
           motions' = [motions EXCEPT ![id].section = s] \/ (motions' = motions /\ s = motions[id].section),
           UNCHANGED <<block, committee, takecoins, money>>
    PROVE  IInv'
<1>1. /\ DOMAIN motions' = DOMAIN motions
      /\ \A i \in DOMAIN motions \ {id} : motions'[i] = motions[i]
      /\ motions'[id] \in MotionRow /\ motions'[id].section = s
      /\ motions'[id].proposer = motions[id].proposer
      /\ motions'[id].quantity = motions[id].quantity
  BY MotionIs DEF MotionRow
<1>2. /\ DOMAIN approvers' = DOMAIN approvers /\ approvers'[BallotOf(id)] = b
      /\ \A k \in DOMAIN approvers \ {BallotOf(id)} : approvers'[k] = approvers[k]
  BY MotionIs
<1>3. OneMotion(id)
  BY <1>1, <1>2 DEF OneMotion, money
<1>4. GoodMotion(motions'[id], approvers'[BallotOf(id)], drawn'[id])
  BY <1>1, <1>2, MotionIs DEF GoodMotion, money
<1>5. MotionsOK'
  BY <1>3, <1>4, MotionChanged DEF IInv
<1>6. CoinsOK' /\ CommitteeOK' /\ MoneyOK' /\ block' \in Nat
  BY CoinsSame DEF IInv, CommitteeOK, MoneyOK, money
<1>. QED
  BY <1>5, <1>6 DEF IInv

\* approve passes a motion when, and only when, its ballot does.
LEMMA ApproveStep ==
    ASSUME IInv, NEW member \in Member, NEW id, Approve(member, id)
    PROVE  IInv'
<1>. DEFINE old == approvers[BallotOf(id)]
            b == AfterYes(old, member)
            s == IF Agreed(b) THEN "passed" ELSE "proposed"
<1>1. id \in DOMAIN motions /\ motions[id].section = "proposed" /\ member \in old.requested
  BY DEF Approve
<1>2. GoodBallot(old) /\ ~OneThird(old)
  BY <1>1, MotionIs DEF GoodMotion, MotionBacked
<1>3. GoodBallot(b) /\ Size(b) = Size(old) /\ b.unapproved = old.unapproved
  BY <1>1, <1>2, Yes
<1>4. ~OneThird(b)
  BY <1>2, <1>3 DEF OneThird, Of
<1>5. Agreed(b) <=> TwoThirds(b)
  BY <1>3, Fractions
<1>6. /\ approvers' = [approvers EXCEPT ![BallotOf(id)] = b]
      /\ motions' = IF Agreed(b) THEN [motions EXCEPT ![id].section = "passed"] ELSE motions
      /\ UNCHANGED <<block, committee, takecoins, money>>
  BY DEF Approve
<1>. HIDE DEF b, old
<1>7. s \in Section /\ MotionBacked(s, b)
  BY <1>4, <1>5 DEF Section, MotionBacked
<1>8. motions' = [motions EXCEPT ![id].section = s] \/ (motions' = motions /\ s = motions[id].section)
  BY <1>1, <1>6
<1>. HIDE DEF s
<1>. QED
  BY <1>1, <1>3, <1>6, <1>7, <1>8, VoteRecorded

\* unapprove rejects a motion when its ballot does, whatever its section; a
\* passed one keeps its two thirds, which leave no third to refuse.
LEMMA UnapproveStep ==
    ASSUME IInv, NEW member \in Member, NEW id, Unapprove(member, id)
    PROVE  IInv'
<1>. DEFINE old == approvers[BallotOf(id)]
            b == AfterNo(old, member)
            s == IF Refused(b) THEN "rejected" ELSE motions[id].section
<1>1. id \in DOMAIN motions /\ member \in old.requested
  BY DEF Unapprove
<1>2. GoodBallot(old) /\ MotionBacked(motions[id].section, old) /\ motions[id].section \in Section
  BY <1>1, MotionIs DEF GoodMotion, MotionRow
<1>3. GoodBallot(b) /\ Size(b) = Size(old) /\ b.approved = old.approved
  BY <1>1, <1>2, No
<1>4. TwoThirds(b) <=> TwoThirds(old)
  BY <1>3 DEF TwoThirds, Of
<1>5. Refused(b) <=> OneThird(b)
  BY <1>3, Fractions
<1>6. /\ approvers' = [approvers EXCEPT ![BallotOf(id)] = b]
      /\ motions' = IF Refused(b) THEN [motions EXCEPT ![id].section = "rejected"] ELSE motions
      /\ UNCHANGED <<block, committee, takecoins, money>>
  BY DEF Unapprove
<1>7. OneThird(old) => OneThird(b)
  <2>1. Cardinality(old.unapproved) <= Cardinality(b.unapproved)
    <3>1. b.unapproved = old.unapproved \cup {member}
      BY <1>2 DEF AfterNo, GoodBallot, IsBallot, Ballot
    <3>2. IsFiniteSet(b.unapproved) /\ old.unapproved \subseteq b.unapproved
      BY <1>3, <3>1 DEF GoodBallot
    <3>. QED
      BY <3>2, FS_Subset
  <2>2. Cardinality(old.unapproved) \in Nat /\ Cardinality(b.unapproved) \in Nat /\ Size(b) \in Nat
    BY <1>2, <1>3, Cardinalities
  <2>. HIDE DEF old, b
  <2>. QED
    BY <1>3, <2>1, <2>2 DEF OneThird, Of
<1>. HIDE DEF b, old
<1>8. s \in Section /\ MotionBacked(s, b)
  BY <1>2, <1>4, <1>5, <1>7 DEF Section, MotionBacked
<1>9. motions' = [motions EXCEPT ![id].section = s] \/ (motions' = motions /\ s = motions[id].section)
  BY <1>6
<1>. HIDE DEF s
<1>. QED
  BY <1>1, <1>3, <1>6, <1>8, <1>9, VoteRecorded

\* A new takecoin has a free key and a ballot nobody has voted on.
LEMMA TakeCoinStep ==
    ASSUME IInv, NEW p \in Proposer, NEW id, NEW quantity \in Taken, TakeCoin(p, id, quantity)
    PROVE  IInv'
<1>. DEFINE ids == {k[2] : k \in {k \in DOMAIN takecoins : k[1] = p}}
            t == [motion |-> id, quantity |-> quantity, section |-> "proposed",
                  end |-> block + APPROVE_BLOCK_NUM, ballot |-> NewBallot]
<1>1. PICK key : key = AvailableKey(ids)
  OBVIOUS
<1>2. /\ takecoins' = With(takecoins, <<p, key>>, t)
      /\ key <= MaxTakeCoin /\ id \in DOMAIN motions
      /\ UNCHANGED <<block, committee, motions, approvers, money>>
  BY <1>1 DEF TakeCoin
<1>3. key \in 0..MaxTakeCoin /\ <<p, key>> \notin DOMAIN takecoins
  <2>1. ids \in SUBSET (0..MaxTakeCoin)
    BY DEF IInv, CoinsOK
  <2>2. key \in Nat \ ids
    <3>. HIDE DEF ids
    <3>. QED
      BY <1>1, <2>1, NumberAssumption, KeyIsFree
  <2>. QED
    BY <1>2, <2>2, NumberAssumption
<1>4. GoodBallot(NewBallot) /\ ~TwoThirds(NewBallot) /\ ~OneThird(NewBallot)
  BY FreshBallot DEF IInv, CommitteeOK
<1>5. id \in Nat /\ block + APPROVE_BLOCK_NUM \in Nat /\ quantity \in Int
  BY <1>2, NumberAssumption DEF IInv, MotionsOK
<1>6. t \in TakeCoinRow /\ t.section = "proposed" /\ t.ballot = NewBallot
  BY <1>4, <1>5 DEF TakeCoinRow, Section, GoodBallot, IsBallot
<1>. HIDE DEF t, ids
<1>7. GoodCoin(t)
  BY <1>4, <1>6 DEF GoodCoin, CoinBacked
<1>8. /\ DOMAIN takecoins' = DOMAIN takecoins \cup {<<p, key>>}
      /\ takecoins'[<<p, key>>] = t
      /\ \A k \in DOMAIN takecoins : takecoins'[k] = takecoins[k]
  BY <1>2, <1>3 DEF With
<1>9. \A k \in DOMAIN takecoins' : GoodCoin(takecoins'[k])
  BY <1>7, <1>8 DEF IInv, CoinsOK
<1>10. DOMAIN takecoins' \subseteq Proposer \X (0..MaxTakeCoin)
  BY <1>3, <1>8 DEF IInv, CoinsOK
<1>11. CoinsOK'
  BY <1>9, <1>10 DEF CoinsOK, GoodCoin, GoodBallot, CoinBacked, TwoThirds, OneThird, Of, Size
<1>12. MotionsOK' /\ CommitteeOK' /\ MoneyOK' /\ block' \in Nat
  BY <1>2, MotionsSame DEF IInv, CommitteeOK, MoneyOK, money
<1>. QED
  BY <1>11, <1>12 DEF IInv

\* A vote on a takecoin that ends in section s is recorded.
LEMMA CoinRecorded ==
    ASSUME CoinsOK, NEW k \in DOMAIN takecoins, NEW b, GoodBallot(b), NEW s \in Section,
           CoinBacked(s, b),
           takecoins' = [takecoins EXCEPT ![k].ballot = b, ![k].section = s]
    PROVE  CoinsOK'
<1>1. takecoins[k] \in TakeCoinRow
  BY DEF CoinsOK, GoodCoin
<1>2. b \in Ballot
  BY DEF GoodBallot, IsBallot
<1>3. /\ takecoins'[k] \in TakeCoinRow /\ takecoins'[k].ballot = b
      /\ takecoins'[k].section = s
      /\ DOMAIN takecoins' = DOMAIN takecoins
      /\ \A l \in DOMAIN takecoins \ {k} : takecoins'[l] = takecoins[l]
  BY <1>1, <1>2 DEF TakeCoinRow
<1>4. GoodCoin(takecoins'[k])
  BY <1>3 DEF GoodCoin
<1>. QED
  BY <1>3, <1>4, CoinChanged

\* What is paid for a motion comes off what is left of it.
LEMMA PayKept ==
    ASSUME IInv, NEW p \in Proposer, NEW id, NEW quantity \in Int, Pay(p, id, quantity),
           UNCHANGED approvers
    PROVE  MotionsOK' /\ MoneyOK'
<1>1. /\ id \in DOMAIN motions /\ motions[id].quantity >= quantity /\ quantity \in 0..held
      /\ motions' = [motions EXCEPT ![id].quantity = @ - quantity]
      /\ held' = held - quantity
      /\ received' = [received EXCEPT ![p] = @ + quantity]
      /\ drawn' = [drawn EXCEPT ![id].paid = @ + quantity]
  BY DEF Pay, CanPay
<1>2. MoneyOK'
  BY <1>1 DEF IInv, MoneyOK
<1>3. motions[id] \in MotionRow /\ drawn[id] \in [asked : Int, paid : Nat]
      /\ Within(motions[id].quantity, drawn[id]) /\ id \in DOMAIN drawn
  BY <1>1, MotionIs DEF GoodMotion
<1>4. /\ DOMAIN motions' = DOMAIN motions
      /\ \A i \in DOMAIN motions \ {id} : motions'[i] = motions[i]
      /\ motions'[id].quantity = motions[id].quantity - quantity
      /\ motions'[id].section = motions[id].section
      /\ motions'[id].proposer = motions[id].proposer
  BY <1>1, <1>3 DEF MotionRow
<1>5. motions'[id] \in MotionRow
  BY <1>1, <1>3 DEF MotionRow
<1>6. /\ DOMAIN drawn' = DOMAIN drawn
      /\ \A i \in DOMAIN drawn \ {id} : drawn'[i] = drawn[i]
      /\ drawn'[id].paid = drawn[id].paid + quantity
      /\ drawn'[id].asked = drawn[id].asked
      /\ drawn'[id] \in [asked : Int, paid : Nat]
  BY <1>1, <1>3
<1>7. Within(motions'[id].quantity, drawn'[id])
  <2>1. /\ motions[id].quantity \in Int /\ drawn[id].asked \in Int /\ drawn[id].paid \in Nat
        /\ quantity \in Nat
    BY <1>1, <1>3 DEF MotionRow, IInv, MoneyOK
  <2>. QED
    BY <1>1, <1>3, <1>4, <1>6, <2>1 DEF Within
<1>8. OneMotion(id)
  BY <1>1, <1>4, <1>6 DEF OneMotion, IInv, MotionsOK
<1>9. GoodMotion(motions'[id], approvers'[BallotOf(id)], drawn'[id])
  BY <1>1, <1>4, <1>5, <1>6, <1>7, MotionIs DEF GoodMotion
<1>. QED
  BY <1>1, <1>2, <1>8, <1>9, MotionChanged DEF IInv

\* agreecoin passes a takecoin when its ballot does, and pays it.
LEMMA AgreeCoinStep ==
    ASSUME IInv, NEW member \in Member, NEW k, AgreeCoin(member, k)
    PROVE  IInv'
<1>. DEFINE old == takecoins[k].ballot
            b == AfterYes(old, member)
            s == IF Agreed(b) THEN "passed" ELSE "proposed"
<1>1. /\ k \in DOMAIN takecoins /\ takecoins[k].section = "proposed" /\ member \in old.requested
      /\ takecoins' = [takecoins EXCEPT ![k].ballot = b, ![k].section = s]
      /\ IF Agreed(b) THEN Pay(k[1], takecoins[k].motion, takecoins[k].quantity)
         ELSE UNCHANGED <<motions, money>>
      /\ UNCHANGED <<block, committee, approvers>>
  BY DEF AgreeCoin
<1>2. GoodCoin(takecoins[k]) /\ k \in Proposer \X (0..MaxTakeCoin)
  BY <1>1 DEF IInv, CoinsOK
<1>3. GoodBallot(old) /\ ~OneThird(old)
  BY <1>1, <1>2 DEF GoodCoin, CoinBacked
<1>4. GoodBallot(b) /\ Size(b) = Size(old) /\ b.unapproved = old.unapproved
  BY <1>1, <1>3, Yes
<1>5. ~OneThird(b)
  BY <1>3, <1>4 DEF OneThird, Of
<1>6. Agreed(b) <=> TwoThirds(b)
  BY <1>4, Fractions
<1>. HIDE DEF b, old
<1>7. s \in Section /\ CoinBacked(s, b)
  BY <1>5, <1>6 DEF Section, CoinBacked
<1>8. CoinsOK'
  <2>. HIDE DEF s
  <2>. QED
    BY <1>1, <1>4, <1>7, CoinRecorded DEF IInv
<1>9. MotionsOK' /\ MoneyOK'
  <2>1. CASE Agreed(b)
    <3>1. k[1] \in Proposer /\ takecoins[k].quantity \in Int
      BY <1>2 DEF GoodCoin, TakeCoinRow
    <3>2. Pay(k[1], takecoins[k].motion, takecoins[k].quantity) /\ UNCHANGED approvers
      BY <1>1, <2>1
    <3>. QED
      BY <3>1, <3>2, PayKept
  <2>2. CASE ~Agreed(b)
    BY <1>1, <2>2, MotionsSame DEF IInv, MoneyOK, money
  <2>. QED
    BY <2>1, <2>2
<1>. QED
  BY <1>1, <1>8, <1>9 DEF IInv, CommitteeOK

LEMMA UnagreeCoinStep ==
    ASSUME IInv, NEW member \in Member, NEW k, UnagreeCoin(member, k)
    PROVE  IInv'
<1>. DEFINE old == takecoins[k].ballot
            b == AfterNo(old, member)
            s == IF Refused(b) THEN "rejected" ELSE "proposed"
<1>1. /\ k \in DOMAIN takecoins /\ takecoins[k].section = "proposed" /\ member \in old.requested
      /\ takecoins' = [takecoins EXCEPT ![k].ballot = b, ![k].section = s]
      /\ UNCHANGED <<block, committee, motions, approvers, money>>
  BY DEF UnagreeCoin
<1>2. GoodCoin(takecoins[k])
  BY <1>1 DEF IInv, CoinsOK
<1>3. GoodBallot(old) /\ ~TwoThirds(old)
  BY <1>1, <1>2 DEF GoodCoin, CoinBacked
<1>4. GoodBallot(b) /\ Size(b) = Size(old) /\ b.approved = old.approved
  BY <1>1, <1>3, No
<1>5. ~TwoThirds(b)
  BY <1>3, <1>4 DEF TwoThirds, Of
<1>6. Refused(b) <=> OneThird(b)
  BY <1>4, Fractions
<1>. HIDE DEF b, old
<1>7. s \in Section /\ CoinBacked(s, b)
  BY <1>5, <1>6 DEF Section, CoinBacked
<1>8. CoinsOK'
  <2>. HIDE DEF s
  <2>. QED
    BY <1>1, <1>4, <1>7, CoinRecorded DEF IInv
<1>9. MotionsOK' /\ MoneyOK'
  BY <1>1, MotionsSame DEF IInv, MoneyOK, money
<1>. QED
  BY <1>1, <1>8, <1>9 DEF IInv, CommitteeOK

\* turndown leaves a motion that no verdict backs, and needs none.
LEMMA TurnDownStep ==
    ASSUME IInv, NEW id, TurnDown(id)
    PROVE  IInv'
<1>1. /\ id \in DOMAIN motions /\ motions' = [motions EXCEPT ![id].section = "turned down"]
      /\ UNCHANGED <<block, committee, approvers, takecoins, money>>
  BY DEF TurnDown
<1>2. /\ DOMAIN motions' = DOMAIN motions
      /\ \A i \in DOMAIN motions \ {id} : motions'[i] = motions[i]
      /\ motions'[id] \in MotionRow /\ motions'[id].section = "turned down"
      /\ motions'[id].proposer = motions[id].proposer
      /\ motions'[id].quantity = motions[id].quantity
  BY <1>1, MotionIs DEF MotionRow, Section
<1>3. OneMotion(id)
  BY <1>1, <1>2 DEF OneMotion, money
<1>4. GoodMotion(motions'[id], approvers'[BallotOf(id)], drawn'[id])
  BY <1>1, <1>2, MotionIs DEF GoodMotion, MotionBacked, money
<1>5. MotionsOK'
  BY <1>1, <1>3, <1>4, MotionChanged DEF IInv
<1>6. CoinsOK' /\ CommitteeOK' /\ MoneyOK' /\ block' \in Nat
  BY <1>1, CoinsSame DEF IInv, CommitteeOK, MoneyOK, money
<1>. QED
  BY <1>5, <1>6 DEF IInv

\* closemotion erases both rows of the motion, and no other.
LEMMA CloseMotionStep ==
    ASSUME IInv, NEW id, CloseMotion(id)
    PROVE  IInv'
<1>1. /\ id \in DOMAIN motions
      /\ motions' = Without(motions, id)
      /\ approvers' = Without(approvers, BallotOf(id))
      /\ drawn' = Without(drawn, id)
      /\ UNCHANGED <<block, committee, takecoins, held, received>>
  BY DEF CloseMotion
<1>2. DOMAIN drawn = DOMAIN motions /\ DOMAIN approvers = {BallotOf(i) : i \in DOMAIN motions}
  BY DEF IInv, MotionsOK
<1>3. /\ DOMAIN motions' = DOMAIN motions \ {id} /\ DOMAIN drawn' = DOMAIN motions \ {id}
      /\ \A i \in DOMAIN motions \ {id} : motions'[i] = motions[i] /\ drawn'[i] = drawn[i]
  BY <1>1, <1>2 DEF Without
<1>4. /\ DOMAIN approvers' = DOMAIN approvers \ {BallotOf(id)}
      /\ \A k \in DOMAIN approvers \ {BallotOf(id)} : approvers'[k] = approvers[k]
  BY <1>1 DEF Without
<1>5. \A i \in DOMAIN motions' : BallotOf(i)' = BallotOf(i) /\ BallotOf(i) # BallotOf(id)
  BY <1>3 DEF BallotOf
<1>6. DOMAIN approvers' = {BallotOf(i)' : i \in DOMAIN motions'}
  <2>1. {BallotOf(i)' : i \in DOMAIN motions'} = {BallotOf(i) : i \in DOMAIN motions \ {id}}
    BY <1>3, <1>5
  <2>2. \A i \in DOMAIN motions \ {id} : BallotOf(i) # BallotOf(id)
    BY DEF BallotOf
  <2>. QED
    BY <1>2, <1>4, <2>1, <2>2
<1>7. ASSUME NEW i \in DOMAIN motions'
      PROVE  GoodMotion(motions'[i], approvers'[BallotOf(i)'], drawn'[i])
  <2>1. i \in DOMAIN motions \ {id} /\ BallotOf(i) \in DOMAIN approvers \ {BallotOf(id)}
    BY <1>2, <1>3, <1>5
  <2>2. /\ motions'[i] = motions[i] /\ drawn'[i] = drawn[i]
        /\ approvers'[BallotOf(i)'] = approvers[BallotOf(i)]
    BY <1>3, <1>4, <1>5, <2>1
  <2>3. GoodMotion(motions[i], approvers[BallotOf(i)], drawn[i])
    BY <2>1, MotionIs
  <2>. QED
    BY <2>2, <2>3
<1>8. DOMAIN motions' \subseteq 0..MaxMotion /\ DOMAIN drawn' = DOMAIN motions'
  BY <1>3 DEF IInv, MotionsOK
<1>9. MotionsOK'
  BY <1>6, <1>7, <1>8 DEF MotionsOK, GoodMotion, GoodBallot, MotionBacked, Within, TwoThirds,
         OneThird, Of, Size
<1>10. CoinsOK' /\ CommitteeOK' /\ MoneyOK' /\ block' \in Nat
  BY <1>1, CoinsSame DEF IInv, CommitteeOK, MoneyOK
<1>. QED
  BY <1>9, <1>10 DEF IInv

LEMMA CloseCoinStep ==
    ASSUME IInv, NEW k, CloseCoin(k)
    PROVE  IInv'
<1>1. /\ takecoins' = Without(takecoins, k)
      /\ UNCHANGED <<block, committee, motions, approvers, money>>
  BY DEF CloseCoin
<1>2. /\ DOMAIN takecoins' = DOMAIN takecoins \ {k}
      /\ \A l \in DOMAIN takecoins' : takecoins'[l] = takecoins[l]
  BY <1>1 DEF Without
<1>3. \A l \in DOMAIN takecoins' : GoodCoin(takecoins'[l])
  BY <1>2 DEF IInv, CoinsOK
<1>4. DOMAIN takecoins' \subseteq Proposer \X (0..MaxTakeCoin)
  BY <1>2 DEF IInv, CoinsOK
<1>5. CoinsOK'
  BY <1>3, <1>4 DEF CoinsOK, GoodCoin, GoodBallot, CoinBacked, TwoThirds, OneThird, Of, Size
<1>6. MotionsOK' /\ CommitteeOK' /\ MoneyOK' /\ block' \in Nat
  BY <1>1, MotionsSame DEF IInv, CommitteeOK, MoneyOK, money
<1>. QED
  BY <1>5, <1>6 DEF IInv

LEMMA NextIInv ==
    ASSUME IInv, [Next]_vars
    PROVE  IInv'
<1>1. CASE \E C \in Committee : HandOver(C)
  BY <1>1, HandOverStep
<1>2. CASE \E p \in Proposer, quantity \in Asked : Propose(p, quantity)
  BY <1>2, ProposeStep
<1>3. ASSUME NEW id \in 0..MaxMotion,
             \/ \E m \in Member : Approve(m, id) \/ Unapprove(m, id)
             \/ \E p \in Proposer, quantity \in Taken : TakeCoin(p, id, quantity)
             \/ TurnDown(id) \/ CloseMotion(id)
      PROVE  IInv'
  BY <1>3, ApproveStep, UnapproveStep, TakeCoinStep, TurnDownStep, CloseMotionStep
<1>4. ASSUME NEW k \in Proposer \X (0..MaxTakeCoin),
             \/ \E m \in Member : AgreeCoin(m, k) \/ UnagreeCoin(m, k)
             \/ CloseCoin(k)
      PROVE  IInv'
  BY <1>4, AgreeCoinStep, UnagreeCoinStep, CloseCoinStep
<1>5. CASE NextBlock
  <2>1. MotionsOK' /\ CoinsOK'
    BY <1>5, MotionsSame, CoinsSame DEF NextBlock, tables, money, IInv
  <2>. QED
    BY <1>5, <2>1 DEF NextBlock, tables, money, IInv, CommitteeOK, MoneyOK
<1>6. CASE UNCHANGED vars
  <2>1. MotionsOK' /\ CoinsOK'
    BY <1>6, MotionsSame, CoinsSame DEF vars, tables, money, IInv
  <2>. QED
    BY <1>6, <2>1 DEF vars, tables, money, IInv, CommitteeOK, MoneyOK
<1>. QED
  BY <1>1, <1>2, <1>3, <1>4, <1>5, <1>6 DEF Next

-----------------------------------------------------------------------------
\* Every reachable state satisfies the invariant.
THEOREM Invariance == Spec => []IInv
<1>. QED
  BY Initial, NextIInv, PTL DEF Spec

\* Every reachable state is well typed: every motion has its approvers row,
\* every list of members is of one committee or another and in one list each.
THEOREM TypeCorrect == Spec => []TypeOK
<1>1. IInv => TypeOK
  BY InvariantImplies
<1>. QED
  BY <1>1, Invariance, PTL

\* No section is ever without the share of the members it stands for, however
\* many they are and whoever has handed over meanwhile.
THEOREM VerdictsBacked == Spec => []VerdictBacked
<1>1. IInv => VerdictBacked
  BY InvariantImplies
<1>. QED
  BY <1>1, Invariance, PTL

\* No motion ever pays more than it asked, with any takecoins, negative ones
\* too.
THEOREM PaidAlwaysWithinAsked == Spec => []PaidWithinAsked
<1>1. IInv => PaidWithinAsked
  BY InvariantImplies
<1>. QED
  BY <1>1, Invariance, PTL
=============================================================================
