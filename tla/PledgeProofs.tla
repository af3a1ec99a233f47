---------------------------- MODULE PledgeProofs ----------------------------
(***************************************************************************)
(* Proofs about Pledge.  Solvent is inductive together with the types: a   *)
(* row's claims move by at most what moves in or out of the balance held,  *)
(* because pre_allot leaves what a pledger still owes out of account.      *)
(***************************************************************************)
EXTENDS Pledge, Sums

PledgeRow == [open : BOOLEAN, pledge : Int, deduction : Int]
PledgeTable == [Rows -> PledgeRow]

ClaimSum(table) == SumFunction([i \in Rows |-> Claims(table[i])])

LEMMA FiniteRows == IsFiniteSet(Rows)
    BY AccountAssumption, FS_Product DEF Rows

LEMMA ClaimsInt ==
    ASSUME NEW row \in PledgeRow
    PROVE  Claims(row) \in Nat /\ Unspent(row) \in Int /\ PreAllot(row) \in Int
    BY DEF Claims, Unspent, PreAllot, Most0, Least0, PledgeRow

-----------------------------------------------------------------------------
(* Sums over the tables *)

LEMMA ClaimSumNat ==
    ASSUME NEW table \in PledgeTable
    PROVE  ClaimSum(table) \in Nat
  <1> DEFINE f == [i \in Rows |-> Claims(table[i])]
  <1>1. \A i \in Rows : f[i] \in Nat
    BY ClaimsInt DEF PledgeTable
  <1>2. SumFunction(f) = SumFunctionOnSet(f, Rows)
    BY DEF SumFunction
  <1>3. SumFunctionOnSet(f, Rows) \in Nat
    <2> HIDE DEF f
    <2>1. QED
      BY <1>1, FiniteRows, SumNat
  <1>4. QED
    BY <1>2, <1>3 DEF ClaimSum

\* Another value of one row moves the sum of the claims by their difference.
LEMMA ClaimSumChange ==
    ASSUME NEW table \in PledgeTable, NEW other \in PledgeTable, NEW y \in Rows,
           \A i \in Rows : i # y => other[i] = table[i]
    PROVE  ClaimSum(other) = ClaimSum(table) - Claims(table[y]) + Claims(other[y])
  <1> DEFINE f == [i \in Rows |-> Claims(table[i])]
             g == [i \in Rows |-> Claims(other[i])]
  <1>1. \A i \in Rows : f[i] \in Int /\ g[i] \in Int
    BY ClaimsInt DEF PledgeTable
  <1>2. \A i \in Rows \ {y} : g[i] = f[i]
    OBVIOUS
  <1>3. /\ SumFunction(f) = SumFunctionOnSet(f, Rows)
        /\ SumFunction(g) = SumFunctionOnSet(g, Rows)
    BY DEF SumFunction
  <1>4. f[y] = Claims(table[y]) /\ g[y] = Claims(other[y])
    OBVIOUS
  <1>5. SumFunctionOnSet(g, Rows) = SumFunctionOnSet(f, Rows) - f[y] + g[y]
    <2> HIDE DEF f, g
    <2>1. QED
      BY <1>1, <1>2, FiniteRows, SumChange
  <1>6. ClaimSum(table) = SumFunction(f) /\ ClaimSum(other) = SumFunction(g)
    BY DEF ClaimSum
  <1>7. QED
    BY <1>3, <1>4, <1>5, <1>6

LEMMA RewardSumNat ==
    ASSUME NEW table \in [Account -> Nat]
    PROVE  SumFunction(table) \in Nat /\ SumFunction(table) = SumFunctionOnSet(table, Account)
  <1>1. SumFunction(table) = SumFunctionOnSet(table, Account)
    BY DEF SumFunction
  <1>2. SumFunctionOnSet(table, Account) \in Nat
    BY AccountAssumption, SumNat
  <1>3. QED
    BY <1>1, <1>2

LEMMA RewardSumChange ==
    ASSUME NEW table \in [Account -> Nat], NEW other \in [Account -> Nat],
           NEW y \in Account, \A a \in Account : a # y => other[a] = table[a]
    PROVE  SumFunction(other) = SumFunction(table) - table[y] + other[y]
  <1>1. SumFunctionOnSet(other, Account)
          = SumFunctionOnSet(table, Account) - table[y] + other[y]
    BY AccountAssumption, SumChange
  <1>2. QED
    BY <1>1, RewardSumNat

-----------------------------------------------------------------------------
(* The shares of dealreward *)

LEMMA TimesBound ==
    ASSUME NEW list \in Seq(Account), NEW a \in Account, NEW T \in SUBSET DOMAIN list
    PROVE  /\ IsFiniteSet(T)
           /\ IsFiniteSet({i \in T : list[i] = a})
           /\ Cardinality({i \in T : list[i] = a}) \in Nat
  <1>1. IsFiniteSet(DOMAIN list)
    <2>1. DOMAIN list = 1..Len(list) /\ Len(list) \in Nat
      OBVIOUS
    <2>2. QED
      BY <2>1, FS_Interval
  <1>2. IsFiniteSet(T) /\ IsFiniteSet({i \in T : list[i] = a})
    BY <1>1, FS_Subset
  <1>3. QED
    BY <1>2, FS_CardinalityType

LEMMA NextProduct ==
    ASSUME NEW k \in Nat, NEW c \in Nat
    PROVE  (k + 1) * c = k * c + c /\ k * c \in Nat /\ 0 * c = 0
    OBVIOUS

\* Everybody in the list is paid once for every place in it.
LEMMA TimesSum ==
    ASSUME NEW list \in Seq(Account), NEW c \in Nat
    PROVE  SumFunctionOnSet([a \in Account |-> Times(a, list) * c], Account)
             = Len(list) * c
  <1> DEFINE N(T, a) == Cardinality({i \in T : list[i] = a})
             f(T) == [a \in Account |-> N(T, a) * c]
             Sum(T) == SumFunctionOnSet(f(T), Account)
             D == DOMAIN list
             Bad == {T \in SUBSET D : Sum(T) # Cardinality(T) * c}
  <1>1. SUFFICES Bad = {}
    <2>1. D \notin Bad
      BY <1>1
    <2>2. Sum(D) = Cardinality(D) * c
      BY <2>1
    <2>3. Cardinality(D) = Len(list)
      <3>1. D = 1..Len(list) /\ Len(list) \in Nat
        OBVIOUS
      <3> HIDE DEF D
      <3>2. \A k \in Nat : Cardinality(1..k) = k
        BY FS_Interval
      <3>3. QED
        BY <3>1, <3>2
    <2>4. f(D) = [a \in Account |-> Times(a, list) * c]
      BY DEF Times
    <2>5. QED
      BY <2>2, <2>3, <2>4
  <1>2. SUFFICES ASSUME Bad # {} PROVE FALSE
    OBVIOUS
  <1>3. IsFiniteSet(D)
    <2>1. D = 1..Len(list) /\ Len(list) \in Nat
      OBVIOUS
    <2>2. QED
      BY <2>1, FS_Interval
  <1>4. PICK T \in Bad : \A U \in Bad : ~(U \subseteq T /\ U # T)
    <2> HIDE DEF D
    <2>1. Bad \in SUBSET (SUBSET D)
      OBVIOUS
    <2> HIDE DEF Bad
    <2>2. QED
      BY <1>2, <1>3, <2>1, MinimalSubset
  <1>5. T \in SUBSET D /\ Sum(T) # Cardinality(T) * c /\ IsFiniteSet(T)
    <2>1. T \in SUBSET D /\ Sum(T) # Cardinality(T) * c
      BY <1>4
    <2> HIDE DEF D
    <2>2. IsFiniteSet(T)
      BY <1>3, <2>1, FS_Subset
    <2>3. QED
      BY <2>1, <2>2
  <1>6. \A a \in Account : N({}, a) = 0
    <2>1. \A a \in Account : {i \in {} : list[i] = a} = {}
      OBVIOUS
    <2>2. QED
      BY <2>1, FS_EmptySet
  <1>7. CASE T = {}
    <2>1. \A a \in Account : f(T)[a] = 0
      BY <1>6, <1>7, NextProduct
    <2>2. Sum(T) = 0
      <3> HIDE DEF f
      <3>1. QED
        BY <2>1, AccountAssumption, SumZero
    <2>3. Cardinality(T) = 0
      BY <1>7, FS_EmptySet
    <2>4. QED
      BY <1>5, <2>2, <2>3, NextProduct
  <1>8. CASE T # {}
    <2>1. PICK x \in T : TRUE
      BY <1>8
    <2> DEFINE U == T \ {x}
               b == list[x]
    <2>2. U \in SUBSET D /\ U # T /\ U \subseteq T /\ x \in D /\ b \in Account
      BY <1>5, <2>1
    <2>3. Sum(U) = Cardinality(U) * c
      BY <1>4, <2>2
    <2>4. Cardinality(T) = Cardinality(U) + 1 /\ Cardinality(U) \in Nat
      <3>1. IsFiniteSet(T)
        BY <1>5
      <3>2. IsFiniteSet(U) /\ Cardinality(U) = Cardinality(T) - 1
        BY <2>1, <3>1, FS_RemoveElement
      <3>3. Cardinality(U) \in Nat /\ Cardinality(T) \in Nat
        BY <3>1, <3>2, FS_CardinalityType
      <3>4. QED
        BY <3>2, <3>3
    <2>5. \A a \in Account : N(T, a) \in Nat /\ N(U, a) \in Nat
      BY <1>5, <2>2, TimesBound
    <2>6. \A a \in Account : a # b => N(T, a) = N(U, a)
      <3>1. \A a \in Account : a # b => {i \in T : list[i] = a} = {i \in U : list[i] = a}
        OBVIOUS
      <3>2. QED
        BY <3>1
    <2>7. N(T, b) = N(U, b) + 1
      <3>1. {i \in U : list[i] = b} = {i \in T : list[i] = b} \ {x}
        OBVIOUS
      <3>2. x \in {i \in T : list[i] = b}
        BY <2>1
      <3>3. IsFiniteSet({i \in T : list[i] = b})
        BY <1>5, <2>2, TimesBound
      <3>4. N(U, b) = N(T, b) - 1
        BY <3>1, <3>2, <3>3, FS_RemoveElement
      <3>5. QED
        BY <3>4, <2>5, <2>2
    <2>8. /\ \A a \in Account : f(T)[a] \in Int /\ f(U)[a] \in Int
          /\ \A a \in Account \ {b} : f(T)[a] = f(U)[a]
          /\ f(T)[b] = f(U)[b] + c
      <3>1. \A a \in Account : f(T)[a] = N(T, a) * c /\ f(U)[a] = N(U, a) * c
        OBVIOUS
      <3> HIDE DEF N, f, U, b
      <3>2. (N(U, b) + 1) * c = N(U, b) * c + c
        BY <2>2, <2>5, NextProduct
      <3>3. f(T)[b] = f(U)[b] + c
        BY <2>2, <2>7, <3>1, <3>2
      <3>4. \A a \in Account : f(T)[a] \in Int /\ f(U)[a] \in Int
        <4>1. \A k \in Nat : k * c \in Int
          BY NextProduct
        <4>2. QED
          BY <2>5, <3>1, <4>1
      <3>5. QED
        BY <2>6, <3>1, <3>3, <3>4
    <2>9. Sum(T) = Sum(U) - f(U)[b] + f(T)[b]
      <3> HIDE DEF f, b, U
      <3>1. QED
        BY <2>2, <2>8, AccountAssumption, SumChange
    <2>10. Sum(U) \in Int /\ f(U)[b] \in Int
      <3> HIDE DEF f, b, U
      <3>1. QED
        BY <2>2, <2>8, AccountAssumption, SumInt
    <2>11. Sum(T) = Sum(U) + c
      <3> HIDE DEF Sum, f, b, U
      <3>1. QED
        BY <2>8, <2>9, <2>10
    <2>12. Sum(T) = Cardinality(T) * c
      <3> HIDE DEF Sum, f, b, U
      <3>1. QED
        BY <2>3, <2>4, <2>11, NextProduct
    <2>13. QED
      BY <1>5, <2>12
  <1>9. QED
    BY <1>7, <1>8

\* m approvals' shares are at most half of pre, one is at most the report's,
\* and the two divisions lose less than one token for each in the list.
LEMMA ShareArithmetic ==
    ASSUME NEW pre \in Nat, NEW n \in Nat, n > 1
    PROVE  LET R == ReportReward(pre)
               A == ApproveReward(pre, n)
           IN  /\ R \in Nat /\ A \in Nat
               /\ A <= R
               /\ (R - A) + n * A <= pre
               /\ pre < (R - A) + n * A + n
  <1> DEFINE R == ReportReward(pre)
             A == ApproveReward(pre, n)
             m == n - 1
  <1>1. m \in Nat \ {0} /\ 2 * m \in Nat \ {0}
    OBVIOUS
  <1>2. A = pre \div (2 * m) /\ R = pre \div 2
    BY DEF ApproveReward, ReportReward
  <1>3. A \in Nat /\ (2 * m) * A <= pre /\ pre < (2 * m) * A + 2 * m
    <2> HIDE DEF m
    <2>1. \A d \in Nat \ {0} : /\ pre \div d \in Nat /\ d * (pre \div d) <= pre
                              /\ pre < d * (pre \div d) + d
      OBVIOUS
    <2> HIDE DEF A
    <2>2. QED
      BY <1>1, <1>2, <2>1
  <1>4. R \in Nat /\ 2 * R <= pre /\ pre < 2 * R + 2
    BY <1>2
  <1> HIDE DEF R, A, m
  <1>5. (2 * m) * A = 2 * (m * A) /\ m * A \in Nat /\ A <= m * A
    <2>1. m = (m - 1) + 1 /\ m - 1 \in Nat
      BY <1>1
    <2>2. m * A = (m - 1) * A + A /\ (m - 1) * A \in Nat
      BY <2>1, <1>3, NextProduct
    <2>3. (2 * m) * A = 2 * (m * A)
      BY <1>1, <1>3
    <2>4. QED
      BY <1>3, <2>2, <2>3
  <1>6. n * A = m * A + A
    <2>1. n = m + 1
      BY DEF m
    <2>2. QED
      BY <1>1, <1>3, <2>1, NextProduct
  <1>7. A <= R
    BY <1>3, <1>4, <1>5
  <1>8. (R - A) + n * A <= pre
    BY <1>3, <1>4, <1>5, <1>6
  <1>9. pre < (R - A) + n * A + n
    <2>1. n = m + 1 /\ m \in Nat
      BY <1>1 DEF m
    <2>2. pre < 2 * (m * A) + 2 * m
      BY <1>3, <1>5
    <2>3. (R - A) + n * A = R + m * A
      BY <1>3, <1>4, <1>5, <1>6
    <2>4. QED
      BY <1>4, <1>5, <2>1, <2>2, <2>3
  <1>10. QED
    BY <1>3, <1>4, <1>7, <1>8, <1>9 DEF R, A

\* dealreward adds at most pre to the rewards, and not much less; the first
\* in the list has half of it.
LEMMA DealSum ==
    ASSUME NEW table \in [Account -> Nat], NEW list \in Seq(Account), Len(list) > 1,
           NEW pre \in Nat
    PROVE  LET new == [a \in Account |-> table[a] + Share(a, list, pre)]
           IN  /\ new \in [Account -> Nat]
               /\ SumFunction(new) <= SumFunction(table) + pre
               /\ SumFunction(table) + pre < SumFunction(new) + Len(list)
               /\ new[list[1]] >= table[list[1]] + pre \div 2
  <1> DEFINE R == ReportReward(pre)
             A == ApproveReward(pre, Len(list))
             first == list[1]
             mid == [a \in Account |-> IF a = first THEN table[a] + (R - A) ELSE table[a]]
             part == [a \in Account |-> Times(a, list) * A]
             new == [a \in Account |-> table[a] + Share(a, list, pre)]
  <1>1. /\ R \in Nat /\ A \in Nat /\ A <= R /\ (R - A) + Len(list) * A <= pre
        /\ pre < (R - A) + Len(list) * A + Len(list) /\ Len(list) \in Nat
        /\ R = pre \div 2
    <2>1. Len(list) \in Nat
      OBVIOUS
    <2>2. QED
      BY <2>1, ShareArithmetic DEF ReportReward
  <1>2. first \in Account
    OBVIOUS
  <1>3. \A a \in Account : Share(a, list, pre)
                             = (IF a = first THEN R - A ELSE 0) + Times(a, list) * A
    BY DEF Share
  <1>4. \A a \in Account : Times(a, list) \in Nat
    BY TimesBound DEF Times
  <1> HIDE DEF R, A, first
  <1>5. \A a \in Account : part[a] \in Nat
    BY <1>1, <1>4, NextProduct
  <1>6. mid \in [Account -> Nat]
    BY <1>1
  <1>7. \A a \in Account : new[a] = mid[a] + part[a]
    <2> SUFFICES ASSUME NEW a \in Account PROVE new[a] = mid[a] + part[a]
      OBVIOUS
    <2>1. /\ new[a] = table[a] + ((IF a = first THEN R - A ELSE 0) + part[a])
          /\ mid[a] = table[a] + (IF a = first THEN R - A ELSE 0)
          /\ table[a] \in Int /\ part[a] \in Int /\ R - A \in Int
      BY <1>1, <1>3, <1>5
    <2> HIDE DEF new, mid, part
    <2>2. QED
      BY <2>1
  <1>8. new \in [Account -> Nat]
    <2> HIDE DEF mid, part
    <2>1. \A a \in Account : new[a] \in Nat
      BY <1>5, <1>6, <1>7
    <2>2. QED
      BY <2>1
  <1>9. SumFunctionOnSet(new, Account)
          = SumFunctionOnSet(mid, Account) + SumFunctionOnSet(part, Account)
    <2> HIDE DEF new, mid, part
    <2>1. \A a \in Account : mid[a] \in Int /\ part[a] \in Int
      BY <1>5, <1>6
    <2>2. QED
      BY <2>1, <1>7, AccountAssumption, SumAdd
  <1>10. SumFunctionOnSet(part, Account) = Len(list) * A
    BY <1>1, TimesSum
  <1>11. SumFunction(mid) = SumFunction(table) + (R - A)
    <2>1. mid[first] = table[first] + (R - A) /\ \A a \in Account : a # first => mid[a] = table[a]
      BY <1>2
    <2> HIDE DEF mid
    <2>2. SumFunction(mid) = SumFunction(table) - table[first] + mid[first]
      BY <1>2, <1>6, <2>1, RewardSumChange
    <2>3. SumFunction(table) \in Int /\ table[first] \in Int /\ R - A \in Int
      BY <1>1, <1>2, RewardSumNat
    <2>4. QED
      BY <2>1, <2>2, <2>3
  <1>12. /\ SumFunction(new) <= SumFunction(table) + pre
         /\ SumFunction(table) + pre < SumFunction(new) + Len(list)
    <2> HIDE DEF new, mid, part
    <2>1. /\ SumFunction(new) = SumFunctionOnSet(new, Account)
          /\ SumFunction(mid) = SumFunctionOnSet(mid, Account)
          /\ SumFunction(table) \in Nat
      BY <1>6, <1>8, RewardSumNat
    <2>2. Len(list) * A \in Nat
      BY <1>1, NextProduct
    <2>3. QED
      BY <1>1, <1>9, <1>10, <1>11, <2>1, <2>2
  <1>13. new[first] >= table[first] + pre \div 2
    <2>1. Times(first, list) \in Nat \ {0}
      <3>1. 1 \in {i \in DOMAIN list : list[i] = first}
        BY DEF first
      <3>2. IsFiniteSet({i \in DOMAIN list : list[i] = first})
        BY <1>2, TimesBound
      <3>3. Times(first, list) # 0
        BY <3>1, <3>2, FS_EmptySet DEF Times
      <3>4. QED
        BY <1>2, <1>4, <3>3
    <2>2. Times(first, list) * A >= A
      <3>1. PICK k \in Nat : Times(first, list) = k + 1
        <4>1. Times(first, list) - 1 \in Nat /\ Times(first, list) = (Times(first, list) - 1) + 1
          BY <2>1
        <4>2. QED
          BY <4>1
      <3>2. (k + 1) * A = k * A + A /\ k * A \in Nat
        BY <1>1, NextProduct
      <3>3. QED
        BY <1>1, <3>1, <3>2
    <2>3. mid[first] = table[first] + (R - A) /\ part[first] = Times(first, list) * A
      BY <1>2
    <2>4. new[first] = mid[first] + part[first] /\ part[first] \in Nat /\ table[first] \in Nat
      BY <1>2, <1>5, <1>7
    <2> HIDE DEF new, mid, part
    <2>5. QED
      BY <1>1, <2>2, <2>3, <2>4
  <1>14. QED
    BY <1>8, <1>12, <1>13 DEF new, first

-----------------------------------------------------------------------------
(* The inductive invariant *)

IInv == TypeOK /\ Solvent

LEMMA SolventIs ==
    Solvent <=> ClaimSum(pledges) + SumFunction(rewards) <= held + granted
    BY DEF Solvent, ClaimSum

\* What a row may become: the row i of the table becomes row, and the claims
\* grow by no more than what the other three amounts make room for.
LEMMA RowStep ==
    ASSUME IInv, NEW i \in Rows, NEW row \in PledgeRow,
           row.open => i[1] \in types,
           types' = types,
           pledges' = [pledges EXCEPT ![i] = row],
           rewards' \in [Account -> Nat], balance' \in [Account -> Nat],
           held' \in Nat, granted' \in Int,
           Claims(row) + SumFunction(rewards') - (held' + granted')
             <= Claims(pledges[i]) + SumFunction(rewards) - (held + granted)
    PROVE  IInv'
  <1>1. pledges \in PledgeTable /\ pledges' \in PledgeTable
    BY DEF IInv, TypeOK, PledgeTable, PledgeRow
  <1>2. pledges'[i] = row /\ \A j \in Rows : j # i => pledges'[j] = pledges[j]
    BY <1>1 DEF PledgeTable
  <1>3. TypeOK'
    BY <1>1, <1>2 DEF IInv, TypeOK, PledgeTable, PledgeRow
  <1>4. ClaimSum(pledges') = ClaimSum(pledges) - Claims(pledges[i]) + Claims(row)
    <2>1. \A a, b \in PledgeTable : (\A j \in Rows : j # i => b[j] = a[j]) =>
              ClaimSum(b) = ClaimSum(a) - Claims(a[i]) + Claims(b[i])
      BY ClaimSumChange
    <2>2. ClaimSum(pledges') = ClaimSum(pledges) - Claims(pledges[i]) + Claims(pledges'[i])
      BY <1>1, <1>2, <2>1
    <2>3. QED
      BY <1>2, <2>2
  <1>5. /\ ClaimSum(pledges) \in Int /\ Claims(pledges[i]) \in Int /\ Claims(row) \in Int
    BY <1>1, ClaimSumNat, ClaimsInt DEF PledgeTable
  <1>6. SumFunction(rewards) \in Int /\ SumFunction(rewards') \in Int
    BY RewardSumNat DEF IInv, TypeOK
  <1>7. held \in Int /\ granted \in Int /\ ClaimSum(pledges) + SumFunction(rewards) <= held + granted
    BY SolventIs DEF IInv, TypeOK
  <1>8. ClaimSum(pledges') + SumFunction(rewards') <= held' + granted'
    BY <1>4, <1>5, <1>6, <1>7
  <1>9. Solvent'
    BY <1>8 DEF Solvent, ClaimSum
  <1>10. QED
    BY <1>3, <1>9 DEF IInv

\* A payment that leaves the rows alone.
LEMMA PaymentStep ==
    ASSUME IInv, types' = types, pledges' = pledges, granted' = granted,
           rewards' \in [Account -> Nat], balance' \in [Account -> Nat],
           held' \in Nat,
           SumFunction(rewards') - held' <= SumFunction(rewards) - held
    PROVE  IInv'
  <1>1. TypeOK'
    BY DEF IInv, TypeOK
  <1>2. SumFunction(rewards) \in Int /\ SumFunction(rewards') \in Int /\ ClaimSum(pledges) \in Int
    BY RewardSumNat, ClaimSumNat DEF IInv, TypeOK, PledgeTable, PledgeRow
  <1>3. ClaimSum(pledges) + SumFunction(rewards) <= held + granted /\ held \in Int /\ granted \in Int
    BY SolventIs DEF IInv, TypeOK
  <1>4. ClaimSum(pledges') + SumFunction(rewards') <= held' + granted'
    BY <1>2, <1>3
  <1>5. QED
    BY <1>1, <1>4 DEF IInv, Solvent, ClaimSum

-----------------------------------------------------------------------------
(* One lemma per action *)

LEMMA Initial ==
    ASSUME Init
    PROVE  IInv
  <1>1. TypeOK
    BY AmountAssumption DEF Init, TypeOK, NoRow
  <1>2. ClaimSum(pledges) = 0
    <2> DEFINE f == [i \in Rows |-> Claims(pledges[i])]
    <2>1. \A i \in Rows : f[i] = 0
      BY DEF Init, NoRow, Claims, Unspent, Most0, Least0
    <2>2. SumFunction(f) = SumFunctionOnSet(f, Rows)
      BY DEF SumFunction
    <2>3. SumFunctionOnSet(f, Rows) = 0
      <3> HIDE DEF f
      <3>1. QED
        BY <2>1, FiniteRows, SumZero
    <2>4. QED
      BY <2>2, <2>3 DEF ClaimSum
  <1>3. SumFunction(rewards) = 0
    <2>1. rewards \in [Account -> Nat] /\ \A a \in Account : rewards[a] = 0
      BY DEF Init
    <2>2. SumFunctionOnSet(rewards, Account) = 0
      BY <2>1, AccountAssumption, SumZero
    <2>3. QED
      BY <2>1, <2>2, RewardSumNat
  <1>4. QED
    BY <1>1, <1>2, <1>3, SolventIs DEF IInv, Init

LEMMA AddTypeStep ==
    ASSUME IInv, NEW t \in PledgeType, AddType(t)
    PROVE  IInv'
  <1>1. TypeOK'
    BY DEF IInv, TypeOK, AddType
  <1>2. Solvent'
    BY DEF IInv, Solvent, AddType
  <1>3. QED
    BY <1>1, <1>2 DEF IInv

LEMMA DonateStep ==
    ASSUME IInv, NEW from \in Account, NEW q \in Quantities, Donate(from, q)
    PROVE  IInv'
  <1>1. q \in Nat /\ held \in Nat /\ balance \in [Account -> Nat]
    BY AmountAssumption DEF IInv, TypeOK, Donate
  <1>2. balance' \in [Account -> Nat] /\ held' = held + q
    BY <1>1 DEF Donate
  <1>3. rewards' = rewards /\ rewards \in [Account -> Nat] /\ SumFunction(rewards) \in Int
    BY RewardSumNat DEF IInv, TypeOK, Donate
  <1>4. SumFunction(rewards') - held' <= SumFunction(rewards) - held
    BY <1>1, <1>2, <1>3
  <1>5. QED
    BY <1>1, <1>2, <1>3, <1>4, PaymentStep DEF Donate

LEMMA GetRewardStep ==
    ASSUME IInv, NEW a \in Account, GetReward(a)
    PROVE  IInv'
  <1>1. held \in Nat /\ balance \in [Account -> Nat] /\ rewards \in [Account -> Nat]
    BY DEF IInv, TypeOK
  <1>2. /\ rewards[a] \in Nat /\ held' = held - rewards[a] /\ held' \in Nat
        /\ balance' \in [Account -> Nat] /\ rewards' \in [Account -> Nat]
        /\ rewards'[a] = 0 /\ \A b \in Account : b # a => rewards'[b] = rewards[b]
    BY <1>1 DEF GetReward
  <1>3. \A x, y \in [Account -> Nat] : (\A b \in Account : b # a => y[b] = x[b]) =>
            SumFunction(y) = SumFunction(x) - x[a] + y[a]
    BY RewardSumChange
  <1>4. SumFunction(rewards') = SumFunction(rewards) - rewards[a] /\ SumFunction(rewards) \in Int
    BY <1>1, <1>2, <1>3, RewardSumNat
  <1>5. SumFunction(rewards') - held' <= SumFunction(rewards) - held
    BY <1>1, <1>2, <1>4
  <1>6. QED
    BY <1>2, <1>5, PaymentStep DEF GetReward

LEMMA RowFacts ==
    ASSUME IInv, NEW t \in PledgeType, NEW a \in Account
    PROVE  /\ <<t, a>> \in Rows /\ <<t, a>>[1] = t
           /\ pledges[<<t, a>>] \in PledgeRow
           /\ pledges[<<t, a>>].pledge \in Int /\ pledges[<<t, a>>].deduction \in Int
           /\ pledges[<<t, a>>].open \in BOOLEAN
           /\ pledges[<<t, a>>].open => t \in types
           /\ pledges \in [Rows -> PledgeRow]
           /\ rewards \in [Account -> Nat] /\ balance \in [Account -> Nat]
           /\ held \in Nat /\ granted \in Int
           /\ SumFunction(rewards) \in Int
  <1>1. <<t, a>> \in Rows /\ <<t, a>>[1] = t
    BY DEF Rows
  <1>2. pledges \in [Rows -> PledgeRow]
    BY DEF IInv, TypeOK, PledgeRow
  <1>3. pledges[<<t, a>>] \in PledgeRow /\ (pledges[<<t, a>>].open => t \in types)
    BY <1>1, <1>2 DEF IInv, TypeOK
  <1>4. SumFunction(rewards) \in Int
    BY RewardSumNat DEF IInv, TypeOK
  <1>5. QED
    BY <1>1, <1>2, <1>3, <1>4 DEF PledgeRow, IInv, TypeOK

\* How the claims of a row follow its amounts: a deposit adds to them what it
\* is worth at most, a deduction nothing, and what is paid out is taken off.
LEMMA DepositClaims ==
    ASSUME NEW row \in PledgeRow, NEW q \in Nat
    PROVE  LET new == [open |-> TRUE, pledge |-> row.pledge + q,
                       deduction |-> row.deduction]
           IN  /\ new \in PledgeRow /\ Claims(new) \in Int /\ Claims(row) \in Int
               /\ Claims(new) <= Claims(row) + q
  <1>1. row.pledge \in Int /\ row.deduction \in Int
    BY DEF PledgeRow
  <1>2. QED
    BY <1>1 DEF Claims, Unspent, Most0, Least0, PledgeRow

LEMMA DeductionClaims ==
    ASSUME NEW row \in PledgeRow, NEW q \in Nat
    PROVE  LET new == [open |-> TRUE, pledge |-> row.pledge - q,
                       deduction |-> row.deduction + q]
           IN  /\ new \in PledgeRow /\ Claims(new) \in Int /\ Claims(row) \in Int
               /\ Claims(new) <= Claims(row)
  <1>1. row.pledge \in Int /\ row.deduction \in Int
    BY DEF PledgeRow
  <1>2. QED
    BY <1>1 DEF Claims, Unspent, Most0, Least0, PledgeRow

LEMMA WithdrawalClaims ==
    ASSUME NEW row \in PledgeRow, NEW q \in Nat, q <= row.pledge
    PROVE  LET new == [open |-> row.open, pledge |-> row.pledge - q,
                       deduction |-> row.deduction]
           IN  /\ new \in PledgeRow /\ Claims(new) \in Int /\ Claims(row) \in Int
               /\ Claims(new) = Claims(row) - q
               /\ [row EXCEPT !.pledge = row.pledge - q] = new
  <1>1. row.pledge \in Int /\ row.deduction \in Int /\ row.open \in BOOLEAN
    BY DEF PledgeRow
  <1>2. [row EXCEPT !.pledge = row.pledge - q]
          = [open |-> row.open, pledge |-> row.pledge - q, deduction |-> row.deduction]
    BY DEF PledgeRow
  <1>3. QED
    BY <1>1, <1>2 DEF Claims, Unspent, Most0, Least0, PledgeRow

LEMMA AllotmentClaims ==
    ASSUME NEW row \in PledgeRow, NEW q \in Nat, q <= PreAllot(row)
    PROVE  LET new == [open |-> row.open, pledge |-> row.pledge,
                       deduction |-> row.deduction - q]
           IN  /\ new \in PledgeRow /\ Claims(new) \in Int /\ Claims(row) \in Int
               /\ Claims(new) = Claims(row) - q
               /\ [row EXCEPT !.deduction = row.deduction - q] = new
  <1>1. row.pledge \in Int /\ row.deduction \in Int /\ row.open \in BOOLEAN
    BY DEF PledgeRow
  <1>2. [row EXCEPT !.deduction = row.deduction - q]
          = [open |-> row.open, pledge |-> row.pledge, deduction |-> row.deduction - q]
    BY DEF PledgeRow
  <1>3. QED
    BY <1>1, <1>2 DEF Claims, Unspent, PreAllot, Most0, Least0, PledgeRow


LEMMA AddPledgeStep ==
    ASSUME IInv, NEW t \in PledgeType, NEW a \in Account, NEW q \in Quantities,
           AddPledge(t, a, q)
    PROVE  IInv'
  <1> DEFINE i == <<t, a>>
             row == pledges[i]
             new == [open |-> TRUE, pledge |-> row.pledge + q, deduction |-> row.deduction]
  <1>1. /\ i \in Rows /\ i[1] = t /\ row \in PledgeRow /\ (row.open => t \in types)
        /\ row.pledge \in Int /\ row.deduction \in Int
        /\ pledges \in [Rows -> PledgeRow]
        /\ rewards \in [Account -> Nat] /\ balance \in [Account -> Nat]
        /\ held \in Nat /\ granted \in Int /\ SumFunction(rewards) \in Int
    BY RowFacts
  <1>2. q \in Nat
    BY <1>1, AmountAssumption DEF AddPledge
  <1>3. /\ new \in PledgeRow /\ Claims(new) \in Int /\ Claims(row) \in Int
        /\ Claims(new) <= Claims(row) + q
    <2> HIDE DEF row
    <2>1. QED
      BY <1>1, <1>2, DepositClaims
  <1>4. pledges' = [pledges EXCEPT ![i] = new]
    BY <1>1 DEF AddPledge
  <1>5. held' = held + q /\ balance' \in [Account -> Nat] /\ t \in types
        /\ rewards' = rewards /\ granted' = granted /\ types' = types
    BY <1>1, <1>2 DEF AddPledge, CheckPledgeType
  <1>6. rewards' \in [Account -> Nat] /\ SumFunction(rewards') <= SumFunction(rewards)
        /\ SumFunction(rewards') \in Int
    BY <1>1, <1>5
  <1>7. Claims(new) + SumFunction(rewards') - (held' + granted')
          <= Claims(row) + SumFunction(rewards) - (held + granted)
    <2> HIDE DEF new, row, i
    <2>1. QED
      BY <1>1, <1>2, <1>3, <1>5, <1>6
  <1>8. (new.open => i[1] \in types) /\ granted' \in Int /\ held' \in Nat
        /\ balance' \in [Account -> Nat]
    BY <1>1, <1>2, <1>5
  <1>9. QED
    <2>1. Claims(pledges[i]) = Claims(row)
      OBVIOUS
    <2> HIDE DEF new, i, row
    <2>2. QED
      BY <1>1, <1>3, <1>4, <1>5, <1>6, <1>7, <1>8, <2>1, RowStep

LEMMA DeductionStep ==
    ASSUME IInv, NEW t \in PledgeType, NEW a \in Account, NEW q \in Quantities,
           Deduction(t, a, q)
    PROVE  IInv'
  <1> DEFINE i == <<t, a>>
             row == pledges[i]
             new == [open |-> TRUE, pledge |-> row.pledge - q, deduction |-> row.deduction + q]
  <1>1. /\ i \in Rows /\ i[1] = t /\ row \in PledgeRow /\ (row.open => t \in types)
        /\ row.pledge \in Int /\ row.deduction \in Int
        /\ pledges \in [Rows -> PledgeRow]
        /\ rewards \in [Account -> Nat] /\ balance \in [Account -> Nat]
        /\ held \in Nat /\ granted \in Int /\ SumFunction(rewards) \in Int
    BY RowFacts
  <1>2. q \in Nat
    BY <1>1, AmountAssumption DEF Deduction
  <1>3. /\ new \in PledgeRow /\ Claims(new) \in Int /\ Claims(row) \in Int
        /\ Claims(new) <= Claims(row)
    <2> HIDE DEF row
    <2>1. QED
      BY <1>1, <1>2, DeductionClaims
  <1>4. pledges' = [pledges EXCEPT ![i] = new]
    BY <1>1 DEF Deduction
  <1>5. held' = held /\ balance' = balance /\ t \in types
        /\ rewards' = rewards /\ granted' = granted /\ types' = types
    BY DEF Deduction, CheckPledgeType
  <1>6. rewards' \in [Account -> Nat] /\ SumFunction(rewards') <= SumFunction(rewards)
        /\ SumFunction(rewards') \in Int
    BY <1>1, <1>5
  <1>7. Claims(new) + SumFunction(rewards') - (held' + granted')
          <= Claims(row) + SumFunction(rewards) - (held + granted)
    <2> HIDE DEF new, row, i
    <2>1. QED
      BY <1>1, <1>2, <1>3, <1>5, <1>6
  <1>8. (new.open => i[1] \in types) /\ granted' \in Int /\ held' \in Nat
        /\ balance' \in [Account -> Nat]
    BY <1>1, <1>2, <1>5
  <1>9. QED
    <2>1. Claims(pledges[i]) = Claims(row)
      OBVIOUS
    <2> HIDE DEF new, i, row
    <2>2. QED
      BY <1>1, <1>3, <1>4, <1>5, <1>6, <1>7, <1>8, <2>1, RowStep

LEMMA WithdrawStep ==
    ASSUME IInv, NEW t \in PledgeType, NEW a \in Account, NEW q \in Quantities,
           Withdraw(t, a, q)
    PROVE  IInv'
  <1> DEFINE i == <<t, a>>
             row == pledges[i]
             new == [open |-> row.open, pledge |-> row.pledge - q, deduction |-> row.deduction]
  <1>1. /\ i \in Rows /\ i[1] = t /\ row \in PledgeRow /\ (row.open => t \in types)
        /\ row.pledge \in Int /\ row.deduction \in Int
        /\ pledges \in [Rows -> PledgeRow]
        /\ rewards \in [Account -> Nat] /\ balance \in [Account -> Nat]
        /\ held \in Nat /\ granted \in Int /\ SumFunction(rewards) \in Int
    BY RowFacts
  <1>2. q \in Nat /\ q <= row.pledge
    BY <1>1, AmountAssumption DEF Withdraw
  <1>3. /\ new \in PledgeRow /\ Claims(new) \in Int /\ Claims(row) \in Int
        /\ Claims(new) = Claims(row) - q
    <2> HIDE DEF row
    <2>1. QED
      BY <1>1, <1>2, WithdrawalClaims
  <1>4. pledges' = [pledges EXCEPT ![i] = new]
    <2>1. [row EXCEPT !.pledge = row.pledge - q] = new
      <3> HIDE DEF row
      <3>1. QED
        BY <1>1, <1>2, WithdrawalClaims
    <2>2. pledges' = [pledges EXCEPT ![i] = [row EXCEPT !.pledge = row.pledge - q]]
      BY <1>1 DEF Withdraw
    <2>3. QED
      BY <2>1, <2>2
  <1>5. held' = held - q /\ held' \in Nat /\ balance' \in [Account -> Nat]
        /\ rewards' = rewards /\ granted' = granted /\ types' = types
    BY <1>1, <1>2 DEF Withdraw
  <1>6. rewards' \in [Account -> Nat] /\ SumFunction(rewards') <= SumFunction(rewards)
        /\ SumFunction(rewards') \in Int
    BY <1>1, <1>5
  <1>7. Claims(new) + SumFunction(rewards') - (held' + granted')
          <= Claims(row) + SumFunction(rewards) - (held + granted)
    <2> HIDE DEF new, row, i
    <2>1. QED
      BY <1>1, <1>2, <1>3, <1>5, <1>6
  <1>8. (new.open => i[1] \in types) /\ granted' \in Int /\ held' \in Nat
        /\ balance' \in [Account -> Nat]
    BY <1>1, <1>5
  <1>9. QED
    <2>1. Claims(pledges[i]) = Claims(row)
      OBVIOUS
    <2> HIDE DEF new, i, row
    <2>2. QED
      BY <1>1, <1>3, <1>4, <1>5, <1>6, <1>7, <1>8, <2>1, RowStep

LEMMA AllotRewardStep ==
    ASSUME IInv, NEW t \in PledgeType, NEW a \in Account, NEW b \in Account, NEW q \in Quantities,
           AllotReward(t, a, b, q)
    PROVE  IInv'
  <1> DEFINE i == <<t, a>>
             row == pledges[i]
             new == [open |-> row.open, pledge |-> row.pledge, deduction |-> row.deduction - q]
  <1>1. /\ i \in Rows /\ i[1] = t /\ row \in PledgeRow /\ (row.open => t \in types)
        /\ row.pledge \in Int /\ row.deduction \in Int
        /\ pledges \in [Rows -> PledgeRow]
        /\ rewards \in [Account -> Nat] /\ balance \in [Account -> Nat]
        /\ held \in Nat /\ granted \in Int /\ SumFunction(rewards) \in Int
    BY RowFacts
  <1>2. q \in Nat /\ q <= PreAllot(row)
    BY <1>1, AmountAssumption DEF AllotReward
  <1>3. /\ new \in PledgeRow /\ Claims(new) \in Int /\ Claims(row) \in Int
        /\ Claims(new) = Claims(row) - q
    <2> HIDE DEF row
    <2>1. QED
      BY <1>1, <1>2, AllotmentClaims
  <1>4. pledges' = [pledges EXCEPT ![i] = new]
    <2>1. [row EXCEPT !.deduction = row.deduction - q] = new
      <3> HIDE DEF row
      <3>1. QED
        BY <1>1, <1>2, AllotmentClaims
    <2>2. pledges' = [pledges EXCEPT ![i] = [row EXCEPT !.deduction = row.deduction - q]]
      BY <1>1 DEF AllotReward
    <2>3. QED
      BY <2>1, <2>2
  <1>5. /\ held' = held /\ balance' = balance /\ granted' = granted /\ types' = types
        /\ rewards' \in [Account -> Nat] /\ rewards'[b] = rewards[b] + q
        /\ rewards[b] \in Nat /\ \A c \in Account : c # b => rewards'[c] = rewards[c]
    BY <1>1, <1>2 DEF AllotReward
  <1>6. rewards' \in [Account -> Nat] /\ SumFunction(rewards') <= SumFunction(rewards) + q
        /\ SumFunction(rewards') \in Int
    <2>1. \A x, y \in [Account -> Nat] : (\A c \in Account : c # b => y[c] = x[c]) =>
              SumFunction(y) = SumFunction(x) - x[b] + y[b]
      BY RewardSumChange
    <2>2. SumFunction(rewards') = SumFunction(rewards) - rewards[b] + rewards'[b]
      BY <1>1, <1>5, <2>1
    <2>3. QED
      BY <1>1, <1>2, <1>5, <2>2
  <1>7. Claims(new) + SumFunction(rewards') - (held' + granted')
          <= Claims(row) + SumFunction(rewards) - (held + granted)
    <2> HIDE DEF new, row, i
    <2>1. QED
      BY <1>1, <1>2, <1>3, <1>5, <1>6
  <1>8. (new.open => i[1] \in types) /\ granted' \in Int /\ held' \in Nat
        /\ balance' \in [Account -> Nat]
    BY <1>1, <1>5
  <1>9. QED
    <2>1. Claims(pledges[i]) = Claims(row)
      OBVIOUS
    <2> HIDE DEF new, i, row
    <2>2. QED
      BY <1>1, <1>3, <1>4, <1>5, <1>6, <1>7, <1>8, <2>1, RowStep

LEMMA DealRewardStep ==
    ASSUME IInv, NEW t \in PledgeType, NEW a \in Account, NEW list \in Rewarders,
           DealReward(t, a, list)
    PROVE  IInv'
  <1> DEFINE i == <<t, a>>
             row == pledges[i]
             pre == PreAllot(row)
             new == [open |-> row.open, pledge |-> row.pledge, deduction |-> row.deduction - pre]
  <1>1. /\ i \in Rows /\ i[1] = t /\ row \in PledgeRow /\ (row.open => t \in types)
        /\ row.pledge \in Int /\ row.deduction \in Int
        /\ pledges \in [Rows -> PledgeRow]
        /\ rewards \in [Account -> Nat] /\ balance \in [Account -> Nat]
        /\ held \in Nat /\ granted \in Int /\ SumFunction(rewards) \in Int
    BY RowFacts
  <1>2. pre \in Nat /\ pre <= PreAllot(row) /\ list \in Seq(Account) /\ Len(list) > 1
    <2>1. pre \in Int /\ 0 < pre
      BY <1>1, ClaimsInt DEF DealReward
    <2>2. QED
      BY <2>1, RewarderAssumption DEF DealReward
  <1>3. /\ new \in PledgeRow /\ Claims(new) \in Int /\ Claims(row) \in Int
        /\ Claims(new) = Claims(row) - pre
    <2> HIDE DEF row, pre
    <2>1. QED
      BY <1>1, <1>2, AllotmentClaims
  <1>4. pledges' = [pledges EXCEPT ![i] = new]
    <2>1. [row EXCEPT !.deduction = row.deduction - pre] = new
      <3> HIDE DEF row, pre
      <3>1. QED
        BY <1>1, <1>2, AllotmentClaims
    <2>2. pledges' = [pledges EXCEPT ![i] = [row EXCEPT !.deduction = row.deduction - pre]]
      BY <1>1 DEF DealReward
    <2>3. QED
      BY <2>1, <2>2
  <1>5. /\ held' = held /\ balance' = balance /\ granted' = granted /\ types' = types
        /\ rewards' = [b \in Account |-> rewards[b] + Share(b, list, pre)]
    BY DEF DealReward
  <1>6. /\ rewards' \in [Account -> Nat]
        /\ SumFunction(rewards') <= SumFunction(rewards) + pre
        /\ SumFunction(rewards') \in Int
    <2> HIDE DEF row, pre
    <2>1. /\ rewards' \in [Account -> Nat]
          /\ SumFunction(rewards') <= SumFunction(rewards) + pre
      <3> DEFINE dealt == [b \in Account |-> rewards[b] + Share(b, list, pre)]
      <3>1. /\ dealt \in [Account -> Nat]
            /\ SumFunction(dealt) <= SumFunction(rewards) + pre
            /\ SumFunction(rewards) + pre < SumFunction(dealt) + Len(list)
            /\ dealt[list[1]] >= rewards[list[1]] + pre \div 2
        BY <1>1, <1>2, DealSum
      <3>2. rewards' = dealt
        BY <1>5
      <3> HIDE DEF dealt
      <3>3. QED
        BY <3>1, <3>2
    <2>2. QED
      BY <2>1, RewardSumNat
  <1>7. Claims(new) + SumFunction(rewards') - (held' + granted')
          <= Claims(row) + SumFunction(rewards) - (held + granted)
    <2> HIDE DEF new, row, i, pre
    <2>1. QED
      BY <1>1, <1>2, <1>3, <1>5, <1>6
  <1>8. (new.open => i[1] \in types) /\ granted' \in Int /\ held' \in Nat
        /\ balance' \in [Account -> Nat]
    BY <1>1, <1>5
  <1>9. QED
    <2>1. Claims(pledges[i]) = Claims(row)
      OBVIOUS
    <2> HIDE DEF new, i, row, pre
    <2>2. QED
      BY <1>1, <1>3, <1>4, <1>5, <1>6, <1>7, <1>8, <2>1, RowStep

LEMMA AmendPledgeStep ==
    ASSUME IInv, NEW t \in PledgeType, NEW a \in Account, NEW amended \in Amendments,
           AmendPledge(t, a, amended)
    PROVE  IInv'
  <1> DEFINE i == <<t, a>>
             row == pledges[i]
             new == [open |-> TRUE, pledge |-> amended.pledge, deduction |-> amended.deduction]
  <1>1. /\ i \in Rows /\ i[1] = t /\ row \in PledgeRow /\ (row.open => t \in types)
        /\ row.pledge \in Int /\ row.deduction \in Int
        /\ pledges \in [Rows -> PledgeRow]
        /\ rewards \in [Account -> Nat] /\ balance \in [Account -> Nat]
        /\ held \in Nat /\ granted \in Int /\ SumFunction(rewards) \in Int
    BY RowFacts
  <1>2. new \in PledgeRow
    BY AmendmentAssumption DEF PledgeRow
  <1>3. /\ new \in PledgeRow /\ Claims(new) \in Int /\ Claims(row) \in Int
    <2> HIDE DEF row
    <2>1. QED
      BY <1>1, <1>2, ClaimsInt
  <1>4. pledges' = [pledges EXCEPT ![i] = new]
    BY <1>1 DEF AmendPledge
  <1>5. /\ granted' = granted + (Claims(new) - Claims(row))
        /\ held' = held /\ balance' = balance /\ types' = types /\ rewards' = rewards
        /\ t \in types
    BY <1>1 DEF AmendPledge
  <1>6. rewards' \in [Account -> Nat] /\ SumFunction(rewards') <= SumFunction(rewards)
        /\ SumFunction(rewards') \in Int
    BY <1>1, <1>5
  <1>7. Claims(new) + SumFunction(rewards') - (held' + granted')
          <= Claims(row) + SumFunction(rewards) - (held + granted)
    <2> HIDE DEF new, row, i
    <2>1. QED
      BY <1>1, <1>2, <1>3, <1>5, <1>6
  <1>8. (new.open => i[1] \in types) /\ granted' \in Int /\ held' \in Nat
        /\ balance' \in [Account -> Nat]
    BY <1>1, <1>3, <1>5
  <1>9. QED
    <2>1. Claims(pledges[i]) = Claims(row)
      OBVIOUS
    <2> HIDE DEF new, i, row
    <2>2. QED
      BY <1>1, <1>3, <1>4, <1>5, <1>6, <1>7, <1>8, <2>1, RowStep

\* Open and Close exchange a row of zeros for none.
LEMMA OpenCloseStep ==
    ASSUME IInv, NEW t \in PledgeType, NEW a \in Account, Open(t, a) \/ Close(t, a)
    PROVE  IInv'
  <1> DEFINE i == <<t, a>>
  <1>1. PICK new \in {ZeroRow, NoRow} : pledges' = [pledges EXCEPT ![i] = new]
    BY DEF Open, Close
  <1>2. t \in types
    BY DEF Open, Close
  <1>3. new \in PledgeRow /\ Claims(new) = 0
    <2>1. /\ ZeroRow \in PledgeRow /\ NoRow \in PledgeRow
          /\ ZeroRow.pledge = 0 /\ ZeroRow.deduction = 0
          /\ NoRow.pledge = 0 /\ NoRow.deduction = 0
      BY DEF ZeroRow, NoRow, PledgeRow
    <2>2. Claims(ZeroRow) = 0 /\ Claims(NoRow) = 0
      BY <2>1 DEF Claims, Unspent, Most0, Least0
    <2>3. QED
      BY <2>1, <2>2
  <1>4. /\ held' = held /\ balance' = balance /\ granted' = granted /\ types' = types
        /\ rewards' = rewards
    BY DEF Open, Close
  <1>5. /\ i \in Rows /\ i[1] = t /\ pledges[i] \in PledgeRow
        /\ rewards \in [Account -> Nat] /\ balance \in [Account -> Nat]
        /\ held \in Nat /\ granted \in Int /\ SumFunction(rewards) \in Int
    BY RowFacts
  <1>6. Claims(pledges[i]) \in Nat
    BY <1>5, ClaimsInt
  <1> HIDE DEF i
  <1>7. Claims(new) + SumFunction(rewards') - (held' + granted')
          <= Claims(pledges[i]) + SumFunction(rewards) - (held + granted)
    BY <1>3, <1>4, <1>5, <1>6
  <1>8. QED
    BY <1>1, <1>2, <1>3, <1>4, <1>5, <1>7, RowStep

-----------------------------------------------------------------------------
LEMMA Step ==
    ASSUME IInv, [Next]_vars
    PROVE  IInv'
  <1>1. CASE UNCHANGED vars
    BY <1>1 DEF vars, IInv, TypeOK, Solvent
  <1>2. ASSUME NEW a \in Account, NEW q \in Quantities, Donate(a, q)
        PROVE  IInv'
    BY <1>2, DonateStep
  <1>3. ASSUME NEW a \in Account, GetReward(a)
        PROVE  IInv'
    BY <1>3, GetRewardStep
  <1>4. ASSUME NEW t \in PledgeType, AddType(t)
        PROVE  IInv'
    BY <1>4, AddTypeStep
  <1>5. ASSUME NEW t \in PledgeType, NEW a \in Account, Open(t, a) \/ Close(t, a)
        PROVE  IInv'
    BY <1>5, OpenCloseStep
  <1>6. ASSUME NEW t \in PledgeType, NEW a \in Account, NEW q \in Quantities,
               AddPledge(t, a, q) \/ Deduction(t, a, q) \/ Withdraw(t, a, q)
        PROVE  IInv'
    BY <1>6, AddPledgeStep, DeductionStep, WithdrawStep
  <1>7. ASSUME NEW t \in PledgeType, NEW a \in Account, NEW b \in Account,
               NEW q \in Quantities, AllotReward(t, a, b, q)
        PROVE  IInv'
    BY <1>7, AllotRewardStep
  <1>8. ASSUME NEW t \in PledgeType, NEW a \in Account, NEW list \in Rewarders,
               DealReward(t, a, list)
        PROVE  IInv'
    BY <1>8, DealRewardStep
  <1>9. ASSUME NEW t \in PledgeType, NEW a \in Account, NEW row \in Amendments,
               AmendPledge(t, a, row)
        PROVE  IInv'
    BY <1>9, AmendPledgeStep
  <1>10. QED
    BY <1>1, <1>2, <1>3, <1>4, <1>5, <1>6, <1>7, <1>8, <1>9 DEF Next

\* Both conjuncts of the invariant hold in every reachable state.
THEOREM Invariance == Spec => []IInv
  <1>1. Init => IInv
    BY Initial
  <1>2. IInv /\ [Next]_vars => IInv'
    BY Step
  <1>3. QED
    BY <1>1, <1>2, PTL DEF Spec

\* Every reachable state is well typed: no reward, no balance and not the
\* contract's own falls below zero, whatever is deducted, dealt or amended.
THEOREM TypeCorrect == Spec => []TypeOK
  <1>1. IInv => TypeOK
    BY DEF IInv
  <1>2. QED
    BY <1>1, Invariance, PTL

\* The contract can pay what its tables promise, for any number of accounts,
\* pledge types and rewarders.
THEOREM AlwaysSolvent == Spec => []Solvent
  <1>1. IInv => Solvent
    BY DEF IInv
  <1>2. QED
    BY <1>1, Invariance, PTL

-----------------------------------------------------------------------------
(* Remainders *)

\* dealreward gives away what was taken but for the remainders of its two
\* divisions, less than one unit for each in the list, and half of it to who
\* reported, for any list and also if accounts stand in it twice
\* (eosio.pledge.cpp:218).
THEOREM DealsLoseLittle == Spec => DealLosesLittle
  <1> DEFINE Little ==
        \A t \in PledgeType, a \in Account, list \in Rewarders :
          DealReward(t, a, list) =>
             LET pre == PreAllot(pledges[<<t, a>>])
                 dealt == SumFunction(rewards') - SumFunction(rewards)
             IN  /\ dealt <= pre
                 /\ pre < dealt + Len(list)
                 /\ rewards'[list[1]] - rewards[list[1]] >= pre \div 2
  <1>1. IInv => Little
    <2> SUFFICES ASSUME IInv, NEW t \in PledgeType, NEW a \in Account, NEW list \in Rewarders,
                        DealReward(t, a, list)
                 PROVE  LET pre == PreAllot(pledges[<<t, a>>])
                            dealt == SumFunction(rewards') - SumFunction(rewards)
                        IN  /\ dealt <= pre
                            /\ pre < dealt + Len(list)
                            /\ rewards'[list[1]] - rewards[list[1]] >= pre \div 2
      OBVIOUS
    <2>1. PICK pre : pre = PreAllot(pledges[<<t, a>>])
      OBVIOUS
    <2>2. /\ rewards \in [Account -> Nat] /\ SumFunction(rewards) \in Int
          /\ <<t, a>> \in Rows
          /\ pledges[<<t, a>>].pledge \in Int /\ pledges[<<t, a>>].deduction \in Int
          /\ pledges[<<t, a>>] \in PledgeRow
      BY RowFacts
    <2>3. pre \in Nat /\ list \in Seq(Account) /\ Len(list) > 1 /\ Len(list) \in Nat
      <3>1. pre \in Int /\ 0 < pre
        BY <2>1, <2>2, ClaimsInt DEF DealReward
      <3>2. QED
        BY <3>1, RewarderAssumption DEF DealReward
    <2>4. rewards' = [b \in Account |-> rewards[b] + Share(b, list, pre)]
      BY <2>1 DEF DealReward
    <2>5. PICK table \in [Account -> Nat] : table = rewards
      BY <2>2
    <2> DEFINE new == rewards'
    <2>6. new = [b \in Account |-> table[b] + Share(b, list, pre)]
      BY <2>4, <2>5
    <2> HIDE DEF new
    <2>7. /\ new \in [Account -> Nat]
          /\ SumFunction(new) <= SumFunction(table) + pre
          /\ SumFunction(table) + pre < SumFunction(new) + Len(list)
          /\ new[list[1]] >= table[list[1]] + pre \div 2
      <3> DEFINE given == [b \in Account |-> table[b] + Share(b, list, pre)]
      <3>1. /\ given \in [Account -> Nat]
            /\ SumFunction(given) <= SumFunction(table) + pre
            /\ SumFunction(table) + pre < SumFunction(given) + Len(list)
            /\ given[list[1]] >= table[list[1]] + pre \div 2
        BY <2>3, DealSum
      <3> HIDE DEF given
      <3>2. given = new
        BY <2>6 DEF given
      <3>3. QED
        BY <3>1, <3>2
    <2>8. SumFunction(new) \in Nat /\ SumFunction(table) \in Nat
      BY <2>7, RewardSumNat
    <2>9. new[list[1]] \in Nat /\ table[list[1]] \in Nat /\ pre \div 2 \in Nat
      <3>1. list[1] \in Account
        BY <2>3
      <3>2. QED
        BY <2>3, <2>7, <3>1
    <2>10. /\ SumFunction(new) - SumFunction(table) <= pre
           /\ pre < (SumFunction(new) - SumFunction(table)) + Len(list)
           /\ new[list[1]] - table[list[1]] >= pre \div 2
      BY <2>3, <2>7, <2>8, <2>9
    <2>11. QED
      BY <2>1, <2>5, <2>10 DEF new
  <1>2. IInv /\ [Next]_vars => [Little]_vars
    BY <1>1
  <1>3. QED
    BY <1>2, Invariance, PTL DEF Spec, DealLosesLittle

-----------------------------------------------------------------------------
(* Debts *)

AmendmentsBacked == \A row \in Amendments : 0 <= Unspent(row)

\* Only one row changes at a time.
LEMMA DebtRowStep ==
    ASSUME IInv, DebtIsUnspent, NEW i \in Rows,
           \A j \in Rows : j # i => pledges'[j] = pledges[j],
           0 <= Unspent(pledges'[i])
    PROVE  DebtIsUnspent'
    BY DEF DebtIsUnspent

LEMMA DebtStep ==
    ASSUME IInv, DebtIsUnspent, AmendmentsBacked, [Next]_vars
    PROVE  DebtIsUnspent'
  <1>1. CASE pledges' = pledges
    BY <1>1 DEF DebtIsUnspent
  <1>2. ASSUME NEW t \in PledgeType, NEW a \in Account, Open(t, a) \/ Close(t, a)
        PROVE  DebtIsUnspent'
    <2>1. /\ <<t, a>> \in Rows /\ pledges \in [Rows -> PledgeRow]
          /\ pledges' = [pledges EXCEPT ![<<t, a>>] = ZeroRow]
             \/ pledges' = [pledges EXCEPT ![<<t, a>>] = NoRow]
      BY <1>2, RowFacts DEF Open, Close
    <2>2. 0 <= Unspent(ZeroRow) /\ 0 <= Unspent(NoRow)
      <3>1. /\ ZeroRow.pledge = 0 /\ ZeroRow.deduction = 0
            /\ NoRow.pledge = 0 /\ NoRow.deduction = 0
        BY DEF ZeroRow, NoRow
      <3>2. QED
        BY <3>1 DEF Unspent, Least0
    <2>3. 0 <= Unspent(pledges'[<<t, a>>])
      BY <2>1, <2>2
    <2>4. \A j \in Rows : j # <<t, a>> => pledges'[j] = pledges[j]
      BY <2>1
    <2>5. QED
      BY <2>1, <2>3, <2>4, DebtRowStep
  <1>3. ASSUME NEW t \in PledgeType, NEW a \in Account, NEW q \in Quantities,
               AddPledge(t, a, q) \/ Deduction(t, a, q)
        PROVE  DebtIsUnspent'
    <2>1. /\ <<t, a>> \in Rows /\ pledges \in [Rows -> PledgeRow]
          /\ pledges[<<t, a>>].pledge \in Int /\ pledges[<<t, a>>].deduction \in Int
      BY RowFacts
    <2>2. q \in Nat
      BY <1>3, AmountAssumption DEF AddPledge, Deduction
    <2>3. \/ /\ pledges'[<<t, a>>].pledge = pledges[<<t, a>>].pledge + q
             /\ pledges'[<<t, a>>].deduction = pledges[<<t, a>>].deduction
          \/ /\ pledges'[<<t, a>>].pledge = pledges[<<t, a>>].pledge - q
             /\ pledges'[<<t, a>>].deduction = pledges[<<t, a>>].deduction + q
      BY <1>3, <2>1 DEF AddPledge, Deduction
    <2>4. 0 <= pledges[<<t, a>>].deduction + Least0(pledges[<<t, a>>].pledge)
      BY <2>1 DEF DebtIsUnspent, Unspent
    <2>5. 0 <= Unspent(pledges'[<<t, a>>])
      BY <2>1, <2>2, <2>3, <2>4 DEF Unspent, Least0
    <2>6. \A j \in Rows : j # <<t, a>> => pledges'[j] = pledges[j]
      BY <1>3, <2>1 DEF AddPledge, Deduction
    <2>7. QED
      BY <2>1, <2>5, <2>6, DebtRowStep
  <1>4. ASSUME NEW t \in PledgeType, NEW a \in Account, NEW q \in Quantities,
               Withdraw(t, a, q)
        PROVE  DebtIsUnspent'
    <2>1. /\ <<t, a>> \in Rows /\ pledges \in [Rows -> PledgeRow]
          /\ pledges[<<t, a>>].pledge \in Int /\ pledges[<<t, a>>].deduction \in Int
      BY RowFacts
    <2>2. q \in Nat /\ q < pledges[<<t, a>>].pledge
      BY <1>4, AmountAssumption DEF Withdraw
    <2>3. /\ pledges'[<<t, a>>].pledge = pledges[<<t, a>>].pledge - q
          /\ pledges'[<<t, a>>].deduction = pledges[<<t, a>>].deduction
      BY <1>4, <2>1 DEF Withdraw, PledgeRow
    <2>4. 0 <= pledges[<<t, a>>].deduction + Least0(pledges[<<t, a>>].pledge)
      BY <2>1 DEF DebtIsUnspent, Unspent
    <2>5. 0 <= Unspent(pledges'[<<t, a>>])
      BY <2>1, <2>2, <2>3, <2>4 DEF Unspent, Least0
    <2>6. \A j \in Rows : j # <<t, a>> => pledges'[j] = pledges[j]
      BY <1>4, <2>1 DEF Withdraw
    <2>7. QED
      BY <2>1, <2>5, <2>6, DebtRowStep
  <1>5. ASSUME NEW t \in PledgeType, NEW a \in Account, NEW q \in Int,
               q <= PreAllot(pledges[<<t, a>>]),
               pledges' = [pledges EXCEPT ![<<t, a>>].deduction = @ - q]
        PROVE  DebtIsUnspent'
    <2>1. /\ <<t, a>> \in Rows /\ pledges \in [Rows -> PledgeRow]
          /\ pledges[<<t, a>>].pledge \in Int /\ pledges[<<t, a>>].deduction \in Int
      BY RowFacts
    <2>2. /\ pledges'[<<t, a>>].pledge = pledges[<<t, a>>].pledge
          /\ pledges'[<<t, a>>].deduction = pledges[<<t, a>>].deduction - q
      BY <1>5, <2>1 DEF PledgeRow
    <2>3. 0 <= Unspent(pledges'[<<t, a>>])
      BY <1>5, <2>1, <2>2 DEF Unspent, PreAllot, Least0
    <2>4. \A j \in Rows : j # <<t, a>> => pledges'[j] = pledges[j]
      BY <1>5, <2>1
    <2>5. QED
      BY <2>1, <2>3, <2>4, DebtRowStep
  <1>6. ASSUME NEW t \in PledgeType, NEW a \in Account, NEW b \in Account,
               NEW q \in Quantities, AllotReward(t, a, b, q)
        PROVE  DebtIsUnspent'
    <2>1. /\ q \in Int /\ q <= PreAllot(pledges[<<t, a>>])
          /\ pledges' = [pledges EXCEPT ![<<t, a>>].deduction = @ - q]
      BY <1>6, AmountAssumption DEF AllotReward
    <2>2. QED
      BY <1>5, <2>1
  <1>7. ASSUME NEW t \in PledgeType, NEW a \in Account, NEW list \in Rewarders,
               DealReward(t, a, list)
        PROVE  DebtIsUnspent'
    <2> DEFINE pre == PreAllot(pledges[<<t, a>>])
    <2>1. pre \in Int /\ pre <= PreAllot(pledges[<<t, a>>])
      BY RowFacts, ClaimsInt
    <2>2. pledges' = [pledges EXCEPT ![<<t, a>>].deduction = @ - pre]
      BY <1>7 DEF DealReward
    <2> HIDE DEF pre
    <2>3. QED
      BY <1>5, <2>1, <2>2
  <1>8. ASSUME NEW t \in PledgeType, NEW a \in Account, NEW row \in Amendments,
               AmendPledge(t, a, row)
        PROVE  DebtIsUnspent'
    <2>1. <<t, a>> \in Rows /\ pledges \in [Rows -> PledgeRow]
      BY RowFacts
    <2>2. /\ pledges'[<<t, a>>].pledge = row.pledge
          /\ pledges'[<<t, a>>].deduction = row.deduction
          /\ \A j \in Rows : j # <<t, a>> => pledges'[j] = pledges[j]
      BY <1>8, <2>1 DEF AmendPledge
    <2>3. 0 <= Unspent(pledges'[<<t, a>>])
      BY <2>2 DEF AmendmentsBacked, Unspent
    <2>4. QED
      BY <2>1, <2>2, <2>3, DebtRowStep
  <1>9. QED
    BY <1>1, <1>2, <1>3, <1>4, <1>6, <1>7, <1>8
       DEF Next, vars, Donate, GetReward, AddType

\* Unless an amendment says so, no reward is ever paid out of what a pledger
\* still owes, for any number of accounts, types and calls.
THEOREM DebtNeverSpent == AmendmentsBacked => (Spec => []DebtIsUnspent)
  <1>1. SUFFICES ASSUME AmendmentsBacked PROVE Spec => []DebtIsUnspent
    OBVIOUS
  <1>2. Init => DebtIsUnspent
    BY DEF Init, DebtIsUnspent, NoRow, Unspent, Least0
  <1>3. IInv /\ DebtIsUnspent /\ [Next]_vars => DebtIsUnspent'
    BY <1>1, DebtStep
  <1>4. QED
    BY <1>2, <1>3, Invariance, PTL DEF Spec
=============================================================================
