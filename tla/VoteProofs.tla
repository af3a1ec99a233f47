----------------------------- MODULE VoteProofs -----------------------------
(***************************************************************************)
(* Proofs about Vote.  The inductive invariant joins the types, the        *)
(* divisibility of every stake by PRECISION, the order of the block        *)
(* numbers, and the three accounting invariants; none of them is inductive *)
(* alone: total_voteage stays a natural number only because the ages of    *)
(* the votes are covered, and they stay covered when a block passes only   *)
(* because total_staked is the sum of the stakes.  The last section is     *)
(* about VoteThaw, which remembers when each row was last unstaked from.   *)
(***************************************************************************)
EXTENDS VoteThaw, Sums

VoteRow == [staked : Nat, age : Nat, update_height : Nat,
            unstaking : Nat, unstake_height : Nat]
FixRow == [bpname : BP \cup {NoBP}, staked : Nat, age : Nat,
           update_height : Nat, vote : Nat, withdraw : Nat,
           is_withdraw : BOOLEAN]
VoteTable == [Tables \X Voter \X BP -> VoteRow]
FixTable == [Voter \X Key -> FixRow]

-----------------------------------------------------------------------------
(* Finite index sets *)

LEMMA FiniteIndices ==
    /\ IsFiniteSet(Tables \X Voter)
    /\ IsFiniteSet(Voter \X Key)
    /\ IsFiniteSet(Tables \X Voter \X BP)
    /\ IsFiniteSet(BP) /\ IsFiniteSet(Voter)
  <1>1. IsFiniteSet(Tables)
    <2>1. IsFiniteSet({"votes"}) /\ IsFiniteSet({"votes"} \cup {"votes4ram"})
      BY FS_Singleton, FS_AddElement
    <2>2. Tables = {"votes"} \cup {"votes4ram"}
      BY DEF Tables
    <2>3. QED
      BY <2>1, <2>2
  <1>2. IsFiniteSet(Key)
    BY FS_Interval, NumberAssumption DEF Key
  <1>3. IsFiniteSet(Voter) /\ IsFiniteSet(BP)
    BY FiniteAssumption
  <1>4. /\ IsFiniteSet((Tables \X Voter) \X BP)
        /\ IsFiniteSet(Voter \X Key)
        /\ IsFiniteSet(Tables \X Voter)
    BY <1>1, <1>2, <1>3, FS_Product
  <1>5. IsFiniteSet(Tables \X Voter \X BP)
    <2> DEFINE D == (Tables \X Voter) \X BP
               f == [i \in D |-> <<i[1][1], i[1][2], i[2]>>]
    <2>1. f \in [D -> Tables \X Voter \X BP]
      OBVIOUS
    <2>2. ASSUME NEW t \in Tables \X Voter \X BP
          PROVE  \E i \in D : f[i] = t
      <3>1. <<<<t[1], t[2]>>, t[3]>> \in D /\ t = <<t[1], t[2], t[3]>>
        OBVIOUS
      <3>2. f[<<<<t[1], t[2]>>, t[3]>>] = t
        BY <3>1
      <3>3. QED
        BY <3>1, <3>2
    <2>3. f \in Surjection(D, Tables \X Voter \X BP)
      BY <2>1, <2>2 DEF Surjection
    <2>4. QED
      BY <1>4, <2>3, FS_Surjection
  <1>6. QED
    BY <1>3, <1>4, <1>5

-----------------------------------------------------------------------------
(* Arithmetic of amounts *)

LEMMA DivMultiple ==
    ASSUME NEW P \in Nat \ {0}, NEW q \in Int
    PROVE  (P * q) \div P = q /\ (P * q) % P = 0
    OBVIOUS

LEMMA MultipleDiv ==
    ASSUME NEW P \in Nat \ {0}, NEW x \in Int, x % P = 0
    PROVE  x = P * (x \div P) /\ x \div P \in Int
    OBVIOUS

LEMMA DivAdd ==
    ASSUME NEW x \in Int, NEW y \in Int, x % PRECISION = 0, y % PRECISION = 0
    PROVE  /\ (x + y) \div PRECISION = (x \div PRECISION) + (y \div PRECISION)
           /\ (x + y) % PRECISION = 0
           /\ (x - y) \div PRECISION = (x \div PRECISION) - (y \div PRECISION)
           /\ (x - y) % PRECISION = 0
           /\ (-x) \div PRECISION = -(x \div PRECISION)
  <1>1. PRECISION \in Nat \ {0}
    BY NumberAssumption
  <1> DEFINE a == x \div PRECISION
             b == y \div PRECISION
  <1>2. x = PRECISION * a /\ y = PRECISION * b /\ a \in Int /\ b \in Int
    BY <1>1, MultipleDiv
  <1> HIDE DEF a, b
  <1>3. /\ PRECISION * a + PRECISION * b = PRECISION * (a + b)
        /\ PRECISION * a - PRECISION * b = PRECISION * (a - b)
        /\ -(PRECISION * a) = PRECISION * (-a)
    BY <1>1, <1>2
  <1>4. a + b \in Int /\ a - b \in Int /\ -a \in Int
    BY <1>2
  <1>5. /\ (PRECISION * (a + b)) \div PRECISION = a + b
        /\ (PRECISION * (a + b)) % PRECISION = 0
        /\ (PRECISION * (a - b)) \div PRECISION = a - b
        /\ (PRECISION * (a - b)) % PRECISION = 0
        /\ (PRECISION * (-a)) \div PRECISION = -a
    BY <1>1, <1>4, DivMultiple
  <1>6. QED
    BY <1>2, <1>3, <1>5 DEF a, b

-----------------------------------------------------------------------------
(* What one rewritten row does to the sums over a table *)

Put(f, i, x) == [f EXCEPT ![i] = x]

LEMMA VoteStakeUpdate ==
    ASSUME NEW V \in VoteTable, NEW t \in Tables, NEW v \in Voter, NEW b \in BP,
           NEW row \in VoteRow,
           NEW c \in BP
    PROVE  /\ VoteStakeSum(V, c) \in Int
           /\ VoteStakeSum(Put(V, <<t, v, b>>, row), c) =
                IF c = b THEN VoteStakeSum(V, c) - (V[<<t, v, b>>].staked \div PRECISION)
                              + (row.staked \div PRECISION)
                         ELSE VoteStakeSum(V, c)
  <1> DEFINE W == Put(V, <<t, v, b>>, row)
  <1>0. W = [V EXCEPT ![<<t, v, b>>] = row]
    BY DEF Put
  <1> HIDE DEF W
  <1> USE <1>0
  <1> DEFINE S == Tables \X Voter
             f == [i \in S |-> V[<<i[1], i[2], c>>].staked \div PRECISION]
             g == [i \in S |-> W[<<i[1], i[2], c>>].staked \div PRECISION]
             y == <<t, v>>
  <1>1. VoteStakeSum(V, c) = SumFunctionOnSet(f, S)
        /\ VoteStakeSum(W, c) = SumFunctionOnSet(g, S)
    BY DEF VoteStakeSum, SumFunction
  <1>2. IsFiniteSet(S) /\ y \in S
    BY FiniteIndices
  <1>3. W \in VoteTable
    BY DEF VoteTable
  <1>4. \A i \in S : f[i] \in Int /\ g[i] \in Int
    <2>1. \A i \in S : <<i[1], i[2], c>> \in Tables \X Voter \X BP
      OBVIOUS
    <2>2. \A i \in S : V[<<i[1], i[2], c>>].staked \in Nat /\ W[<<i[1], i[2], c>>].staked \in Nat
      BY <1>3, <2>1 DEF VoteTable, VoteRow
    <2>3. QED
      BY <2>2, NumberAssumption
  <1>5. \A i \in S : i # y \/ c # b => g[i] = f[i]
    <2>1. \A i \in S : <<i[1], i[2], c>> \in Tables \X Voter \X BP
      OBVIOUS
    <2>2. \A i \in S : i # y \/ c # b => <<i[1], i[2], c>> # <<t, v, b>>
      OBVIOUS
    <2>3. \A i \in S : i # y \/ c # b => W[<<i[1], i[2], c>>] = V[<<i[1], i[2], c>>]
      BY <2>1, <2>2 DEF VoteTable
    <2>4. QED
      BY <2>3
  <1>6. f[y] = V[<<t, v, c>>].staked \div PRECISION /\ (c = b => g[y] = row.staked \div PRECISION)
    BY DEF VoteTable
  <1> HIDE DEF f, g, y, S
  <1>7. VoteStakeSum(V, c) \in Int
    BY <1>1, <1>2, <1>4, SumInt
  <1>8. CASE c # b
    BY <1>1, <1>2, <1>4, <1>5, <1>7, <1>8, SumCong DEF W
  <1>9. CASE c = b
    <2>1. SumFunctionOnSet(g, S) = SumFunctionOnSet(f, S) - f[y] + g[y]
      BY <1>2, <1>4, <1>5, SumChange
    <2>2. QED
      BY <1>1, <1>6, <1>7, <1>9, <2>1 DEF W
  <1>10. QED
    BY <1>8, <1>9 DEF W

LEMMA AgeInt ==
    ASSUME NEW staked \in Nat, NEW age \in Nat, NEW h \in Nat, NEW n \in Nat
    PROVE  (staked \div PRECISION) * (n - h) + age \in Int
    BY NumberAssumption

LEMMA VoteAgeUpdate ==
    ASSUME NEW V \in VoteTable, NEW t \in Tables, NEW v \in Voter, NEW b \in BP,
           NEW row \in VoteRow,
           NEW c \in BP, NEW n \in Nat
    PROVE  /\ VoteAgeSum(V, c, n) \in Int
           /\ VoteAgeSum(Put(V, <<t, v, b>>, row), c, n) =
                IF c = b THEN VoteAgeSum(V, c, n) - GetAge(V[<<t, v, b>>], n) + GetAge(row, n)
                         ELSE VoteAgeSum(V, c, n)
  <1> DEFINE W == Put(V, <<t, v, b>>, row)
  <1>0. W = [V EXCEPT ![<<t, v, b>>] = row]
    BY DEF Put
  <1> HIDE DEF W
  <1> USE <1>0
  <1> DEFINE S == Tables \X Voter
             f == [i \in S |-> GetAge(V[<<i[1], i[2], c>>], n)]
             g == [i \in S |-> GetAge(W[<<i[1], i[2], c>>], n)]
             y == <<t, v>>
  <1>1. VoteAgeSum(V, c, n) = SumFunctionOnSet(f, S)
        /\ VoteAgeSum(W, c, n) = SumFunctionOnSet(g, S)
    BY DEF VoteAgeSum, SumFunction
  <1>2. IsFiniteSet(S) /\ y \in S
    BY FiniteIndices
  <1>3. W \in VoteTable
    BY DEF VoteTable
  <1>4. \A i \in S : f[i] \in Int /\ g[i] \in Int
    <2>1. \A i \in S : <<i[1], i[2], c>> \in Tables \X Voter \X BP
      OBVIOUS
    <2>2. \A i \in S : V[<<i[1], i[2], c>>] \in VoteRow /\ W[<<i[1], i[2], c>>] \in VoteRow
      BY <1>3, <2>1 DEF VoteTable
    <2>3. \A r \in VoteRow : GetAge(r, n) \in Int
      BY AgeInt DEF VoteRow, GetAge
    <2>4. QED
      BY <2>2, <2>3
  <1>5. \A i \in S : i # y \/ c # b => g[i] = f[i]
    <2>1. \A i \in S : <<i[1], i[2], c>> \in Tables \X Voter \X BP
      OBVIOUS
    <2>2. \A i \in S : i # y \/ c # b => <<i[1], i[2], c>> # <<t, v, b>>
      OBVIOUS
    <2>3. \A i \in S : i # y \/ c # b => W[<<i[1], i[2], c>>] = V[<<i[1], i[2], c>>]
      BY <2>1, <2>2 DEF VoteTable
    <2>4. QED
      BY <2>3
  <1>6. f[y] = GetAge(V[<<t, v, c>>], n) /\ (c = b => g[y] = GetAge(row, n))
    BY DEF VoteTable
  <1> HIDE DEF f, g, y, S
  <1>7. VoteAgeSum(V, c, n) \in Int
    BY <1>1, <1>2, <1>4, SumInt
  <1>8. CASE c # b
    BY <1>1, <1>2, <1>4, <1>5, <1>7, <1>8, SumCong DEF W
  <1>9. CASE c = b
    <2>1. SumFunctionOnSet(g, S) = SumFunctionOnSet(f, S) - f[y] + g[y]
      BY <1>2, <1>4, <1>5, SumChange
    <2>2. QED
      BY <1>1, <1>6, <1>7, <1>9, <2>1 DEF W
  <1>10. QED
    BY <1>8, <1>9 DEF W

LEMMA FixStakeUpdate ==
    ASSUME NEW F \in FixTable, NEW i \in Voter \X Key, NEW row \in FixRow, NEW c \in BP
    PROVE  /\ FixStakeSum(F, c) \in Int
           /\ FixStakeSum(Put(F, i, row), c) =
                FixStakeSum(F, c) - FixStakeOn(F[i], c) + FixStakeOn(row, c)
  <1> DEFINE E == Put(F, i, row)
  <1>0. E = [F EXCEPT ![i] = row]
    BY DEF Put
  <1> HIDE DEF E
  <1> USE <1>0
  <1> DEFINE S == Voter \X Key
             f == [j \in S |-> FixStakeOn(F[j], c)]
             g == [j \in S |-> FixStakeOn(E[j], c)]
  <1>1. FixStakeSum(F, c) = SumFunctionOnSet(f, S)
        /\ FixStakeSum(E, c) = SumFunctionOnSet(g, S)
    BY DEF FixStakeSum, SumFunction
  <1>2. IsFiniteSet(S)
    BY FiniteIndices
  <1>3. \A r \in FixRow : FixStakeOn(r, c) \in Int
    BY NumberAssumption DEF FixRow, FixStakeOn
  <1>4. \A j \in S : f[j] \in Int /\ g[j] \in Int
    BY <1>3 DEF FixTable
  <1>5. \A j \in S \ {i} : g[j] = f[j]
    BY DEF FixTable
  <1>6. f[i] = FixStakeOn(F[i], c) /\ g[i] = FixStakeOn(row, c) /\ i \in S
    BY DEF FixTable
  <1> HIDE DEF f, g, S
  <1>7. FixStakeSum(F, c) \in Int
    BY <1>1, <1>2, <1>4, SumInt
  <1>8. SumFunctionOnSet(g, S) = SumFunctionOnSet(f, S) - f[i] + g[i]
    BY <1>2, <1>4, <1>5, <1>6, SumChange
  <1>9. QED
    BY <1>1, <1>6, <1>7, <1>8 DEF E

LEMMA FixAgeInt ==
    ASSUME NEW r \in FixRow, NEW c \in BP, NEW n \in Nat
    PROVE  FixAgeOn(r, c, n) \in Int
  <1>1. CalcBlock(r, n) \in Nat
    BY DEF CalcBlock, FixRow
  <1>2. GetAge(r, CalcBlock(r, n)) \in Int
    BY <1>1, AgeInt DEF FixRow, GetAge
  <1>3. QED
    BY <1>2 DEF FixAgeOn, FixGetAge

LEMMA FixAgeUpdate ==
    ASSUME NEW F \in FixTable, NEW i \in Voter \X Key, NEW row \in FixRow, NEW c \in BP, NEW n \in Nat
    PROVE  /\ FixAgeSum(F, c, n) \in Int
           /\ FixAgeSum(Put(F, i, row), c, n) =
                FixAgeSum(F, c, n) - FixAgeOn(F[i], c, n) + FixAgeOn(row, c, n)
  <1> DEFINE E == Put(F, i, row)
  <1>0. E = [F EXCEPT ![i] = row]
    BY DEF Put
  <1> HIDE DEF E
  <1> USE <1>0
  <1> DEFINE S == Voter \X Key
             f == [j \in S |-> FixAgeOn(F[j], c, n)]
             g == [j \in S |-> FixAgeOn(E[j], c, n)]
  <1>1. FixAgeSum(F, c, n) = SumFunctionOnSet(f, S)
        /\ FixAgeSum(E, c, n) = SumFunctionOnSet(g, S)
    BY DEF FixAgeSum, SumFunction
  <1>2. IsFiniteSet(S)
    BY FiniteIndices
  <1>3. \A r \in FixRow : FixAgeOn(r, c, n) \in Int
    BY FixAgeInt
  <1>4. \A j \in S : f[j] \in Int /\ g[j] \in Int
    BY <1>3 DEF FixTable
  <1>5. \A j \in S \ {i} : g[j] = f[j]
    BY DEF FixTable
  <1>6. f[i] = FixAgeOn(F[i], c, n) /\ g[i] = FixAgeOn(row, c, n) /\ i \in S
    BY DEF FixTable
  <1> HIDE DEF f, g, S
  <1>7. FixAgeSum(F, c, n) \in Int
    BY <1>1, <1>2, <1>4, SumInt
  <1>8. SumFunctionOnSet(g, S) = SumFunctionOnSet(f, S) - f[i] + g[i]
    BY <1>2, <1>4, <1>5, <1>6, SumChange
  <1>9. QED
    BY <1>1, <1>6, <1>7, <1>8 DEF E

LEMMA RamSumUpdate ==
    ASSUME NEW V \in VoteTable, NEW t \in Tables, NEW v \in Voter, NEW b \in BP,
           NEW row \in VoteRow,
           NEW w \in Voter
    PROVE  /\ RamStake(V, w) \in Nat
           /\ RamStake(Put(V, <<t, v, b>>, row), w) =
                IF w = v /\ t = "votes4ram"
                THEN RamStake(V, w) - V[<<t, v, b>>].staked + row.staked
                ELSE RamStake(V, w)
  <1> DEFINE W == Put(V, <<t, v, b>>, row)
  <1>0. W = [V EXCEPT ![<<t, v, b>>] = row]
    BY DEF Put
  <1> HIDE DEF W
  <1> USE <1>0
  <1> DEFINE f == [c \in BP |-> V[<<"votes4ram", w, c>>].staked]
             g == [c \in BP |-> W[<<"votes4ram", w, c>>].staked]
  <1>1. RamStake(V, w) = SumFunctionOnSet(f, BP) /\ RamStake(W, w) = SumFunctionOnSet(g, BP)
    BY DEF RamStake, SumFunction
  <1>2. IsFiniteSet(BP)
    BY FiniteIndices
  <1>3. \A c \in BP : <<"votes4ram", w, c>> \in Tables \X Voter \X BP
    BY DEF Tables
  <1>4. W \in VoteTable
    BY DEF VoteTable
  <1>5. \A c \in BP : f[c] \in Nat /\ g[c] \in Nat
    BY <1>3, <1>4 DEF VoteTable, VoteRow
  <1>6. ASSUME NEW c \in BP, c # b \/ w # v \/ t # "votes4ram"
        PROVE  g[c] = f[c]
    <2>1. <<"votes4ram", w, c>> # <<t, v, b>>
      BY <1>6
    <2>2. QED
      BY <2>1, <1>3 DEF VoteTable
  <1>7. w = v /\ t = "votes4ram" => f[b] = V[<<t, v, b>>].staked /\ g[b] = row.staked
    BY <1>3 DEF VoteTable
  <1> HIDE DEF f, g
  <1>8. RamStake(V, w) \in Nat
    BY <1>1, <1>2, <1>5, SumNat
  <1>9. CASE w = v /\ t = "votes4ram"
    <2>1. SumFunctionOnSet(g, BP) = SumFunctionOnSet(f, BP) - f[b] + g[b]
      BY <1>2, <1>5, <1>6, SumChange
    <2>2. QED
      BY <1>1, <1>7, <1>8, <1>9, <2>1 DEF W
  <1>10. CASE ~(w = v /\ t = "votes4ram")
    BY <1>1, <1>2, <1>5, <1>6, <1>8, <1>10, SumCong DEF W
  <1>11. QED
    BY <1>9, <1>10 DEF W

LEMMA StakeSumNat ==
    ASSUME NEW V \in VoteTable, NEW F \in FixTable, NEW c \in BP
    PROVE  VoteStakeSum(V, c) \in Nat /\ FixStakeSum(F, c) \in Nat
  <1> DEFINE f == [i \in Tables \X Voter |-> V[<<i[1], i[2], c>>].staked \div PRECISION]
             g == [i \in Voter \X Key |-> FixStakeOn(F[i], c)]
  <1>1. \A i \in Tables \X Voter : <<i[1], i[2], c>> \in Tables \X Voter \X BP
    OBVIOUS
  <1>2. \A i \in Tables \X Voter : V[<<i[1], i[2], c>>].staked \in Nat
    BY <1>1 DEF VoteTable, VoteRow
  <1>3. \A x \in Nat : x \div PRECISION \in Nat
    BY NumberAssumption
  <1>4. \A i \in Tables \X Voter : f[i] \in Nat
    BY <1>2, <1>3
  <1>5. \A r \in FixRow : FixStakeOn(r, c) \in Nat
    BY <1>3 DEF FixRow, FixStakeOn
  <1>6. \A i \in Voter \X Key : g[i] \in Nat
    BY <1>5 DEF FixTable
  <1> HIDE DEF f, g
  <1>7. SumFunctionOnSet(f, Tables \X Voter) \in Nat
        /\ SumFunctionOnSet(g, Voter \X Key) \in Nat
    BY <1>4, <1>6, FiniteIndices, SumNat
  <1>8. QED
    BY <1>7 DEF f, g, VoteStakeSum, FixStakeSum, SumFunction

-----------------------------------------------------------------------------
(* Producers *)

BPRow == [total_staked : Nat, total_voteage : Nat,
          voteage_update_height : Nat, rewards_pool : Nat]
BPTable == [BP -> BPRow]

LEMMA SumStakedInt ==
    ASSUME NEW T \in BPTable
    PROVE  SumStaked(T) \in Int
  <1> DEFINE f == [b \in BP |-> T[b].total_staked]
  <1>1. \A b \in BP : f[b] \in Int
    BY DEF BPTable, BPRow
  <1> HIDE DEF f
  <1>2. SumFunctionOnSet(f, BP) \in Int
    BY <1>1, FiniteIndices, SumInt
  <1>3. QED
    BY <1>2 DEF f, SumStaked, SumFunction

LEMMA NatProduct ==
    ASSUME NEW x \in Nat, NEW y \in Nat
    PROVE  x * y \in Nat /\ x * (y + 1) = x * y + x
    OBVIOUS

LEMMA BPAge ==
    ASSUME NEW p \in BPRow, NEW n \in Nat, p.voteage_update_height <= n
    PROVE  BPGetAge(p, n) \in Nat /\ BPGetAge(p, n + 1) = BPGetAge(p, n) + p.total_staked
  <1>1. /\ p.total_staked \in Nat /\ p.total_voteage \in Nat
        /\ p.voteage_update_height \in Nat
    BY DEF BPRow
  <1> DEFINE s == p.total_staked
             d == n - p.voteage_update_height
  <1>2. s \in Nat /\ d \in Nat /\ (n + 1) - p.voteage_update_height = d + 1
    BY <1>1
  <1>3. BPGetAge(p, n) = s * d + p.total_voteage
        /\ BPGetAge(p, n + 1) = s * (d + 1) + p.total_voteage
    BY <1>2 DEF BPGetAge
  <1> HIDE DEF s, d
  <1>4. s * d \in Nat /\ s * (d + 1) = s * d + s
    BY <1>2, NatProduct
  <1>5. QED
    BY <1>1, <1>3, <1>4 DEF s

LEMMA BPsAdd ==
    ASSUME NEW T \in BPTable, NEW n \in Nat, NEW b \in BP, NEW amount \in Int,
           \A c \in BP : T[c].voteage_update_height <= n,
           T[b].total_staked + (amount \div PRECISION) \in Nat
    PROVE  /\ Put(T, b, AddTotalStaked(T[b], n, amount)) \in BPTable
           /\ \A c \in BP :
                /\ Put(T, b, AddTotalStaked(T[b], n, amount))[c].voteage_update_height <= n
                /\ BPGetAge(Put(T, b, AddTotalStaked(T[b], n, amount))[c], n) = BPGetAge(T[c], n)
                /\ Put(T, b, AddTotalStaked(T[b], n, amount))[c].rewards_pool = T[c].rewards_pool
                /\ Put(T, b, AddTotalStaked(T[b], n, amount))[c].total_staked = IF c = b THEN T[c].total_staked + (amount \div PRECISION)
                                                ELSE T[c].total_staked
  <1> DEFINE B == Put(T, b, AddTotalStaked(T[b], n, amount))
  <1>0. B = [T EXCEPT ![b] = AddTotalStaked(T[b], n, amount)]
    BY DEF Put
  <1> HIDE DEF B
  <1> USE <1>0
  <1> DEFINE q == AddTotalStaked(T[b], n, amount)
  <1>1. T[b] \in BPRow
    BY DEF BPTable
  <1>2. BPGetAge(T[b], n) \in Nat
    BY <1>1, BPAge
  <1>3. /\ q \in BPRow
        /\ q.voteage_update_height = n
        /\ q.total_voteage = BPGetAge(T[b], n)
        /\ q.rewards_pool = T[b].rewards_pool
        /\ q.total_staked = T[b].total_staked + (amount \div PRECISION)
    BY <1>1, <1>2 DEF AddTotalStaked, BPRow
  <1>4. BPGetAge(q, n) = BPGetAge(T[b], n)
    <2>1. q.total_staked * (n - n) = 0
      BY <1>3 DEF BPRow
    <2>2. BPGetAge(q, n) = q.total_staked * (n - n) + q.total_voteage
      BY <1>3 DEF BPGetAge
    <2> HIDE DEF q
    <2>3. QED
      BY <1>2, <1>3, <2>1, <2>2
  <1> HIDE DEF q
  <1>5. B = [T EXCEPT ![b] = q]
    BY DEF q
  <1>6. QED
    BY <1>1, <1>3, <1>4, <1>5 DEF BPTable, B

-----------------------------------------------------------------------------
(* The tables, and what is true of the four of them in every state *)

VotesOK(V, n) ==
    /\ V \in VoteTable
    /\ \A i \in Tables \X Voter \X BP :
          V[i].update_height <= n /\ V[i].staked % PRECISION = 0

FixOK(f, n) ==
    /\ f.staked % PRECISION = 0
    /\ Exists(f) => /\ f.update_height <= CalcBlock(f, n)
                    /\ f.is_withdraw => f.withdraw <= n

FixesOK(F, n) == F \in FixTable /\ \A i \in Voter \X Key : FixOK(F[i], n)

BPsOK(T, n) == T \in BPTable /\ \A c \in BP : T[c].voteage_update_height <= n

Accounted(V, F, T, n, c) ==
    /\ T[c].total_staked = VoteStakeSum(V, c) + FixStakeSum(F, c)
    /\ VoteAgeSum(V, c, n) + FixAgeSum(F, c, n) <= BPGetAge(T[c], n)

Accounts(V, F, T, n) == \A c \in BP : Accounted(V, F, T, n, c)

\* A row keeps its age when its stake changes: it has been added to age.
LEMMA ChangeKeepsAge ==
    ASSUME NEW r \in VoteRow, NEW n \in Nat, r.update_height <= n,
           NEW amount \in Nat
    PROVE  /\ ChangeStakedTo(r, n, amount) \in VoteRow
           /\ GetAge(r, n) \in Nat
           /\ GetAge(ChangeStakedTo(r, n, amount), n) = GetAge(r, n)
  <1> DEFINE s == r.staked \div PRECISION
             d == n - r.update_height
             q == amount \div PRECISION
  <1>1. r.staked \in Nat /\ r.age \in Nat /\ r.update_height \in Nat
    BY DEF VoteRow
  <1>2. s \in Nat /\ d \in Nat /\ q \in Nat
    BY <1>1, NumberAssumption
  <1>3. GetAge(r, n) = s * d + r.age
    BY DEF GetAge
  <1> HIDE DEF s, d
  <1>4. GetAge(r, n) \in Nat
    BY <1>1, <1>2, <1>3, NatProduct
  <1> DEFINE new == ChangeStakedTo(r, n, amount)
  <1>5. /\ new \in VoteRow /\ new.staked = amount /\ new.update_height = n
        /\ new.age = GetAge(r, n)
    BY <1>1, <1>4 DEF ChangeStakedTo, VoteRow
  <1> HIDE DEF new
  <1>6. GetAge(new, n) = q * (n - n) + GetAge(r, n)
    BY <1>5 DEF GetAge
  <1> HIDE DEF q
  <1>7. q * (n - n) = 0
    BY <1>2
  <1>8. QED
    BY <1>4, <1>5, <1>6, <1>7 DEF new

\* One row of votes or votes4ram is restaked to amount: the sum of the stakes
\* on b moves by the difference, and no sum of ages moves.
LEMMA Restake ==
    ASSUME NEW n \in Nat, NEW V, VotesOK(V, n),
           NEW t \in Tables, NEW v \in Voter, NEW b \in BP,
           NEW amount \in Nat, amount % PRECISION = 0,
           NEW row \in VoteRow,
           row.staked = amount, row.update_height = n,
           row.age = GetAge(V[<<t, v, b>>], n)
    PROVE  /\ VotesOK(Put(V, <<t, v, b>>, row), n)
           /\ \A c \in BP :
                /\ VoteStakeSum(V, c) \in Int
                /\ VoteStakeSum(Put(V, <<t, v, b>>, row), c) =
                     IF c = b
                     THEN VoteStakeSum(V, c) + ((amount - V[<<t, v, b>>].staked) \div PRECISION)
                     ELSE VoteStakeSum(V, c)
                /\ VoteAgeSum(Put(V, <<t, v, b>>, row), c, n) = VoteAgeSum(V, c, n)
  <1> DEFINE W == Put(V, <<t, v, b>>, row)
  <1>0. W = [V EXCEPT ![<<t, v, b>>] = row]
    BY DEF Put
  <1> HIDE DEF W
  <1> USE <1>0
  <1> DEFINE old == V[<<t, v, b>>]
  <1>1. V \in VoteTable /\ <<t, v, b>> \in Tables \X Voter \X BP
    BY DEF VotesOK
  <1>2. /\ old \in VoteRow /\ old.staked \in Nat
        /\ old.staked % PRECISION = 0 /\ old.update_height <= n
    BY <1>1 DEF VotesOK, VoteTable, VoteRow
  <1>3. VotesOK(W, n)
    BY <1>1 DEF VotesOK, VoteTable
  <1>4. /\ (amount - old.staked) \div PRECISION
             = (amount \div PRECISION) - (old.staked \div PRECISION)
        /\ amount \div PRECISION \in Int /\ old.staked \div PRECISION \in Int
    BY <1>2, DivAdd, NumberAssumption
  <1>5. GetAge(row, n) = GetAge(old, n) /\ GetAge(old, n) \in Int
    <2>1. GetAge(ChangeStakedTo(old, n, amount), n) = GetAge(old, n) /\ GetAge(old, n) \in Nat
      BY <1>2, ChangeKeepsAge
    <2>2. GetAge(row, n) = GetAge(ChangeStakedTo(old, n, amount), n)
      BY <1>2 DEF GetAge, ChangeStakedTo, VoteRow
    <2>3. QED
      BY <2>1, <2>2
  <1> HIDE DEF old
  <1>6. ASSUME NEW c \in BP
        PROVE  /\ VoteStakeSum(V, c) \in Int
               /\ VoteStakeSum(W, c) =
                    IF c = b
                    THEN VoteStakeSum(V, c) + ((amount - old.staked) \div PRECISION)
                    ELSE VoteStakeSum(V, c)
               /\ VoteAgeSum(W, c, n) = VoteAgeSum(V, c, n)
    <2>1. /\ VoteStakeSum(V, c) \in Int
          /\ VoteStakeSum(W, c) =
               IF c = b THEN VoteStakeSum(V, c) - (old.staked \div PRECISION)
                             + (amount \div PRECISION)
                        ELSE VoteStakeSum(V, c)
      BY <1>1, VoteStakeUpdate DEF old, W
    <2>2. /\ VoteAgeSum(V, c, n) \in Int
          /\ VoteAgeSum(W, c, n) =
               IF c = b THEN VoteAgeSum(V, c, n) - GetAge(old, n) + GetAge(row, n)
                        ELSE VoteAgeSum(V, c, n)
      BY <1>1, VoteAgeUpdate DEF old, W
    <2>3. VoteAgeSum(W, c, n) = VoteAgeSum(V, c, n)
      BY <1>5, <2>2
    <2>4. QED
      BY <1>4, <2>1, <2>3
  <1>7. QED
    BY <1>3, <1>6 DEF old, W

\* A row whose unstaking amount alone changes moves no sum.
LEMMA UnstakingChange ==
    ASSUME NEW n \in Nat, NEW V, VotesOK(V, n),
           NEW t \in Tables, NEW v \in Voter, NEW b \in BP,
           NEW row \in VoteRow,
           row.staked = V[<<t, v, b>>].staked,
           row.update_height = V[<<t, v, b>>].update_height,
           row.age = V[<<t, v, b>>].age
    PROVE  /\ VotesOK(Put(V, <<t, v, b>>, row), n)
           /\ \A c \in BP :
                /\ VoteStakeSum(Put(V, <<t, v, b>>, row), c) = VoteStakeSum(V, c)
                /\ VoteAgeSum(Put(V, <<t, v, b>>, row), c, n) = VoteAgeSum(V, c, n)
  <1> DEFINE W == Put(V, <<t, v, b>>, row)
  <1>0. W = [V EXCEPT ![<<t, v, b>>] = row]
    BY DEF Put
  <1> HIDE DEF W
  <1> USE <1>0
  <1> DEFINE old == V[<<t, v, b>>]
  <1>1. V \in VoteTable /\ <<t, v, b>> \in Tables \X Voter \X BP
    BY DEF VotesOK
  <1>2. old \in VoteRow /\ old.staked \in Nat
        /\ old.staked % PRECISION = 0 /\ old.update_height <= n
    BY <1>1 DEF VotesOK, VoteTable, VoteRow
  <1>3. VotesOK(W, n)
    BY <1>1, <1>2 DEF VotesOK, VoteTable
  <1>4. old.staked \div PRECISION \in Int
    BY <1>2, NumberAssumption
  <1>5. GetAge(row, n) = GetAge(old, n) /\ GetAge(old, n) \in Int
    <2>1. GetAge(old, n) \in Nat
      BY <1>2, ChangeKeepsAge
    <2>2. GetAge(row, n) = GetAge(old, n)
      BY DEF GetAge
    <2>3. QED
      BY <2>1, <2>2
  <1> HIDE DEF old
  <1>6. ASSUME NEW c \in BP
        PROVE  /\ VoteStakeSum(W, c) = VoteStakeSum(V, c)
               /\ VoteAgeSum(W, c, n) = VoteAgeSum(V, c, n)
    <2>1. /\ VoteStakeSum(V, c) \in Int
          /\ VoteStakeSum(W, c) =
               IF c = b THEN VoteStakeSum(V, c) - (old.staked \div PRECISION)
                             + (old.staked \div PRECISION)
                        ELSE VoteStakeSum(V, c)
      BY <1>1, VoteStakeUpdate DEF old, W
    <2>2. /\ VoteAgeSum(V, c, n) \in Int
          /\ VoteAgeSum(W, c, n) =
               IF c = b THEN VoteAgeSum(V, c, n) - GetAge(old, n) + GetAge(row, n)
                        ELSE VoteAgeSum(V, c, n)
      BY <1>1, VoteAgeUpdate DEF old, W
    <2>3. VoteAgeSum(W, c, n) = VoteAgeSum(V, c, n)
      BY <1>5, <2>2
    <2>4. QED
      BY <1>4, <2>1, <2>3
  <1>7. QED
    BY <1>3, <1>6 DEF W

LEMMA FixAgeNat ==
    ASSUME NEW r \in FixRow, NEW n \in Nat, FixOK(r, n), NEW c \in BP
    PROVE  FixAgeOn(r, c, n) \in Nat
  <1>1. CASE r.bpname = c
    <2> DEFINE s == r.staked \div PRECISION
               d == CalcBlock(r, n) - r.update_height
    <2>1. Exists(r)
      BY <1>1, NoBPAssumption DEF Exists
    <2>2. r.update_height <= CalcBlock(r, n)
      BY <2>1 DEF FixOK
    <2>3. CalcBlock(r, n) \in Nat /\ r.update_height \in Nat /\ r.age \in Nat /\ r.staked \in Nat
      BY DEF CalcBlock, FixRow
    <2>4. s \in Nat /\ d \in Nat
      BY <2>2, <2>3, NumberAssumption
    <2>5. FixAgeOn(r, c, n) = s * d + r.age
      BY <1>1 DEF FixAgeOn, FixGetAge, GetAge
    <2> HIDE DEF s, d
    <2>6. QED
      BY <2>3, <2>4, <2>5, NatProduct
  <1>2. CASE r.bpname # c
    BY <1>2 DEF FixAgeOn
  <1>3. QED
    BY <1>1, <1>2

LEMMA PutFix ==
    ASSUME NEW n \in Nat, NEW F, FixesOK(F, n), NEW i \in Voter \X Key,
           NEW row \in FixRow, FixOK(row, n)
    PROVE  /\ FixesOK(Put(F, i, row), n)
           /\ \A c \in BP :
                /\ FixStakeSum(F, c) \in Int /\ FixAgeSum(F, c, n) \in Int
                /\ FixStakeSum(Put(F, i, row), c) =
                     FixStakeSum(F, c) - FixStakeOn(F[i], c) + FixStakeOn(row, c)
                /\ FixAgeSum(Put(F, i, row), c, n) =
                     FixAgeSum(F, c, n) - FixAgeOn(F[i], c, n) + FixAgeOn(row, c, n)
  <1>1. F \in FixTable
    BY DEF FixesOK
  <1>2. FixesOK(Put(F, i, row), n)
    BY <1>1 DEF FixesOK, FixTable, Put
  <1>3. QED
    BY <1>1, <1>2, FixStakeUpdate, FixAgeUpdate

-----------------------------------------------------------------------------
(* When a block passes, the ages of the votes on c grow by no more than its *)
(* total_staked *)

LEMMA VoteBlockPasses ==
    ASSUME NEW n \in Nat, NEW V, VotesOK(V, n), NEW c \in BP
    PROVE  /\ VotesOK(V, n + 1)
           /\ VoteAgeSum(V, c, n) \in Int /\ VoteStakeSum(V, c) \in Int
           /\ VoteAgeSum(V, c, n + 1) = VoteAgeSum(V, c, n) + VoteStakeSum(V, c)
  <1> DEFINE S == Tables \X Voter
             f == [i \in S |-> GetAge(V[<<i[1], i[2], c>>], n)]
             g == [i \in S |-> V[<<i[1], i[2], c>>].staked \div PRECISION]
             h == [i \in S |-> GetAge(V[<<i[1], i[2], c>>], n + 1)]
  <1>1. VotesOK(V, n + 1)
    BY DEF VotesOK, VoteTable, VoteRow
  <1>2. ASSUME NEW r \in VoteRow, r.update_height <= n
        PROVE  /\ GetAge(r, n) \in Int /\ r.staked \div PRECISION \in Int
               /\ GetAge(r, n + 1) = GetAge(r, n) + (r.staked \div PRECISION)
    <2> DEFINE s == r.staked \div PRECISION
               d == n - r.update_height
    <2>1. r.staked \in Nat /\ r.age \in Nat /\ r.update_height \in Nat
      BY DEF VoteRow
    <2>2. s \in Nat /\ d \in Nat /\ (n + 1) - r.update_height = d + 1
      BY <1>2, <2>1, NumberAssumption
    <2>3. GetAge(r, n) = s * d + r.age /\ GetAge(r, n + 1) = s * (d + 1) + r.age
      BY <2>2 DEF GetAge
    <2> HIDE DEF s, d
    <2>4. s * d \in Nat /\ s * (d + 1) = s * d + s
      BY <2>2, NatProduct
    <2>5. GetAge(r, n) \in Int /\ s \in Int /\ GetAge(r, n + 1) = GetAge(r, n) + s
      BY <2>1, <2>2, <2>3, <2>4
    <2>6. QED
      BY <2>5 DEF s
  <1>3. ASSUME NEW i \in S
        PROVE  f[i] \in Int /\ g[i] \in Int /\ h[i] = f[i] + g[i]
    <2>1. <<i[1], i[2], c>> \in Tables \X Voter \X BP
      OBVIOUS
    <2>2. V[<<i[1], i[2], c>>] \in VoteRow /\ V[<<i[1], i[2], c>>].update_height <= n
      BY <2>1 DEF VotesOK, VoteTable
    <2>3. QED
      BY <1>2, <2>2
  <1>4. /\ VoteAgeSum(V, c, n) = SumFunctionOnSet(f, S)
        /\ VoteStakeSum(V, c) = SumFunctionOnSet(g, S)
        /\ VoteAgeSum(V, c, n + 1) = SumFunctionOnSet(h, S)
    BY DEF VoteAgeSum, VoteStakeSum, SumFunction
  <1>5. IsFiniteSet(S)
    BY FiniteIndices
  <1> HIDE DEF f, g, h, S
  <1>6. SumFunctionOnSet(h, S) = SumFunctionOnSet(f, S) + SumFunctionOnSet(g, S)
    BY <1>3, <1>5, SumAdd
  <1>7. SumFunctionOnSet(f, S) \in Int /\ SumFunctionOnSet(g, S) \in Int
    BY <1>3, <1>5, SumInt
  <1>8. QED
    BY <1>1, <1>4, <1>6, <1>7

LEMMA FixRowBlockPasses ==
    ASSUME NEW r \in FixRow, NEW n \in Nat, FixOK(r, n), NEW c \in BP
    PROVE  /\ FixOK(r, n + 1)
           /\ FixAgeOn(r, c, n) \in Int /\ FixStakeOn(r, c) \in Int
           /\ FixAgeOn(r, c, n + 1) \in Int
           /\ FixAgeOn(r, c, n + 1) <= FixAgeOn(r, c, n) + FixStakeOn(r, c)
  <1>1. /\ r.staked \in Nat /\ r.age \in Nat /\ r.update_height \in Nat
        /\ r.withdraw \in Nat /\ r.is_withdraw \in BOOLEAN
    BY DEF FixRow
  <1>2. FixOK(r, n + 1)
    BY <1>1 DEF FixOK, CalcBlock
  <1>3. CASE r.bpname # c
    BY <1>2, <1>3 DEF FixAgeOn, FixStakeOn
  <1>4. CASE r.bpname = c
    <2> DEFINE s == r.staked \div PRECISION
               d == CalcBlock(r, n) - r.update_height
    <2>1. Exists(r)
      BY <1>4, NoBPAssumption DEF Exists
    <2>2. r.update_height <= CalcBlock(r, n) /\ (r.is_withdraw => r.withdraw <= n)
      BY <2>1 DEF FixOK
    <2>3. CalcBlock(r, n) \in Nat
      BY <1>1 DEF CalcBlock
    <2>4. s \in Nat /\ d \in Nat
      BY <1>1, <2>2, <2>3, NumberAssumption
    <2>5. FixAgeOn(r, c, n) = s * d + r.age
      BY <1>4 DEF FixAgeOn, FixGetAge, GetAge
    <2>6. CASE CalcBlock(r, n + 1) = CalcBlock(r, n)
      <3>1. FixAgeOn(r, c, n + 1) = FixAgeOn(r, c, n)
        BY <2>6 DEF FixAgeOn, FixGetAge
      <3>2. FixAgeOn(r, c, n) \in Nat
        BY FixAgeNat
      <3>3. FixStakeOn(r, c) \in Nat
        BY <2>4 DEF FixStakeOn
      <3>4. QED
        BY <1>2, <3>1, <3>2, <3>3
    <2>7. CASE CalcBlock(r, n + 1) # CalcBlock(r, n)
      <3>1. CalcBlock(r, n + 1) - r.update_height = d + 1 /\ ~r.is_withdraw
        BY <1>1, <2>2, <2>7 DEF CalcBlock
      <3>2. FixAgeOn(r, c, n + 1) = s * (d + 1) + r.age
        BY <1>4, <3>1 DEF FixAgeOn, FixGetAge, GetAge
      <3>3. FixStakeOn(r, c) = s
        BY <1>4, <3>1 DEF FixStakeOn
      <3> HIDE DEF s, d
      <3>4. s * d \in Nat /\ s * (d + 1) = s * d + s
        BY <2>4, NatProduct
      <3>5. QED
        BY <1>1, <1>2, <2>4, <2>5, <3>2, <3>3, <3>4
    <2>8. QED
      BY <2>6, <2>7
  <1>5. QED
    BY <1>3, <1>4

LEMMA FixBlockPasses ==
    ASSUME NEW n \in Nat, NEW F, FixesOK(F, n), NEW c \in BP
    PROVE  /\ FixesOK(F, n + 1)
           /\ FixAgeSum(F, c, n) \in Int /\ FixStakeSum(F, c) \in Int
           /\ FixAgeSum(F, c, n + 1) \in Int
           /\ FixAgeSum(F, c, n + 1) <= FixAgeSum(F, c, n) + FixStakeSum(F, c)
  <1> DEFINE S == Voter \X Key
             f == [i \in S |-> FixAgeOn(F[i], c, n)]
             g == [i \in S |-> FixStakeOn(F[i], c)]
             h == [i \in S |-> FixAgeOn(F[i], c, n + 1)]
             k == [i \in S |-> f[i] + g[i]]
  <1>1. \A i \in S : F[i] \in FixRow /\ FixOK(F[i], n)
    BY DEF FixesOK, FixTable
  <1>2. FixesOK(F, n + 1)
    BY <1>1, FixRowBlockPasses DEF FixesOK
  <1>3. \A i \in S : f[i] \in Int /\ g[i] \in Int /\ h[i] \in Int /\ h[i] <= f[i] + g[i]
    BY <1>1, FixRowBlockPasses
  <1>4. /\ FixAgeSum(F, c, n) = SumFunctionOnSet(f, S)
        /\ FixStakeSum(F, c) = SumFunctionOnSet(g, S)
        /\ FixAgeSum(F, c, n + 1) = SumFunctionOnSet(h, S)
    BY DEF FixAgeSum, FixStakeSum, SumFunction
  <1>5. IsFiniteSet(S)
    BY FiniteIndices
  <1> HIDE DEF f, g, h, S
  <1>6. \A i \in S : k[i] = f[i] + g[i] /\ k[i] \in Int
    BY <1>3
  <1> HIDE DEF k
  <1>7. SumFunctionOnSet(k, S) = SumFunctionOnSet(f, S) + SumFunctionOnSet(g, S)
    BY <1>3, <1>5, <1>6, SumAdd
  <1>8. SumFunctionOnSet(h, S) <= SumFunctionOnSet(k, S)
    BY <1>3, <1>5, <1>6, SumMono
  <1>9. /\ SumFunctionOnSet(f, S) \in Int /\ SumFunctionOnSet(g, S) \in Int
        /\ SumFunctionOnSet(h, S) \in Int
    BY <1>3, <1>5, SumInt
  <1>10. QED
    BY <1>2, <1>4, <1>7, <1>8, <1>9

-----------------------------------------------------------------------------
(* A claim takes the ages of one voter on one producer out of the sums *)

ClaimedRow(r, b, n) ==
    IF r.bpname # b THEN r
    ELSE IF r.is_withdraw THEN NoFix
    ELSE FixCleanAge(r, n)

ClaimedFixes(F, v, b, n) ==
    [i \in Voter \X Key |-> IF i[1] # v THEN F[i] ELSE ClaimedRow(F[i], b, n)]

FixAgesOf(F, v, b, n) ==
    SumFunctionOnSet([i \in Voter \X Key |-> FixAgeOn(F[i], b, n)], {v} \X Key)

LEMMA ClaimFixRow ==
    ASSUME NEW r \in FixRow, NEW n \in Nat, FixOK(r, n), NEW b \in BP
    PROVE  /\ ClaimedRow(r, b, n) \in FixRow
           /\ FixOK(ClaimedRow(r, b, n), n)
           /\ \A c \in BP :
                /\ FixStakeOn(ClaimedRow(r, b, n), c) = FixStakeOn(r, c)
                /\ FixAgeOn(ClaimedRow(r, b, n), c, n) =
                     IF c = b THEN 0 ELSE FixAgeOn(r, c, n)
  <1>1. CASE r.bpname # b
    BY <1>1 DEF ClaimedRow, FixAgeOn
  <1>2. CASE r.bpname = b /\ r.is_withdraw
    <2>1. ClaimedRow(r, b, n) = NoFix
      BY <1>2 DEF ClaimedRow
    <2>2. NoFix \in FixRow /\ FixOK(NoFix, n)
      BY NumberAssumption DEF NoFix, FixRow, FixOK, Exists
    <2>3. \A c \in BP : FixStakeOn(NoFix, c) = 0 /\ FixAgeOn(NoFix, c, n) = 0
      BY NoBPAssumption DEF NoFix, FixStakeOn, FixAgeOn
    <2>4. \A c \in BP : FixStakeOn(r, c) = 0 /\ (c # b => FixAgeOn(r, c, n) = 0)
      BY <1>2 DEF FixStakeOn, FixAgeOn
    <2>5. QED
      BY <2>1, <2>2, <2>3, <2>4
  <1>3. CASE r.bpname = b /\ ~r.is_withdraw
    <2> DEFINE m == CalcBlock(r, n)
               q == [r EXCEPT !.age = 0, !.update_height = m]
               s == r.staked \div PRECISION
    <2>1. m \in Nat /\ s \in Nat
      BY NumberAssumption DEF CalcBlock, FixRow
    <2>2. ClaimedRow(r, b, n) = q
      BY <1>3 DEF ClaimedRow, FixCleanAge, CleanAge
    <2>3. /\ q \in FixRow /\ q.update_height = m /\ q.age = 0
          /\ q.withdraw = r.withdraw /\ q.staked = r.staked
          /\ q.is_withdraw = r.is_withdraw /\ q.bpname = r.bpname
      BY <2>1 DEF FixRow
    <2>4. CalcBlock(q, n) = m
      BY <2>3 DEF CalcBlock
    <2>5. FixOK(q, n)
      BY <1>3, <2>1, <2>3, <2>4 DEF FixOK
    <2>6. GetAge(q, m) = s * (m - m) + 0
      BY <2>3 DEF GetAge
    <2> HIDE DEF m, s, q
    <2>7. s * (m - m) + 0 = 0
      BY <2>1
    <2>8. \A c \in BP : FixAgeOn(q, c, n) = 0
      BY <2>4, <2>6, <2>7 DEF FixAgeOn, FixGetAge
    <2>9. \A c \in BP : c # b => FixAgeOn(r, c, n) = 0
      BY <1>3 DEF FixAgeOn
    <2>10. \A c \in BP : FixStakeOn(q, c) = FixStakeOn(r, c)
      BY <2>3 DEF FixStakeOn
    <2>11. QED
      BY <2>2, <2>3, <2>5, <2>8, <2>9, <2>10
  <1>4. QED
    BY <1>1, <1>2, <1>3 DEF FixRow

LEMMA ClaimFixes ==
    ASSUME NEW n \in Nat, NEW F, FixesOK(F, n), NEW v \in Voter, NEW b \in BP
    PROVE  /\ FixesOK(ClaimedFixes(F, v, b, n), n)
           /\ FixAgesOf(F, v, b, n) \in Nat
           /\ FixAgesOf(F, v, b, n) <= FixAgeSum(F, b, n)
           /\ \A c \in BP :
                /\ FixAgeSum(F, c, n) \in Nat
                /\ FixStakeSum(ClaimedFixes(F, v, b, n), c) = FixStakeSum(F, c)
                /\ FixAgeSum(ClaimedFixes(F, v, b, n), c, n) =
                     IF c = b THEN FixAgeSum(F, c, n) - FixAgesOf(F, v, b, n)
                              ELSE FixAgeSum(F, c, n)
  <1> DEFINE S == Voter \X Key
             T == {v} \X Key
             E == ClaimedFixes(F, v, b, n)
             f(c) == [i \in S |-> FixAgeOn(F[i], c, n)]
             h(c) == [i \in S |-> FixAgeOn(E[i], c, n)]
             Sum(g, X) == SumFunctionOnSet(g, X)
  <1>1. \A i \in S : F[i] \in FixRow /\ FixOK(F[i], n)
    BY DEF FixesOK, FixTable
  <1>2. \A i \in S : E[i] = IF i[1] # v THEN F[i] ELSE ClaimedRow(F[i], b, n)
    BY DEF ClaimedFixes
  <1>3. \A i \in S : E[i] \in FixRow /\ FixOK(E[i], n)
    BY <1>1, <1>2, ClaimFixRow
  <1>4. FixesOK(E, n)
    BY <1>3 DEF FixesOK, FixTable, ClaimedFixes
  <1>5. IsFiniteSet(S) /\ T \in SUBSET S /\ IsFiniteSet(T) /\ IsFiniteSet(S \ T)
    <2>1. IsFiniteSet(S) /\ T \in SUBSET S
      BY FiniteIndices
    <2>2. QED
      BY <2>1, FS_Subset
  <1>6. \A i \in S : i \in T <=> i[1] = v
    OBVIOUS
  <1>7. ASSUME NEW c \in BP
        PROVE  /\ FixAgeSum(F, c, n) = Sum(f(c), S) /\ FixAgeSum(E, c, n) = Sum(h(c), S)
               /\ Sum(f(c), S) = Sum(f(c), T) + Sum(f(c), S \ T)
               /\ Sum(f(c), S) \in Nat /\ Sum(f(c), T) \in Nat /\ Sum(f(c), S \ T) \in Nat
               /\ Sum(h(c), S) = IF c = b THEN Sum(f(c), S \ T) ELSE Sum(f(c), S)
    <2> DEFINE fc == f(c)
               hc == h(c)
    <2>1. FixAgeSum(F, c, n) = Sum(fc, S) /\ FixAgeSum(E, c, n) = Sum(hc, S)
      BY DEF FixAgeSum, SumFunction
    <2>2. \A i \in S : fc[i] \in Nat /\ hc[i] \in Nat
      BY <1>1, <1>3, FixAgeNat
    <2>3. \A i \in S : i[1] # v => hc[i] = fc[i]
      BY <1>2
    <2>4. \A i \in S : i[1] = v => hc[i] = IF c = b THEN 0 ELSE fc[i]
      BY <1>1, <1>2, ClaimFixRow
    <2> HIDE DEF fc, hc, E, S, T
    <2>5. Sum(fc, S) = Sum(fc, T) + Sum(fc, S \ T)
          /\ Sum(hc, S) = Sum(hc, T) + Sum(hc, S \ T)
      BY <1>5, <2>2, SumSplit
    <2>6. Sum(fc, S) \in Nat /\ Sum(fc, T) \in Nat /\ Sum(fc, S \ T) \in Nat
      BY <1>5, <2>2, SumNat
    <2>7. Sum(hc, S \ T) = Sum(fc, S \ T)
      BY <1>5, <1>6, <2>2, <2>3, SumCong
    <2>8. CASE c = b
      <3>1. Sum(hc, T) = 0
        BY <1>5, <1>6, <2>4, <2>8, SumZero
      <3>2. QED
        BY <2>1, <2>5, <2>6, <2>7, <2>8, <3>1 DEF fc, hc
    <2>9. CASE c # b
      <3>1. \A i \in S : hc[i] \in Int /\ hc[i] = fc[i]
        BY <2>2, <2>3, <2>4, <2>9
      <3>2. Sum(hc, S) = Sum(fc, S)
        BY <1>5, <3>1, SumCong
      <3>3. QED
        BY <2>1, <2>5, <2>6, <2>9, <3>2 DEF fc, hc
    <2>10. QED
      BY <2>8, <2>9
  <1>8. ASSUME NEW c \in BP
        PROVE  FixStakeSum(E, c) = FixStakeSum(F, c)
    <2> DEFINE g == [i \in S |-> FixStakeOn(F[i], c)]
               k == [i \in S |-> FixStakeOn(E[i], c)]
    <2>1. \A i \in S : g[i] \in Int
      BY <1>1, FixRowBlockPasses
    <2>2. \A i \in S : g[i] = k[i]
      BY <1>1, <1>2, ClaimFixRow
    <2>3. FixStakeSum(F, c) = SumFunctionOnSet(g, S) /\ FixStakeSum(E, c) = SumFunctionOnSet(k, S)
      BY DEF FixStakeSum, SumFunction
    <2> HIDE DEF g, k, S
    <2>4. QED
      BY <1>5, <2>1, <2>2, <2>3, SumCong
  <1>9. FixAgesOf(F, v, b, n) = Sum(f(b), T)
    BY DEF FixAgesOf
  <1> HIDE DEF E, S, T, f, h, Sum
  <1>10. QED
    BY <1>4, <1>7, <1>8, <1>9 DEF E

LEMMA ClaimVotes ==
    ASSUME NEW n \in Nat, NEW V, VotesOK(V, n), NEW v \in Voter, NEW b \in BP
    PROVE  LET old == V[<<"votes", v, b>>]
               W == Put(V, <<"votes", v, b>>, CleanAge(old, n))
           IN  /\ VotesOK(W, n)
               /\ GetAge(old, n) \in Nat
               /\ GetAge(old, n) <= VoteAgeSum(V, b, n)
               /\ \A c \in BP :
                    /\ VoteAgeSum(V, c, n) \in Nat
                    /\ VoteStakeSum(W, c) = VoteStakeSum(V, c)
                    /\ VoteAgeSum(W, c, n) =
                         IF c = b THEN VoteAgeSum(V, c, n) - GetAge(old, n)
                                  ELSE VoteAgeSum(V, c, n)
  <1> DEFINE t == "votes"
             old == V[<<t, v, b>>]
             row == CleanAge(old, n)
             W == Put(V, <<t, v, b>>, row)
  <1>1. V \in VoteTable /\ t \in Tables /\ <<t, v, b>> \in Tables \X Voter \X BP
    BY DEF VotesOK, Tables
  <1>2. old \in VoteRow /\ old.staked \in Nat
        /\ old.staked % PRECISION = 0 /\ old.update_height <= n
    BY <1>1 DEF VotesOK, VoteTable, VoteRow
  <1>3. /\ row \in VoteRow /\ row.staked = old.staked
        /\ row.update_height = n /\ row.age = 0
    BY <1>2 DEF CleanAge, VoteRow
  <1>4. VotesOK(W, n)
    BY <1>1, <1>2, <1>3 DEF VotesOK, VoteTable, Put
  <1>5. old.staked \div PRECISION \in Int /\ GetAge(old, n) \in Nat
    BY <1>2, NumberAssumption, ChangeKeepsAge
  <1>6. GetAge(row, n) = 0
    <2> DEFINE s == old.staked \div PRECISION
    <2>1. GetAge(row, n) = s * (n - n) + 0
      BY <1>3 DEF GetAge
    <2>2. s \in Int
      BY <1>5
    <2> HIDE DEF s, row
    <2>3. QED
      BY <2>1, <2>2
  <1>7. ASSUME NEW c \in BP
        PROVE  VoteAgeSum(V, c, n) \in Nat /\ (c = b => GetAge(old, n) <= VoteAgeSum(V, c, n))
    <2> DEFINE S == Tables \X Voter
               f == [i \in S |-> GetAge(V[<<i[1], i[2], c>>], n)]
    <2>1. VoteAgeSum(V, c, n) = SumFunctionOnSet(f, S)
      BY DEF VoteAgeSum, SumFunction
    <2>2. ASSUME NEW i \in S PROVE f[i] \in Nat
      <3>1. <<i[1], i[2], c>> \in Tables \X Voter \X BP
        OBVIOUS
      <3>2. V[<<i[1], i[2], c>>] \in VoteRow /\ V[<<i[1], i[2], c>>].update_height <= n
        BY <3>1 DEF VotesOK, VoteTable
      <3>3. QED
        BY <3>2, ChangeKeepsAge
    <2>3. <<t, v>> \in S /\ IsFiniteSet(S)
      BY <1>1, FiniteIndices
    <2>4. c = b => f[<<t, v>>] = GetAge(old, n)
      BY <2>3
    <2> HIDE DEF f, S
    <2>5. SumFunctionOnSet(f, S) \in Nat
      BY <2>2, <2>3, SumNat
    <2>6. f[<<t, v>>] <= SumFunctionOnSet(f, S)
      BY <2>2, <2>3, SumAtLeast
    <2>7. QED
      BY <2>1, <2>4, <2>5, <2>6
  <1> HIDE DEF t, old, row, W
  <1>8. ASSUME NEW c \in BP
        PROVE  /\ VoteStakeSum(W, c) = VoteStakeSum(V, c)
               /\ VoteAgeSum(W, c, n) =
                    IF c = b THEN VoteAgeSum(V, c, n) - GetAge(old, n)
                             ELSE VoteAgeSum(V, c, n)
    <2>1. /\ VoteStakeSum(V, c) \in Int
          /\ VoteStakeSum(W, c) =
               IF c = b THEN VoteStakeSum(V, c) - (old.staked \div PRECISION)
                             + (row.staked \div PRECISION)
                        ELSE VoteStakeSum(V, c)
      BY <1>1, <1>3, VoteStakeUpdate DEF old, W
    <2>2. VoteStakeSum(W, c) = VoteStakeSum(V, c)
      BY <1>3, <1>5, <2>1
    <2>3. /\ VoteAgeSum(V, c, n) \in Int
          /\ VoteAgeSum(W, c, n) =
               IF c = b THEN VoteAgeSum(V, c, n) - GetAge(old, n) + GetAge(row, n)
                        ELSE VoteAgeSum(V, c, n)
      BY <1>1, <1>3, VoteAgeUpdate DEF old, W
    <2>4. QED
      BY <1>5, <1>6, <2>2, <2>3
  <1>9. QED
    BY <1>4, <1>5, <1>7, <1>8 DEF t, old, row, W

-----------------------------------------------------------------------------
(* A producer's total_staked and voteage follow the votes on it *)

\* The votes on b gain or lose amount, and no sum of ages grows: then
\* add_total_staked keeps the accounts.
LEMMA Move ==
    ASSUME NEW n \in Nat, NEW V, NEW F, NEW T, NEW W, NEW E,
           BPsOK(T, n), Accounts(V, F, T, n), VotesOK(W, n), FixesOK(E, n),
           NEW b \in BP, NEW amount \in Int,
           \A c \in BP :
              /\ VoteStakeSum(W, c) + FixStakeSum(E, c) =
                   VoteStakeSum(V, c) + FixStakeSum(F, c)
                     + (IF c = b THEN amount \div PRECISION ELSE 0)
              /\ VoteAgeSum(W, c, n) + FixAgeSum(E, c, n) <=
                   VoteAgeSum(V, c, n) + FixAgeSum(F, c, n),
           VotesOK(V, n), FixesOK(F, n)
    PROVE  LET B == Put(T, b, AddTotalStaked(T[b], n, amount))
           IN  BPsOK(B, n) /\ Accounts(W, E, B, n)
  <1> DEFINE B == Put(T, b, AddTotalStaked(T[b], n, amount))
  <1>1. T \in BPTable /\ \A c \in BP : T[c].voteage_update_height <= n
    BY DEF BPsOK
  <1>2. \A c \in BP : /\ VoteStakeSum(W, c) \in Nat /\ FixStakeSum(E, c) \in Nat
                      /\ VoteStakeSum(V, c) \in Nat /\ FixStakeSum(F, c) \in Nat
    BY StakeSumNat DEF VotesOK, FixesOK
  <1>3. \A c \in BP : /\ VoteAgeSum(W, c, n) \in Int /\ VoteAgeSum(V, c, n) \in Int
                      /\ FixAgeSum(E, c, n) \in Int /\ FixAgeSum(F, c, n) \in Int
    BY VoteBlockPasses, FixBlockPasses
  <1>4. amount \div PRECISION \in Int
    BY NumberAssumption
  <1>5. T[b].total_staked + (amount \div PRECISION) \in Nat
    BY <1>2, <1>4 DEF Accounts, Accounted
  <1>6. /\ B \in BPTable
        /\ \A c \in BP :
             /\ B[c].voteage_update_height <= n
             /\ BPGetAge(B[c], n) = BPGetAge(T[c], n)
             /\ B[c].total_staked = IF c = b THEN T[c].total_staked + (amount \div PRECISION)
                                             ELSE T[c].total_staked
    BY <1>1, <1>5, BPsAdd
  <1> HIDE DEF B
  <1>7. BPsOK(B, n)
    BY <1>6 DEF BPsOK
  <1>8. ASSUME NEW c \in BP PROVE Accounted(W, E, B, n, c)
    <2>1. T[c].total_staked = VoteStakeSum(V, c) + FixStakeSum(F, c)
          /\ VoteAgeSum(V, c, n) + FixAgeSum(F, c, n) <= BPGetAge(T[c], n)
      BY DEF Accounts, Accounted
    <2>2. B[c].total_staked = VoteStakeSum(W, c) + FixStakeSum(E, c)
      BY <1>2, <1>4, <1>6, <2>1
    <2>3. BPGetAge(T[c], n) \in Int
      BY <1>1, BPAge DEF BPTable
    <2>4. VoteAgeSum(W, c, n) + FixAgeSum(E, c, n) <= BPGetAge(B[c], n)
      BY <1>3, <1>6, <2>1, <2>3
    <2>5. QED
      BY <2>2, <2>4 DEF Accounted
  <1>9. QED
    BY <1>7, <1>8 DEF Accounts, B

-----------------------------------------------------------------------------
(* The inductive invariant *)

\* The accounts of the producers and what they rest on.
Core ==
    /\ block \in Nat
    /\ VotesOK(votes, block) /\ FixesOK(fixvotes, block) /\ BPsOK(bps, block)
    /\ Accounts(votes, fixvotes, bps, block)

RamSums ==
    /\ DOMAIN vote4ramsum \subseteq Voter
    /\ \A v \in DOMAIN vote4ramsum : vote4ramsum[v] \in Nat
    /\ Vote4RamSum

Rest ==
    /\ available \in [Voter -> Nat]
    /\ gvotestat \in Int
    /\ blackpro \subseteq BP
    /\ gfstate \in BOOLEAN
    /\ freezed \subseteq Voter

IInv == Core /\ RamSums /\ Rest

LEMMA InvariantImplies ==
    ASSUME IInv
    PROVE  TypeOK /\ StakeAccounting /\ VoteAgeCovered /\ NoAgeUnderflow /\ Vote4RamSum
  <1>1. TypeOK
    BY DEF IInv, Core, RamSums, Rest, VotesOK, FixesOK, BPsOK, TypeOK,
           VoteTable, FixTable, BPTable, VoteRow, FixRow, BPRow
  <1>2. StakeAccounting /\ VoteAgeCovered
    BY DEF IInv, Core, Accounts, Accounted, StakeAccounting, VoteAgeCovered
  <1>3. NoAgeUnderflow
    BY DEF IInv, Core, VotesOK, FixesOK, FixOK, BPsOK, NoAgeUnderflow
  <1>4. QED
    BY <1>1, <1>2, <1>3 DEF IInv, RamSums

LEMMA Initial ==
    ASSUME Init
    PROVE  IInv
  <1>1. block = 1
    BY DEF Init
  <1>2. VotesOK(votes, block)
    BY <1>1, NumberAssumption DEF Init, VotesOK, VoteTable, VoteRow, ZeroVote
  <1>3. FixesOK(fixvotes, block)
    BY <1>1, NumberAssumption DEF Init, FixesOK, FixOK, FixTable, FixRow, NoFix, Exists
  <1>4. BPsOK(bps, block)
    BY <1>1 DEF Init, BPsOK, BPTable, BPRow, ZeroBP
  <1>5. ASSUME NEW c \in BP PROVE Accounted(votes, fixvotes, bps, block, c)
    <2> DEFINE S == Tables \X Voter
               K == Voter \X Key
               fs == [i \in S |-> votes[<<i[1], i[2], c>>].staked \div PRECISION]
               fa == [i \in S |-> GetAge(votes[<<i[1], i[2], c>>], block)]
               gs == [i \in K |-> FixStakeOn(fixvotes[i], c)]
               ga == [i \in K |-> FixAgeOn(fixvotes[i], c, block)]
    <2>1. 0 \div PRECISION = 0
      BY NumberAssumption
    <2>2. ASSUME NEW i \in S PROVE fs[i] = 0 /\ fa[i] = 0
      <3>1. <<i[1], i[2], c>> \in Tables \X Voter \X BP
        OBVIOUS
      <3>2. votes[<<i[1], i[2], c>>] = ZeroVote
        BY <3>1 DEF Init
      <3>3. GetAge(ZeroVote, block) = 0
        BY <1>1, <2>1 DEF GetAge, ZeroVote
      <3>4. QED
        BY <2>1, <3>2, <3>3 DEF ZeroVote
    <2>3. ASSUME NEW i \in K PROVE gs[i] = 0 /\ ga[i] = 0
      BY NoBPAssumption DEF Init, NoFix, FixStakeOn, FixAgeOn
    <2>4. /\ VoteStakeSum(votes, c) = SumFunctionOnSet(fs, S)
          /\ VoteAgeSum(votes, c, block) = SumFunctionOnSet(fa, S)
          /\ FixStakeSum(fixvotes, c) = SumFunctionOnSet(gs, K)
          /\ FixAgeSum(fixvotes, c, block) = SumFunctionOnSet(ga, K)
      BY DEF VoteStakeSum, VoteAgeSum, FixStakeSum, FixAgeSum, SumFunction
    <2>5. IsFiniteSet(S) /\ IsFiniteSet(K)
      BY FiniteIndices
    <2> HIDE DEF S, K, fs, fa, gs, ga
    <2>6. /\ VoteStakeSum(votes, c) = 0 /\ VoteAgeSum(votes, c, block) = 0
          /\ FixStakeSum(fixvotes, c) = 0 /\ FixAgeSum(fixvotes, c, block) = 0
      BY <2>2, <2>3, <2>4, <2>5, SumZero
    <2>7. bps[c] = ZeroBP
      BY DEF Init
    <2>8. bps[c].total_staked = 0 /\ BPGetAge(bps[c], block) = 0
      BY <1>1, <2>7 DEF ZeroBP, BPGetAge
    <2>9. QED
      BY <2>6, <2>8 DEF Accounted
  <1>6. Core
    BY <1>1, <1>2, <1>3, <1>4, <1>5 DEF Core, Accounts
  <1>7. RamSums
    <2>1. ASSUME NEW v \in Voter PROVE RamStake(votes, v) = 0
      <3> DEFINE f == [b \in BP |-> votes[<<"votes4ram", v, b>>].staked]
      <3>1. ASSUME NEW b \in BP PROVE f[b] = 0
        <4>1. <<"votes4ram", v, b>> \in Tables \X Voter \X BP
          BY DEF Tables
        <4>2. QED
          BY <4>1 DEF Init, ZeroVote
      <3>2. RamStake(votes, v) = SumFunctionOnSet(f, BP)
        BY DEF RamStake, SumFunction
      <3> HIDE DEF f
      <3>3. QED
        BY <3>1, <3>2, FiniteIndices, SumZero
    <2>2. DOMAIN vote4ramsum = {}
      BY DEF Init
    <2>3. QED
      BY <2>1, <2>2 DEF RamSums, Vote4RamSum
  <1>8. Rest
    <2>1. available \in [Voter -> Nat]
      BY NumberAssumption DEF Init
    <2>2. gvotestat \in Int
      <3>1. gvotestat = 0 \/ gvotestat = -1
        BY VoteStatAssumption DEF Init, NoStat
      <3>2. QED
        BY <3>1
    <2>3. QED
      BY <2>1, <2>2 DEF Init, Rest
  <1>9. QED
    BY <1>6, <1>7, <1>8 DEF IInv

-----------------------------------------------------------------------------
(* Actions that change votes *)

\* A call that leaves votes4ram alone leaves the sums of the voters alone.
LEMMA RamUnchanged ==
    ASSUME RamSums, vote4ramsum' = vote4ramsum,
           \A v \in Voter : RamStake(votes', v) = RamStake(votes, v)
    PROVE  RamSums'
    BY DEF RamSums, Vote4RamSum, RamStake

LEMMA GlobalTotalInt ==
    ASSUME gvotestat \in Int, NEW T \in BPTable, NEW change \in Int
    PROVE  OnChangeTotalStaked(T, change) \in Int
  <1>1. SumStaked(T) \in Int
    BY SumStakedInt
  <1>2. change \div PRECISION \in Int
    BY NumberAssumption
  <1>3. QED
    BY <1>1, <1>2 DEF OnChangeTotalStaked, GetGlobalVotestate

LEMMA AvailableInt ==
    ASSUME available \in [Voter -> Nat], NEW v \in Voter, NEW x \in Int,
           available[v] + x \in Nat,
           available' = [available EXCEPT ![v] = @ + x]
    PROVE  available' \in [Voter -> Nat]
    OBVIOUS

LEMMA VoteByTypStep ==
    ASSUME IInv, NEW t \in Tables, NEW v \in Voter, NEW b \in BP, NEW stake \in Int,
           VoteByTyp(t, v, b, stake)
    PROVE  /\ Core' /\ Rest'
           /\ votes[<<t, v, b>>].staked \in Nat /\ stake \in Nat
           /\ \A w \in Voter :
                /\ RamStake(votes, w) \in Nat
                /\ RamStake(votes', w) =
                     IF w = v /\ t = "votes4ram"
                     THEN RamStake(votes, w) - votes[<<t, v, b>>].staked + stake
                     ELSE RamStake(votes, w)
  <1> DEFINE i == <<t, v, b>>
             row == votes[i]
             change == stake - row.staked
             restaked == ChangeStakedTo(row, block, stake)
             new == IF change < 0 THEN AddUnstaking(restaked, block, -change) ELSE restaked
             B == Put(bps, b, AddTotalStaked(bps[b], block, change))
  <1>1. /\ block \in Nat /\ VotesOK(votes, block) /\ FixesOK(fixvotes, block)
        /\ BPsOK(bps, block) /\ Accounts(votes, fixvotes, bps, block)
        /\ votes \in VoteTable /\ i \in Tables \X Voter \X BP /\ bps \in BPTable
    BY DEF IInv, Core, VotesOK, BPsOK
  <1>2. row \in VoteRow /\ row.update_height <= block /\ row.staked \in Nat
    BY <1>1 DEF VotesOK, VoteTable, VoteRow
  <1>3. stake \in Nat /\ stake % PRECISION = 0
    BY DEF VoteByTyp
  <1>4. restaked \in VoteRow /\ GetAge(row, block) \in Nat
    BY <1>1, <1>2, <1>3, ChangeKeepsAge
  <1>5. /\ new \in VoteRow /\ new.staked = stake /\ new.update_height = block
        /\ new.age = GetAge(row, block)
    <2>1. /\ restaked.staked = stake /\ restaked.update_height = block
          /\ restaked.age = GetAge(row, block)
      BY <1>2 DEF ChangeStakedTo, VoteRow
    <2> HIDE DEF restaked
    <2>2. change \in Int
      BY <1>2
    <2> HIDE DEF change
    <2>3. CASE change < 0
      <3>1. restaked.unstaking - change \in Nat
        BY <1>4, <2>2, <2>3 DEF VoteRow
      <3>2. new = AddUnstaking(restaked, block, -change)
        BY <2>3
      <3>3. QED
        BY <1>1, <1>4, <2>1, <2>2, <2>3, <3>1, <3>2 DEF AddUnstaking, VoteRow
    <2>4. CASE ~(change < 0)
      BY <1>4, <2>1, <2>4
    <2>5. QED
      BY <2>3, <2>4
  <1>6. votes' = Put(votes, i, new) /\ block' = block /\ fixvotes' = fixvotes
    BY DEF VoteByTyp, Put, chainVars
  <1>7. change \in Int
    BY <1>2
  <1>8. IF change = 0 THEN bps' = bps /\ gvotestat' = gvotestat
                      ELSE bps' = B /\ gvotestat' = OnChangeTotalStaked(B, change)
    BY DEF VoteByTyp, Put
  <1> HIDE DEF new, restaked, B
  <1>9. /\ VotesOK(votes', block)
        /\ \A c \in BP :
             /\ VoteStakeSum(votes, c) \in Int
             /\ VoteStakeSum(votes', c) =
                  IF c = b THEN VoteStakeSum(votes, c) + (change \div PRECISION)
                           ELSE VoteStakeSum(votes, c)
             /\ VoteAgeSum(votes', c, block) = VoteAgeSum(votes, c, block)
    <2>1. /\ VotesOK(Put(votes, i, new), block)
          /\ \A c \in BP :
               /\ VoteStakeSum(votes, c) \in Int
               /\ VoteStakeSum(Put(votes, i, new), c) =
                    IF c = b THEN VoteStakeSum(votes, c) + ((stake - votes[<<t, v, b>>].staked) \div PRECISION)
                             ELSE VoteStakeSum(votes, c)
               /\ VoteAgeSum(Put(votes, i, new), c, block) = VoteAgeSum(votes, c, block)
      BY <1>1, <1>3, <1>5, Restake
    <2>2. QED
      BY <1>6, <2>1
  <1>10. \A c \in BP : /\ FixStakeSum(fixvotes, c) \in Int
                       /\ VoteAgeSum(votes, c, block) \in Int
                       /\ FixAgeSum(fixvotes, c, block) \in Int
    BY <1>1, VoteBlockPasses, FixBlockPasses
  <1> HIDE DEF row, i
  <1>11. change \div PRECISION \in Int
    BY <1>7, NumberAssumption
  <1>12. Core'
    <2>1. CASE change = 0
      <3>1. change \div PRECISION = 0
        BY <2>1, NumberAssumption
      <3>2. \A c \in BP : Accounted(votes', fixvotes, bps, block, c)
        BY <1>1, <1>9, <3>1 DEF Accounts, Accounted
      <3>3. QED
        BY <1>1, <1>6, <1>8, <1>9, <2>1, <3>2 DEF Core, Accounts
    <2>2. CASE change # 0
      <3> HIDE DEF change
      <3>1. BPsOK(B, block) /\ Accounts(votes', fixvotes, B, block)
        <4>1. \A c \in BP :
                /\ VoteStakeSum(votes', c) + FixStakeSum(fixvotes, c) =
                     VoteStakeSum(votes, c) + FixStakeSum(fixvotes, c)
                       + (IF c = b THEN change \div PRECISION ELSE 0)
                /\ VoteAgeSum(votes', c, block) + FixAgeSum(fixvotes, c, block) <=
                     VoteAgeSum(votes, c, block) + FixAgeSum(fixvotes, c, block)
          BY <1>9, <1>10, <1>11
        <4>2. QED
          BY <1>1, <1>7, <1>9, <4>1, Move DEF B
      <3>2. QED
        BY <1>1, <1>6, <1>8, <1>9, <2>2, <3>1 DEF Core
    <2>3. QED
      BY <2>1, <2>2
  <1>13. Rest'
    <2>1. UNCHANGED <<blackpro, gfstate, freezed>>
      BY DEF VoteByTyp, chainVars
    <2>2. gvotestat' \in Int
      <3>1. gvotestat \in Int
        BY DEF IInv, Rest
      <3>2. change # 0 => B \in BPTable
        BY <1>8, <1>12 DEF Core, BPsOK
      <3> HIDE DEF change
      <3>3. QED
        BY <1>7, <1>8, <3>1, <3>2, GlobalTotalInt
    <2>3. available' \in [Voter -> Nat]
      <3>1. available \in [Voter -> Nat]
        BY DEF IInv, Rest
      <3>2. change <= available[v] /\ IF change > 0 THEN available' = [available EXCEPT ![v] = @ - change]
                                                    ELSE available' = available
        BY DEF VoteByTyp, i, row
      <3> HIDE DEF change
      <3>3. QED
        BY <1>7, <3>1, <3>2
    <2>4. QED
      BY <2>1, <2>2, <2>3 DEF IInv, Rest
  <1>14. \A w \in Voter :
           /\ RamStake(votes, w) \in Nat
           /\ RamStake(votes', w) =
                IF w = v /\ t = "votes4ram"
                THEN RamStake(votes, w) - votes[<<t, v, b>>].staked + stake
                ELSE RamStake(votes, w)
    BY <1>1, <1>5, <1>6, RamSumUpdate DEF i
  <1>15. QED
    BY <1>2, <1>3, <1>12, <1>13, <1>14 DEF i, row

LEMMA VoteStep ==
    ASSUME IInv, NEW v \in Voter, NEW b \in BP, NEW stake \in Stakes, Vote(v, b, stake)
    PROVE  IInv'
  <1>1. "votes" \in Tables /\ stake \in Int
    BY AmountAssumption DEF Tables
  <1>2. VoteByTyp("votes", v, b, stake) /\ vote4ramsum' = vote4ramsum
    BY DEF Vote
  <1>3. Core' /\ Rest' /\ \A w \in Voter : RamStake(votes', w) = RamStake(votes, w)
    BY <1>1, <1>2, VoteByTypStep
  <1>4. RamSums'
    BY <1>2, <1>3, RamUnchanged DEF IInv
  <1>5. QED
    BY <1>3, <1>4 DEF IInv

LEMMA Vote4RamStep ==
    ASSUME IInv, NEW v \in Voter, NEW b \in BP, NEW stake \in RamStakes,
           Vote4Ram(v, b, stake)
    PROVE  IInv'
  <1> DEFINE old == votes[<<"votes4ram", v, b>>].staked
  <1>1. "votes4ram" \in Tables /\ stake \in Int
    BY AmountAssumption DEF Tables
  <1>2. VoteByTyp("votes4ram", v, b, stake)
    BY DEF Vote4Ram
  <1>3. /\ Core' /\ Rest' /\ old \in Nat /\ stake \in Nat
        /\ \A w \in Voter :
             /\ RamStake(votes, w) \in Nat
             /\ RamStake(votes', w) = IF w = v THEN RamStake(votes, w) - old + stake
                                               ELSE RamStake(votes, w)
    BY <1>1, <1>2, VoteByTypStep
  <1>4. /\ vote4ramsum' = [w \in DOMAIN vote4ramsum \cup {v} |->
              IF w # v THEN vote4ramsum[w]
              ELSE IF v \in DOMAIN vote4ramsum
                   THEN vote4ramsum[v] + (stake - old)
                   ELSE stake]
    BY DEF Vote4Ram, RamSum
  <1>5. /\ DOMAIN vote4ramsum \subseteq Voter
        /\ \A w \in DOMAIN vote4ramsum : vote4ramsum[w] \in Nat
        /\ \A w \in Voter : RamStake(votes, w) =
                              IF w \in DOMAIN vote4ramsum THEN vote4ramsum[w] ELSE 0
    BY DEF IInv, RamSums, Vote4RamSum
  <1>6. \A w \in Voter : RamStake(votes', w) \in Nat
    <2>1. votes' \in VoteTable
      BY <1>3 DEF Core, VotesOK
    <2>2. ASSUME NEW w \in Voter PROVE RamStake(votes', w) \in Nat
      <3> DEFINE i == <<"votes4ram", w, b>>
                 f == [c \in BP |-> votes'[<<"votes4ram", w, c>>].staked]
      <3>1. \A c \in BP : <<"votes4ram", w, c>> \in Tables \X Voter \X BP
        BY DEF Tables
      <3>2. \A c \in BP : f[c] \in Nat
        BY <2>1, <3>1 DEF VoteTable, VoteRow
      <3>3. RamStake(votes', w) = SumFunctionOnSet(f, BP)
        BY DEF RamStake, SumFunction
      <3> HIDE DEF f
      <3>4. QED
        BY <3>2, <3>3, FiniteIndices, SumNat
    <2>3. QED
      BY <2>2
  <1> HIDE DEF old
  <1>7. \A w \in Voter : RamStake(votes', w) =
                           IF w \in DOMAIN vote4ramsum' THEN vote4ramsum'[w] ELSE 0
    <2>1. ASSUME NEW w \in Voter
          PROVE  RamStake(votes', w) =
                   IF w \in DOMAIN vote4ramsum' THEN vote4ramsum'[w] ELSE 0
      <3>1. CASE w # v
        BY <1>3, <1>4, <1>5, <3>1
      <3>2. CASE w = v /\ v \in DOMAIN vote4ramsum
        BY <1>3, <1>4, <1>5, <3>2
      <3>3. CASE w = v /\ v \notin DOMAIN vote4ramsum
        <4>1. old = 0
          <5> DEFINE f == [c \in BP |-> votes[<<"votes4ram", v, c>>].staked]
          <5>1. votes \in VoteTable /\ \A c \in BP : <<"votes4ram", v, c>> \in Tables \X Voter \X BP
            BY DEF IInv, Core, VotesOK, Tables
          <5>2. \A c \in BP : f[c] \in Nat
            BY <5>1 DEF VoteTable, VoteRow
          <5>3. RamStake(votes, v) = SumFunctionOnSet(f, BP) /\ f[b] = old
            BY DEF RamStake, SumFunction, old
          <5> HIDE DEF f
          <5>4. f[b] <= SumFunctionOnSet(f, BP)
            BY <5>2, FiniteIndices, SumAtLeast
          <5>5. QED
            BY <1>3, <1>5, <3>3, <5>3, <5>4
        <4>2. QED
          BY <1>3, <1>4, <1>5, <3>3, <4>1
      <3>4. QED
        BY <3>1, <3>2, <3>3
    <2>2. QED
      BY <2>1
  <1>8. DOMAIN vote4ramsum' \subseteq Voter
    BY <1>4, <1>5
  <1>9. RamSums'
    <2>1. \A w \in DOMAIN vote4ramsum' : vote4ramsum'[w] \in Nat
      BY <1>6, <1>7, <1>8
    <2>2. QED
      BY <1>7, <1>8, <2>1 DEF RamSums, Vote4RamSum, RamStake
  <1>10. QED
    BY <1>3, <1>9 DEF IInv

LEMMA RevoteStep ==
    ASSUME IInv, NEW v \in Voter, NEW b \in BP, NEW d \in BP, NEW restake \in Stakes,
           Revote(v, b, d, restake)
    PROVE  IInv'
  <1> DEFINE t == "votes"
             i == <<t, v, b>>
             j == <<t, v, d>>
             from == votes[i]
             to == votes[j]
             fromNew == ChangeStakedTo(from, block, from.staked - restake)
             toNew == ChangeStakedTo(to, block, to.staked + restake)
             V == Put(votes, i, fromNew)
             W == Put(V, j, toNew)
             T == Put(bps, b, AddTotalStaked(bps[b], block, -restake))
             B == Put(T, d, AddTotalStaked(T[d], block, restake))
  <1>1. /\ block \in Nat /\ VotesOK(votes, block) /\ FixesOK(fixvotes, block)
        /\ BPsOK(bps, block) /\ Accounts(votes, fixvotes, bps, block)
        /\ votes \in VoteTable /\ bps \in BPTable /\ t \in Tables
        /\ i \in Tables \X Voter \X BP /\ j \in Tables \X Voter \X BP
    BY DEF IInv, Core, VotesOK, BPsOK, Tables
  <1>2. /\ b # d /\ restake \in Nat /\ restake % PRECISION = 0 /\ restake <= from.staked
        /\ i # j
    BY AmountAssumption DEF Revote
  <1>3. /\ from \in VoteRow /\ from.staked \in Nat /\ from.staked % PRECISION = 0
        /\ from.update_height <= block
        /\ to \in VoteRow /\ to.staked \in Nat /\ to.staked % PRECISION = 0
        /\ to.update_height <= block
    BY <1>1 DEF VotesOK, VoteTable, VoteRow
  <1>4. /\ from.staked - restake \in Nat /\ to.staked + restake \in Nat
        /\ (from.staked - restake) % PRECISION = 0
        /\ (to.staked + restake) % PRECISION = 0
    BY <1>2, <1>3, DivAdd
  <1>5. votes' = W
    <2>1. votes' = [votes EXCEPT ![i] = fromNew, ![j] = toNew]
      BY DEF Revote
    <2> HIDE DEF fromNew, toNew, i, j
    <2>2. QED
      BY <2>1 DEF Put
  <1>6. bps' = B
    <2>1. T[d] = bps[d]
      BY <1>1, <1>2 DEF Put, BPTable
    <2>2. bps' = [bps EXCEPT ![b] = AddTotalStaked(bps[b], block, -restake),
                             ![d] = AddTotalStaked(bps[d], block, restake)]
      BY DEF Revote
    <2>3. B = [T EXCEPT ![d] = AddTotalStaked(bps[d], block, restake)]
      BY <2>1 DEF Put
    <2>4. QED
      BY <2>2, <2>3 DEF Put
  <1>7. UNCHANGED <<block, blackpro, gfstate, freezed, available, vote4ramsum,
                    fixvotes, gvotestat>>
    BY DEF Revote, chainVars
  <1>8. /\ fromNew \in VoteRow /\ fromNew.staked = from.staked - restake
        /\ fromNew.update_height = block /\ fromNew.age = GetAge(from, block)
    BY <1>1, <1>3, <1>4, ChangeKeepsAge DEF ChangeStakedTo, VoteRow
  <1>9. /\ toNew \in VoteRow /\ toNew.staked = to.staked + restake
        /\ toNew.update_height = block /\ toNew.age = GetAge(to, block)
    BY <1>1, <1>3, <1>4, ChangeKeepsAge DEF ChangeStakedTo, VoteRow
  <1>10. V[j] = to
    BY <1>1, <1>2 DEF Put, VoteTable
  <1>11. /\ VotesOK(V, block)
         /\ \A c \in BP :
              /\ VoteStakeSum(votes, c) \in Int
              /\ VoteStakeSum(V, c) =
                   IF c = b THEN VoteStakeSum(votes, c) + ((-restake) \div PRECISION)
                            ELSE VoteStakeSum(votes, c)
              /\ VoteAgeSum(V, c, block) = VoteAgeSum(votes, c, block)
    <2>1. (from.staked - restake) - from.staked = -restake
      BY <1>2, <1>3
    <2> HIDE DEF fromNew
    <2>2. QED
      BY <1>1, <1>4, <1>8, <2>1, Restake
  <1>12. /\ VotesOK(W, block)
         /\ \A c \in BP :
              /\ VoteStakeSum(V, c) \in Int
              /\ VoteStakeSum(W, c) =
                   IF c = d THEN VoteStakeSum(V, c) + (restake \div PRECISION)
                            ELSE VoteStakeSum(V, c)
              /\ VoteAgeSum(W, c, block) = VoteAgeSum(V, c, block)
    <2>1. (to.staked + restake) - to.staked = restake
      BY <1>2, <1>3
    <2> HIDE DEF toNew, V
    <2>2. QED
      BY <1>1, <1>4, <1>9, <1>10, <1>11, <2>1, Restake
  <1> HIDE DEF V, W, fromNew, toNew, from, to
  <1>13. \A c \in BP : /\ FixStakeSum(fixvotes, c) \in Int
                       /\ VoteAgeSum(votes, c, block) \in Int
                       /\ FixAgeSum(fixvotes, c, block) \in Int
    BY <1>1, VoteBlockPasses, FixBlockPasses
  <1>14. restake \div PRECISION \in Int /\ (-restake) \div PRECISION \in Int /\ -restake \in Int
    BY <1>2, NumberAssumption
  <1>15. BPsOK(T, block) /\ Accounts(V, fixvotes, T, block)
    <2>1. \A c \in BP :
            /\ VoteStakeSum(V, c) + FixStakeSum(fixvotes, c) =
                 VoteStakeSum(votes, c) + FixStakeSum(fixvotes, c)
                   + (IF c = b THEN (-restake) \div PRECISION ELSE 0)
            /\ VoteAgeSum(V, c, block) + FixAgeSum(fixvotes, c, block) <=
                 VoteAgeSum(votes, c, block) + FixAgeSum(fixvotes, c, block)
      BY <1>11, <1>13, <1>14
    <2>2. QED
      BY <1>1, <1>11, <1>14, <2>1, Move
  <1> HIDE DEF T
  <1>16. BPsOK(B, block) /\ Accounts(W, fixvotes, B, block)
    <2>1. \A c \in BP :
            /\ VoteStakeSum(W, c) + FixStakeSum(fixvotes, c) =
                 VoteStakeSum(V, c) + FixStakeSum(fixvotes, c)
                   + (IF c = d THEN restake \div PRECISION ELSE 0)
            /\ VoteAgeSum(W, c, block) + FixAgeSum(fixvotes, c, block) <=
                 VoteAgeSum(V, c, block) + FixAgeSum(fixvotes, c, block)
      BY <1>11, <1>12, <1>13, <1>14
    <2>2. restake \in Int
      BY <1>2
    <2>3. QED
      BY <1>1, <1>11, <1>12, <1>15, <2>1, <2>2, Move
  <1>17. Core' /\ Rest'
    BY <1>1, <1>5, <1>6, <1>7, <1>12, <1>16 DEF IInv, Core, Rest
  <1>18. \A w \in Voter : RamStake(votes', w) = RamStake(votes, w)
    <2>1. V \in VoteTable
      BY <1>11 DEF VotesOK
    <2>2. t # "votes4ram"
      OBVIOUS
    <2>3. \A w \in Voter : RamStake(V, w) = RamStake(votes, w)
      BY <1>1, <1>8, <2>2, RamSumUpdate DEF V
    <2>4. \A w \in Voter : RamStake(W, w) = RamStake(V, w)
      BY <1>1, <1>9, <2>1, <2>2, RamSumUpdate DEF W
    <2>5. QED
      BY <1>5, <2>3, <2>4
  <1>19. RamSums'
    BY <1>7, <1>18, RamUnchanged DEF IInv
  <1>20. QED
    BY <1>17, <1>19 DEF IInv

\* The unstaking amount of one row and balances change, and nothing else.
LEMMA UnstakingStep ==
    ASSUME IInv, NEW t \in Tables, NEW v \in Voter, NEW b \in BP, NEW row \in VoteRow,
           row.staked = votes[<<t, v, b>>].staked,
           row.update_height = votes[<<t, v, b>>].update_height,
           row.age = votes[<<t, v, b>>].age
    PROVE  LET W == Put(votes, <<t, v, b>>, row)
           IN  /\ VotesOK(W, block)
               /\ \A c \in BP :
                    /\ VoteStakeSum(votes, c) \in Int /\ VoteAgeSum(votes, c, block) \in Int
                    /\ VoteStakeSum(W, c) = VoteStakeSum(votes, c)
                    /\ VoteAgeSum(W, c, block) = VoteAgeSum(votes, c, block)
               /\ \A w \in Voter : RamStake(W, w) = RamStake(votes, w)
  <1>1. block \in Nat /\ VotesOK(votes, block) /\ votes \in VoteTable
    BY DEF IInv, Core, VotesOK
  <1>2. votes[<<t, v, b>>].staked \in Nat
    BY <1>1 DEF VoteTable, VoteRow
  <1>3. \A w \in Voter : /\ RamStake(votes, w) \in Nat
                         /\ RamStake(Put(votes, <<t, v, b>>, row), w) = RamStake(votes, w)
    <2>1. ASSUME NEW w \in Voter
          PROVE  /\ RamStake(votes, w) \in Nat
                 /\ RamStake(Put(votes, <<t, v, b>>, row), w) =
                      IF w = v /\ t = "votes4ram"
                      THEN RamStake(votes, w) - votes[<<t, v, b>>].staked + row.staked
                      ELSE RamStake(votes, w)
      BY <1>1, RamSumUpdate
    <2>2. QED
      BY <1>2, <2>1
  <1>4. \A c \in BP : VoteStakeSum(votes, c) \in Int /\ VoteAgeSum(votes, c, block) \in Int
    BY <1>1, VoteBlockPasses
  <1>5. QED
    BY <1>1, <1>3, <1>4, UnstakingChange

LEMMA UnfreezeStep ==
    ASSUME IInv, NEW t \in Tables, NEW v \in Voter, NEW b \in BP, UnfreezeByTyp(t, v, b)
    PROVE  IInv'
  <1> DEFINE old == votes[<<t, v, b>>]
             row == [old EXCEPT !.unstaking = 0]
             W == Put(votes, <<t, v, b>>, row)
  <1>1. /\ block \in Nat /\ FixesOK(fixvotes, block) /\ BPsOK(bps, block)
        /\ Accounts(votes, fixvotes, bps, block)
        /\ votes \in VoteTable
    BY DEF IInv, Core, VotesOK
  <1>2. old \in VoteRow
    BY <1>1 DEF VoteTable
  <1>3. /\ row \in VoteRow /\ row.staked = old.staked
        /\ row.update_height = old.update_height /\ row.age = old.age
        /\ old.unstaking \in Nat
    BY <1>2 DEF VoteRow
  <1>4. votes' = W
    BY <1>1 DEF UnfreezeByTyp, Put, VoteTable
  <1>5. /\ UNCHANGED <<block, blackpro, gfstate, freezed, vote4ramsum, fixvotes, bps, gvotestat>>
        /\ available' = [available EXCEPT ![v] = @ + old.unstaking]
    BY DEF UnfreezeByTyp, chainVars
  <1> HIDE DEF row
  <1>6. /\ VotesOK(W, block)
        /\ \A c \in BP :
             /\ VoteStakeSum(W, c) = VoteStakeSum(votes, c)
             /\ VoteAgeSum(W, c, block) = VoteAgeSum(votes, c, block)
        /\ \A w \in Voter : RamStake(W, w) = RamStake(votes, w)
    BY <1>3, UnstakingStep
  <1> HIDE DEF W, old
  <1>7. Core'
    BY <1>1, <1>4, <1>5, <1>6 DEF Core, Accounts, Accounted
  <1>8. Rest'
    BY <1>3, <1>5 DEF IInv, Rest
  <1>9. RamSums'
    BY <1>4, <1>5, <1>6, RamUnchanged DEF IInv
  <1>10. QED
    BY <1>7, <1>8, <1>9 DEF IInv

LEMMA ClaimStep ==
    ASSUME IInv, NEW v \in Voter, NEW b \in BP, Claim(v, b)
    PROVE  IInv'
  <1> DEFINE vage == GetAge(votes[<<"votes", v, b>>], block)
             fage == FixAgesOf(fixvotes, v, b, block)
             total == BPGetAge(bps[b], block)
             reward == ClaimReward(v, b)
             W == Put(votes, <<"votes", v, b>>, CleanAge(votes[<<"votes", v, b>>], block))
             E == ClaimedFixes(fixvotes, v, b, block)
             q == [bps[b] EXCEPT !.rewards_pool = @ - reward,
                                 !.total_voteage = total - (vage + fage),
                                 !.voteage_update_height = block]
  <1>1. /\ block \in Nat /\ VotesOK(votes, block) /\ FixesOK(fixvotes, block)
        /\ BPsOK(bps, block) /\ Accounts(votes, fixvotes, bps, block)
        /\ votes \in VoteTable /\ bps \in BPTable
    BY DEF IInv, Core, VotesOK, BPsOK
  <1>2. bps[b] \in BPRow /\ bps[b].voteage_update_height <= block /\ total \in Nat
    BY <1>1, BPAge DEF BPsOK, BPTable
  <1>3. ClaimAge(v, b) = vage + fage
    BY DEF ClaimAge, FixAgesOf
  <1>4. /\ VotesOK(W, block) /\ vage \in Nat /\ vage <= VoteAgeSum(votes, b, block)
        /\ \A c \in BP :
             /\ VoteAgeSum(votes, c, block) \in Nat
             /\ VoteStakeSum(W, c) = VoteStakeSum(votes, c)
             /\ VoteAgeSum(W, c, block) = IF c = b THEN VoteAgeSum(votes, c, block) - vage
                                                   ELSE VoteAgeSum(votes, c, block)
    BY <1>1, ClaimVotes
  <1>5. /\ FixesOK(E, block) /\ fage \in Nat /\ fage <= FixAgeSum(fixvotes, b, block)
        /\ \A c \in BP :
             /\ FixAgeSum(fixvotes, c, block) \in Nat
             /\ FixStakeSum(E, c) = FixStakeSum(fixvotes, c)
             /\ FixAgeSum(E, c, block) = IF c = b THEN FixAgeSum(fixvotes, c, block) - fage
                                                  ELSE FixAgeSum(fixvotes, c, block)
    BY <1>1, ClaimFixes
  <1>6. VoteAgeSum(votes, b, block) + FixAgeSum(fixvotes, b, block) <= total
    BY <1>1 DEF Accounts, Accounted
  <1>7. votes' = W
    BY DEF Claim, Put
  <1>8. fixvotes' = E
    <2>1. fixvotes' = [i \in Voter \X Key |->
             IF i[1] # v \/ fixvotes[i].bpname # b THEN fixvotes[i]
             ELSE IF fixvotes[i].is_withdraw THEN NoFix
             ELSE FixCleanAge(fixvotes[i], block)]
      BY DEF Claim
    <2>2. QED
      BY <2>1 DEF ClaimedFixes, ClaimedRow
  <1>9. reward \in Nat /\ reward <= bps[b].rewards_pool
    <2>1. 0 < total /\ 0 <= reward /\ reward <= bps[b].rewards_pool
      BY DEF Claim
    <2>2. bps[b].rewards_pool \in Nat
      BY <1>2 DEF BPRow
    <2>3. bps[b].rewards_pool * (vage + fage) \in Int
      BY <1>4, <1>5, <2>2
    <2>4. reward = (bps[b].rewards_pool * (vage + fage)) \div total
      BY <1>3 DEF ClaimReward
    <2> DEFINE x == bps[b].rewards_pool * (vage + fage)
    <2> HIDE DEF x, total, reward
    <2>5. x \div total \in Int
      BY <1>2, <2>1, <2>3 DEF x
    <2>6. QED
      BY <2>1, <2>4, <2>5 DEF x
  <1>10. bps' = Put(bps, b, q)
    BY <1>1, <1>3 DEF Claim, Put, BPTable
  <1>11. UNCHANGED <<block, blackpro, gfstate, freezed, vote4ramsum, gvotestat>>
         /\ available' = [available EXCEPT ![v] = @ + reward]
    BY DEF Claim, chainVars
  <1>12. total - (vage + fage) \in Nat
    BY <1>2, <1>4, <1>5, <1>6
  <1>13. /\ q \in BPRow /\ q.voteage_update_height = block
         /\ q.total_staked = bps[b].total_staked
         /\ q.total_voteage = total - (vage + fage)
    <2>1. bps[b].rewards_pool - reward \in Nat
      BY <1>2, <1>9 DEF BPRow
    <2> HIDE DEF reward, total, vage, fage
    <2>2. QED
      BY <1>1, <1>2, <1>12, <2>1 DEF BPRow
  <1>14. BPGetAge(q, block) = total - (vage + fage)
    <2>1. BPGetAge(q, block) = q.total_staked * (block - block) + q.total_voteage
      BY <1>13 DEF BPGetAge
    <2>2. q.total_staked \in Nat
      BY <1>13 DEF BPRow
    <2> HIDE DEF q
    <2>3. q.total_staked * (block - block) = 0
      BY <1>1, <2>2
    <2>4. QED
      BY <1>12, <1>13, <2>1, <2>3
  <1> HIDE DEF q, W, E, vage, fage, reward
  <1>15. BPsOK(bps', block)
    BY <1>1, <1>10, <1>13 DEF BPsOK, BPTable, Put
  <1>16. ASSUME NEW c \in BP PROVE Accounted(W, E, bps', block, c)
    <2>1. bps[c].total_staked = VoteStakeSum(votes, c) + FixStakeSum(fixvotes, c)
          /\ VoteAgeSum(votes, c, block) + FixAgeSum(fixvotes, c, block) <= BPGetAge(bps[c], block)
      BY <1>1 DEF Accounts, Accounted
    <2>2. bps'[c] = IF c = b THEN q ELSE bps[c]
      BY <1>1, <1>10 DEF Put, BPTable
    <2>3. CASE c = b
      <3>1. bps'[c].total_staked = VoteStakeSum(W, c) + FixStakeSum(E, c)
        BY <1>4, <1>5, <1>13, <2>1, <2>2, <2>3
      <3> HIDE DEF total
      <3>2. VoteAgeSum(W, c, block) + FixAgeSum(E, c, block) <= BPGetAge(bps'[c], block)
        BY <1>2, <1>4, <1>5, <1>6, <1>14, <2>2, <2>3
      <3>3. QED
        BY <3>1, <3>2 DEF Accounted
    <2>4. CASE c # b
      BY <1>4, <1>5, <2>1, <2>2, <2>4 DEF Accounted
    <2>5. QED
      BY <2>3, <2>4
  <1>17. Core'
    BY <1>1, <1>4, <1>5, <1>7, <1>8, <1>11, <1>15, <1>16 DEF Core, Accounts
  <1>18. Rest'
    BY <1>9, <1>11 DEF IInv, Rest
  <1>19. \A w \in Voter : RamStake(votes', w) = RamStake(votes, w)
    <2> DEFINE row == CleanAge(votes[<<"votes", v, b>>], block)
    <2>1. "votes" \in Tables /\ "votes" # "votes4ram"
      BY DEF Tables
    <2>2. row \in VoteRow
      <3>1. votes[<<"votes", v, b>>] \in VoteRow
        BY <1>1, <2>1 DEF VoteTable
      <3>2. QED
        BY <1>1, <3>1 DEF CleanAge, VoteRow
    <2> HIDE DEF row
    <2>3. \A w \in Voter : RamStake(Put(votes, <<"votes", v, b>>, row), w) = RamStake(votes, w)
      BY <1>1, <2>1, <2>2, RamSumUpdate
    <2>4. QED
      BY <1>7, <2>3 DEF W, row
  <1>20. RamSums'
    BY <1>11, <1>19, RamUnchanged DEF IInv
  <1>21. QED
    BY <1>17, <1>18, <1>20 DEF IInv

-----------------------------------------------------------------------------
(* Actions that change fix-time votes *)

\* available_primary_key never returns the key of a row that exists.
LEMMA AvailableKeyIsFree ==
    ASSUME NEW v, AvailableKey(v) \in Key
    PROVE  ~Exists(fixvotes[<<v, AvailableKey(v)>>])
  <1> DEFINE used == {k \in Key : Exists(fixvotes[<<v, k>>])}
  <1>1. CASE used = {}
    BY <1>1 DEF AvailableKey
  <1>2. CASE used # {}
    <2>1. used \subseteq Nat /\ \A k \in used : k <= MaxKey
      BY NumberAssumption DEF Key
    <2> DEFINE rest == {m \in Nat : \E k \in used : m = MaxKey - k}
    <2>2. rest # {} /\ rest \subseteq Nat
      <3>1. PICK k \in used : TRUE
        BY <1>2
      <3>2. MaxKey - k \in rest
        BY <2>1, <3>1, NumberAssumption
      <3>3. QED
        BY <3>2
    <2> HIDE DEF rest
    <2>3. PICK m \in rest : \A x \in rest : ~(<<x, m>> \in OpToRel(<, Nat))
      <3>1. IsWellFoundedOn(OpToRel(<, Nat), Nat)
        BY NatLessThanWellFounded
      <3>2. QED
        BY <2>2, <3>1, WFMin
    <2>4. \A x \in rest : ~(x < m)
      BY <2>2, <2>3 DEF OpToRel
    <2> USE DEF rest
    <2>5. PICK k \in used : m = MaxKey - k
      BY <2>3
    <2>6. \A x \in used : k >= x
      <3>1. ASSUME NEW x \in used PROVE k >= x
        <4>1. MaxKey - x \in rest
          BY <2>1, NumberAssumption
        <4>2. ~(MaxKey - x < m)
          BY <2>4, <4>1
        <4>3. QED
          BY <2>1, <2>5, <4>2, NumberAssumption
      <3>2. QED
        BY <3>1
    <2> HIDE DEF rest, used
    <2>7. Max(used) \in used /\ \A x \in used : Max(used) >= x
      BY <2>6 DEF Max
    <2>8. AvailableKey(v) = Max(used) + 1
      BY <1>2 DEF AvailableKey, used
    <2>9. PICK top \in used : AvailableKey(v) = top + 1 /\ \A x \in used : top >= x
      BY <2>7, <2>8
    <2>10. top + 1 \notin used
      BY <2>1, <2>9
    <2>11. QED
      BY <2>9, <2>10 DEF used
  <1>3. QED
    BY <1>1, <1>2

\* A vote of the fix-time kind on b enters fixvotes with the sums of the
\* other votes as they were.
LEMMA AddFixVoteStep ==
    ASSUME IInv, NEW v \in Voter, NEW b \in BP, NEW type \in FixType,
           NEW stake \in FixStakes, AddFixVote(v, b, type, stake),
           NEW W, VotesOK(W, block),
           \A c \in BP : /\ VoteStakeSum(W, c) = VoteStakeSum(votes, c)
                         /\ VoteAgeSum(W, c, block) = VoteAgeSum(votes, c, block),
           votes' = W
    PROVE  Core' /\ gvotestat' \in Int
  <1> DEFINE key == AvailableKey(v)
             i == <<v, key>>
             power == stake * FixPower[type]
             new == [bpname |-> b, staked |-> power, age |-> 0,
                     update_height |-> block, vote |-> stake,
                     withdraw |-> block + FixBlocks[type], is_withdraw |-> FALSE]
             E == Put(fixvotes, i, new)
             B == Put(bps, b, AddTotalStaked(bps[b], block, power))
  <1>1. /\ block \in Nat /\ VotesOK(votes, block) /\ FixesOK(fixvotes, block)
        /\ BPsOK(bps, block) /\ Accounts(votes, fixvotes, bps, block)
        /\ bps \in BPTable
    BY DEF IInv, Core, BPsOK
  <1>2. i \in Voter \X Key
    BY DEF AddFixVote
  <1>3. /\ fixvotes' = E /\ bps' = B /\ gvotestat' = OnChangeTotalStaked(B, power)
        /\ block' = block
    BY DEF AddFixVote, Put, chainVars
  <1>4. FixBlocks[type] \in Nat /\ FixPower[type] \in Nat
    BY FixAssumption
  <1>5. stake \in Nat /\ stake % PRECISION = 0
    BY AmountAssumption DEF AddFixVote
  <1>6. power \in Nat /\ power % PRECISION = 0
    <2> DEFINE a == stake \div PRECISION
               f == FixPower[type]
    <2>1. stake = PRECISION * a /\ a \in Int /\ f \in Nat
      BY <1>4, <1>5, NumberAssumption, MultipleDiv
    <2> HIDE DEF a, f
    <2>2. PRECISION \in Nat \ {0} /\ a * f \in Int
      BY <2>1, NumberAssumption
    <2>3. stake * f = PRECISION * (a * f)
      BY <2>1, <2>2
    <2>4. (PRECISION * (a * f)) % PRECISION = 0
      BY <2>2, DivMultiple
    <2>5. stake * f \in Nat
      BY <1>5, <2>1, NatProduct
    <2>6. QED
      BY <2>3, <2>4, <2>5 DEF f
  <1> HIDE DEF power
  <1>7. block + FixBlocks[type] \in Nat /\ ~(block > block + FixBlocks[type])
    BY <1>1, <1>4
  <1>8. new \in FixRow
    BY <1>1, <1>5, <1>6, <1>7 DEF FixRow
  <1>9. CalcBlock(new, block) = block
    BY <1>7 DEF CalcBlock
  <1>10. FixOK(new, block)
    BY <1>1, <1>6, <1>9 DEF FixOK
  <1>11. ASSUME NEW c \in BP
         PROVE  /\ FixStakeOn(new, c) = IF c = b THEN power \div PRECISION ELSE 0
                /\ FixAgeOn(new, c, block) = 0
    <2> DEFINE s == power \div PRECISION
    <2>1. FixStakeOn(new, c) = IF c = b THEN power \div PRECISION ELSE 0
      BY DEF FixStakeOn
    <2>2. FixAgeOn(new, c, block) = IF c = b THEN s * (block - block) + 0 ELSE 0
      BY <1>9 DEF FixAgeOn, FixGetAge, GetAge
    <2>3. s \in Int
      BY <1>6, NumberAssumption
    <2> HIDE DEF s
    <2>4. s * (block - block) + 0 = 0
      BY <1>1, <2>3
    <2>5. QED
      BY <2>1, <2>2, <2>4
  <1>12. \A c \in BP : FixStakeOn(fixvotes[i], c) = 0 /\ FixAgeOn(fixvotes[i], c, block) = 0
    <2>1. fixvotes[i].bpname = NoBP
      BY AvailableKeyIsFree DEF AddFixVote, Exists
    <2>2. QED
      BY <2>1, NoBPAssumption DEF FixStakeOn, FixAgeOn
  <1> HIDE DEF new, i, key
  <1>13. /\ FixesOK(E, block)
         /\ \A c \in BP :
              /\ FixStakeSum(fixvotes, c) \in Int /\ FixAgeSum(fixvotes, c, block) \in Int
              /\ FixStakeSum(E, c) = FixStakeSum(fixvotes, c) - FixStakeOn(fixvotes[i], c)
                                       + FixStakeOn(new, c)
              /\ FixAgeSum(E, c, block) = FixAgeSum(fixvotes, c, block)
                                            - FixAgeOn(fixvotes[i], c, block)
                                            + FixAgeOn(new, c, block)
    BY <1>1, <1>2, <1>8, <1>10, PutFix
  <1> HIDE DEF E, B
  <1>14. power \div PRECISION \in Int /\ power \in Int
    BY <1>6, NumberAssumption
  <1>15. \A c \in BP : VoteStakeSum(votes, c) \in Int /\ VoteAgeSum(votes, c, block) \in Int
    BY <1>1, VoteBlockPasses
  <1>16. \A c \in BP :
           /\ VoteStakeSum(W, c) + FixStakeSum(E, c) =
                VoteStakeSum(votes, c) + FixStakeSum(fixvotes, c)
                  + (IF c = b THEN power \div PRECISION ELSE 0)
           /\ VoteAgeSum(W, c, block) + FixAgeSum(E, c, block) <=
                VoteAgeSum(votes, c, block) + FixAgeSum(fixvotes, c, block)
    BY <1>11, <1>12, <1>13, <1>14, <1>15
  <1>17. BPsOK(B, block) /\ Accounts(W, E, B, block)
    BY <1>1, <1>13, <1>14, <1>16, Move DEF B
  <1>18. Core'
    BY <1>1, <1>3, <1>13, <1>17 DEF Core
  <1>19. gvotestat' \in Int
    <2>1. B \in BPTable /\ gvotestat \in Int
      BY <1>17 DEF BPsOK, IInv, Rest
    <2>2. QED
      BY <1>3, <1>14, <2>1, GlobalTotalInt
  <1>20. QED
    BY <1>18, <1>19

LEMMA VoteFixAvailableStep ==
    ASSUME IInv, NEW v \in Voter, NEW b \in BP, NEW type \in FixType,
           NEW stake \in FixStakes, VoteFixAvailable(v, b, type, stake)
    PROVE  IInv'
  <1>1. votes' = votes /\ VotesOK(votes, block)
    BY DEF VoteFixAvailable, IInv, Core
  <1>2. AddFixVote(v, b, type, stake)
    BY DEF VoteFixAvailable
  <1>3. Core' /\ gvotestat' \in Int
    BY <1>1, <1>2, AddFixVoteStep
  <1>4. UNCHANGED <<blackpro, gfstate, freezed, vote4ramsum>>
    BY <1>2 DEF AddFixVote, chainVars
  <1>5. available' \in [Voter -> Nat]
    <2>1. stake \in Nat
      BY <1>2, AmountAssumption DEF AddFixVote
    <2>2. /\ stake <= available[v] /\ available \in [Voter -> Nat]
          /\ available' = [available EXCEPT ![v] = @ - stake]
      BY DEF VoteFixAvailable, IInv, Rest
    <2>3. QED
      BY <2>1, <2>2
  <1>6. Rest'
    BY <1>3, <1>4, <1>5 DEF IInv, Rest
  <1>7. RamSums'
    BY <1>1, <1>4, RamUnchanged DEF IInv, RamStake
  <1>8. QED
    BY <1>3, <1>6, <1>7 DEF IInv

LEMMA VoteFixUnstakingStep ==
    ASSUME IInv, NEW v \in Voter, NEW b \in BP, NEW type \in FixType,
           NEW stake \in FixStakes, VoteFixUnstaking(v, b, type, stake)
    PROVE  IInv'
  <1> DEFINE t == "votes"
             old == votes[<<t, v, b>>]
             row == [old EXCEPT !.unstaking = old.unstaking - stake]
             W == Put(votes, <<t, v, b>>, row)
  <1>1. AddFixVote(v, b, type, stake) /\ stake < old.unstaking
    BY DEF VoteFixUnstaking
  <1>2. stake \in Nat
    BY <1>1, AmountAssumption DEF AddFixVote
  <1>3. votes \in VoteTable /\ t \in Tables /\ <<t, v, b>> \in Tables \X Voter \X BP
    BY DEF IInv, Core, VotesOK, Tables
  <1>4. old \in VoteRow /\ old.unstaking \in Nat
    BY <1>3 DEF VoteTable, VoteRow
  <1>5. /\ row \in VoteRow /\ row.staked = old.staked
        /\ row.update_height = old.update_height /\ row.age = old.age
    <2>1. old.unstaking - stake \in Nat
      BY <1>1, <1>2, <1>4
    <2>2. QED
      BY <1>4, <2>1 DEF VoteRow
  <1>6. votes' = W
    BY <1>3 DEF VoteFixUnstaking, Put, VoteTable
  <1> HIDE DEF row
  <1>7. /\ VotesOK(W, block)
        /\ \A c \in BP :
             /\ VoteStakeSum(W, c) = VoteStakeSum(votes, c)
             /\ VoteAgeSum(W, c, block) = VoteAgeSum(votes, c, block)
        /\ \A w \in Voter : RamStake(W, w) = RamStake(votes, w)
    BY <1>3, <1>5, UnstakingStep
  <1> HIDE DEF W
  <1>8. Core' /\ gvotestat' \in Int
    BY <1>1, <1>6, <1>7, AddFixVoteStep
  <1>9. UNCHANGED <<blackpro, gfstate, freezed, vote4ramsum, available>>
    BY <1>1 DEF AddFixVote, VoteFixUnstaking, chainVars
  <1>10. Rest'
    BY <1>8, <1>9 DEF IInv, Rest
  <1>11. RamSums'
    BY <1>6, <1>7, <1>9, RamUnchanged DEF IInv
  <1>12. QED
    BY <1>8, <1>10, <1>11 DEF IInv

\* What is known of a fix-time vote that exists.
LEMMA FixRowFacts ==
    ASSUME IInv, NEW v \in Voter, NEW k \in Key, Exists(fixvotes[<<v, k>>])
    PROVE  LET f == fixvotes[<<v, k>>]
           IN  /\ f \in FixRow /\ FixOK(f, block) /\ f.bpname \in BP
               /\ f.staked \in Nat /\ -f.staked \in Int
               /\ f.staked \div PRECISION \in Int
               /\ (-f.staked) \div PRECISION = -(f.staked \div PRECISION)
               /\ \A c \in BP : FixAgeOn(f, c, block) \in Int
  <1> DEFINE f == fixvotes[<<v, k>>]
  <1>1. /\ fixvotes \in FixTable /\ <<v, k>> \in Voter \X Key
        /\ \A i \in Voter \X Key : FixOK(fixvotes[i], block)
        /\ block \in Nat
    BY DEF IInv, Core, FixesOK
  <1>2. f \in FixRow /\ FixOK(f, block)
    BY <1>1 DEF FixTable
  <1>3. f.bpname \in BP
    BY <1>2 DEF FixRow, Exists
  <1>4. f.staked \in Nat /\ f.staked % PRECISION = 0
    BY <1>2 DEF FixRow, FixOK
  <1>5. (-f.staked) \div PRECISION = -(f.staked \div PRECISION)
    BY <1>4, DivAdd
  <1>6. f.staked \div PRECISION \in Int
    BY <1>4, NumberAssumption
  <1>7. \A c \in BP : FixAgeOn(f, c, block) \in Int
    BY <1>1, <1>2, FixAgeInt
  <1>8. QED
    BY <1>2, <1>3, <1>4, <1>5, <1>6, <1>7

LEMMA RevoteFixStep ==
    ASSUME IInv, NEW v \in Voter, NEW k \in Key, NEW d \in BP, RevoteFix(v, k, d)
    PROVE  IInv'
  <1> DEFINE i == <<v, k>>
             f == fixvotes[i]
             s == f.staked
             new == [FixCleanAge(f, block) EXCEPT !.bpname = d]
             F == Put(fixvotes, i, NoFix)
             E == Put(F, i, new)
             T == Put(bps, f.bpname, AddTotalStaked(bps[f.bpname], block, -s))
             B == Put(T, d, AddTotalStaked(T[d], block, s))
  <1>1. /\ block \in Nat /\ VotesOK(votes, block) /\ FixesOK(fixvotes, block)
        /\ BPsOK(bps, block) /\ Accounts(votes, fixvotes, bps, block)
        /\ bps \in BPTable /\ fixvotes \in FixTable /\ i \in Voter \X Key
    BY DEF IInv, Core, BPsOK, FixesOK
  <1>2. /\ Exists(f) /\ f.bpname # d /\ ~f.is_withdraw /\ f.withdraw > block
        /\ FixGetAge(f, block) = 0
    BY DEF RevoteFix
  <1>3. /\ f \in FixRow /\ FixOK(f, block) /\ f.bpname \in BP
        /\ s \in Nat /\ -s \in Int
        /\ s \div PRECISION \in Int /\ (-s) \div PRECISION = -(s \div PRECISION)
    BY <1>2, FixRowFacts
  <1>4. CalcBlock(f, block) = block
    BY <1>1, <1>2, <1>3 DEF CalcBlock, FixRow
  <1>5. /\ new \in FixRow /\ new.bpname = d /\ new.staked = s /\ new.age = 0
        /\ new.update_height = block /\ new.withdraw = f.withdraw /\ ~new.is_withdraw
    BY <1>1, <1>2, <1>3, <1>4 DEF FixCleanAge, CleanAge, FixRow
  <1>6. fixvotes' = E
    BY <1>1 DEF RevoteFix, Put, FixTable
  <1>7. bps' = B
    <2>1. T[d] = bps[d]
      BY <1>1, <1>2 DEF Put, BPTable
    <2>2. bps' = [bps EXCEPT ![f.bpname] = AddTotalStaked(bps[f.bpname], block, -s),
                             ![d] = AddTotalStaked(bps[d], block, s)]
      BY DEF RevoteFix
    <2>3. B = [T EXCEPT ![d] = AddTotalStaked(bps[d], block, s)]
      BY <2>1 DEF Put
    <2>4. QED
      BY <2>2, <2>3 DEF Put
  <1>8. UNCHANGED <<block, blackpro, gfstate, freezed, available, votes,
                    vote4ramsum, gvotestat>>
    BY DEF RevoteFix, chainVars
  <1> HIDE DEF new
  <1>9. CalcBlock(new, block) = block /\ FixOK(new, block)
    <2>1. CalcBlock(new, block) = block
      BY <1>1, <1>2, <1>5 DEF CalcBlock, FixRow
    <2>2. s % PRECISION = 0
      BY <1>3 DEF FixOK
    <2>3. QED
      BY <1>1, <1>5, <2>1, <2>2 DEF FixOK
  <1>10. NoFix \in FixRow /\ FixOK(NoFix, block)
    BY NumberAssumption DEF NoFix, FixRow, FixOK, Exists
  <1>11. ASSUME NEW c \in BP
         PROVE  /\ FixStakeOn(f, c) = IF c = f.bpname THEN s \div PRECISION ELSE 0
                /\ FixAgeOn(f, c, block) = 0
                /\ FixStakeOn(NoFix, c) = 0 /\ FixAgeOn(NoFix, c, block) = 0
                /\ FixStakeOn(new, c) = IF c = d THEN s \div PRECISION ELSE 0
                /\ FixAgeOn(new, c, block) = 0
    <2>1. FixStakeOn(f, c) = IF c = f.bpname THEN s \div PRECISION ELSE 0
      BY <1>2 DEF FixStakeOn
    <2>2. FixAgeOn(f, c, block) = 0
      BY <1>2 DEF FixAgeOn
    <2>3. FixStakeOn(NoFix, c) = 0 /\ FixAgeOn(NoFix, c, block) = 0
      BY NoBPAssumption DEF NoFix, FixStakeOn, FixAgeOn
    <2>4. FixStakeOn(new, c) = IF c = d THEN s \div PRECISION ELSE 0
      BY <1>5 DEF FixStakeOn
    <2> DEFINE x == s \div PRECISION
    <2>5. FixAgeOn(new, c, block) = IF c = d THEN x * (block - block) + 0 ELSE 0
      BY <1>5, <1>9 DEF FixAgeOn, FixGetAge, GetAge
    <2>6. x \in Int
      BY <1>3
    <2> HIDE DEF x
    <2>7. x * (block - block) + 0 = 0
      BY <1>1, <2>6
    <2>8. QED
      BY <2>1, <2>2, <2>3, <2>4, <2>5, <2>7
  <1>12. /\ FixesOK(F, block)
         /\ \A c \in BP :
              /\ FixStakeSum(fixvotes, c) \in Int /\ FixAgeSum(fixvotes, c, block) \in Int
              /\ FixStakeSum(F, c) = FixStakeSum(fixvotes, c) - FixStakeOn(f, c)
                                       + FixStakeOn(NoFix, c)
              /\ FixAgeSum(F, c, block) = FixAgeSum(fixvotes, c, block)
                                            - FixAgeOn(f, c, block) + FixAgeOn(NoFix, c, block)
    BY <1>1, <1>10, PutFix
  <1>13. F[i] = NoFix
    BY <1>1 DEF Put, FixTable
  <1>14. /\ FixesOK(E, block)
         /\ \A c \in BP :
              /\ FixStakeSum(F, c) \in Int /\ FixAgeSum(F, c, block) \in Int
              /\ FixStakeSum(E, c) = FixStakeSum(F, c) - FixStakeOn(NoFix, c)
                                       + FixStakeOn(new, c)
              /\ FixAgeSum(E, c, block) = FixAgeSum(F, c, block)
                                            - FixAgeOn(NoFix, c, block) + FixAgeOn(new, c, block)
    <2> HIDE DEF F
    <2>1. QED
      BY <1>1, <1>5, <1>9, <1>12, <1>13, PutFix
  <1>15. \A c \in BP : VoteStakeSum(votes, c) \in Int /\ VoteAgeSum(votes, c, block) \in Int
    BY <1>1, VoteBlockPasses
  <1> HIDE DEF E, F, f, s, T, B
  <1>16. BPsOK(T, block) /\ Accounts(votes, F, T, block)
    <2>1. \A c \in BP :
            /\ VoteStakeSum(votes, c) + FixStakeSum(F, c) =
                 VoteStakeSum(votes, c) + FixStakeSum(fixvotes, c)
                   + (IF c = f.bpname THEN (-s) \div PRECISION ELSE 0)
            /\ VoteAgeSum(votes, c, block) + FixAgeSum(F, c, block) <=
                 VoteAgeSum(votes, c, block) + FixAgeSum(fixvotes, c, block)
      BY <1>3, <1>11, <1>12, <1>15
    <2>2. QED
      BY <1>1, <1>3, <1>12, <2>1, Move DEF T
  <1>17. BPsOK(B, block) /\ Accounts(votes, E, B, block)
    <2>1. \A c \in BP :
            /\ VoteStakeSum(votes, c) + FixStakeSum(E, c) =
                 VoteStakeSum(votes, c) + FixStakeSum(F, c)
                   + (IF c = d THEN s \div PRECISION ELSE 0)
            /\ VoteAgeSum(votes, c, block) + FixAgeSum(E, c, block) <=
                 VoteAgeSum(votes, c, block) + FixAgeSum(F, c, block)
      BY <1>3, <1>11, <1>14, <1>15
    <2>2. s \in Int
      BY <1>3
    <2>3. QED
      BY <1>1, <1>12, <1>14, <1>16, <2>1, <2>2, Move DEF B
  <1>18. Core' /\ Rest'
    BY <1>1, <1>6, <1>7, <1>8, <1>14, <1>17 DEF IInv, Core, Rest
  <1>19. RamSums'
    BY <1>8, RamUnchanged DEF IInv, RamStake
  <1>20. QED
    BY <1>18, <1>19 DEF IInv

LEMMA AddUnstakingRow ==
    ASSUME NEW r \in VoteRow, NEW n \in Nat, NEW amount \in Nat
    PROVE  LET row == AddUnstaking(r, n, amount)
           IN  /\ row \in VoteRow /\ row.staked = r.staked
               /\ row.update_height = r.update_height /\ row.age = r.age
  <1>1. r.unstaking + amount \in Nat
    BY DEF VoteRow
  <1>2. QED
    BY <1>1 DEF AddUnstaking, VoteRow

LEMMA OutFixVoteStep ==
    ASSUME IInv, NEW v \in Voter, NEW k \in Key, OutFixVote(v, k)
    PROVE  IInv'
  <1> DEFINE i == <<v, k>>
             f == fixvotes[i]
             b == f.bpname
             s == f.staked
             t == "votes"
             old == votes[<<t, v, b>>]
             row == AddUnstaking(old, block, f.vote)
             W == Put(votes, <<t, v, b>>, row)
             new == [f EXCEPT !.vote = 0, !.is_withdraw = TRUE]
             E == Put(fixvotes, i, new)
             B == Put(bps, b, AddTotalStaked(bps[b], block, -s))
  <1>1. /\ block \in Nat /\ VotesOK(votes, block) /\ FixesOK(fixvotes, block)
        /\ BPsOK(bps, block) /\ Accounts(votes, fixvotes, bps, block)
        /\ bps \in BPTable /\ fixvotes \in FixTable /\ votes \in VoteTable
        /\ i \in Voter \X Key
    BY DEF IInv, Core, BPsOK, FixesOK, VotesOK
  <1>2. Exists(f) /\ f.withdraw <= block /\ ~f.is_withdraw
    BY DEF OutFixVote, Ended
  <1>3. /\ f \in FixRow /\ FixOK(f, block) /\ b \in BP
        /\ s \in Nat /\ -s \in Int
        /\ s \div PRECISION \in Int /\ (-s) \div PRECISION = -(s \div PRECISION)
        /\ \A c \in BP : FixAgeOn(f, c, block) \in Int
    BY <1>2, FixRowFacts
  <1>4. t \in Tables /\ <<t, v, b>> \in Tables \X Voter \X BP
    BY <1>3 DEF Tables
  <1>5. old \in VoteRow /\ f.vote \in Nat
    BY <1>1, <1>3, <1>4 DEF VoteTable, FixRow
  <1>6. /\ row \in VoteRow /\ row.staked = old.staked
        /\ row.update_height = old.update_height /\ row.age = old.age
    BY <1>1, <1>5, AddUnstakingRow
  <1>7. /\ votes' = W /\ bps' = B
        /\ gvotestat' = OnChangeTotalStaked(B, -s)
    BY DEF OutFixVote, Ended, Put
  <1>8. fixvotes' = E
    <2>1. fixvotes' = [fixvotes EXCEPT ![<<v, k>>].vote = 0, ![<<v, k>>].is_withdraw = TRUE]
      BY DEF OutFixVote, Ended
    <2>2. QED
      BY <1>1, <2>1 DEF Put, FixTable
  <1>9. UNCHANGED <<block, blackpro, gfstate, freezed, available, vote4ramsum>>
    BY DEF OutFixVote, Ended, chainVars
  <1>10. /\ new \in FixRow /\ new.bpname = b /\ new.staked = s /\ new.is_withdraw
         /\ new.update_height = f.update_height /\ new.withdraw = f.withdraw
         /\ new.age = f.age
    BY <1>3 DEF FixRow
  <1> HIDE DEF new, row
  <1>11. FixOK(new, block) /\ FixGetAge(new, block) = FixGetAge(f, block)
    <2>1. CalcBlock(new, block) = CalcBlock(f, block)
      BY <1>10 DEF CalcBlock
    <2>2. GetAge(new, CalcBlock(new, block)) = GetAge(f, CalcBlock(f, block))
      BY <1>10, <2>1 DEF GetAge
    <2>3. QED
      BY <1>2, <1>3, <1>10, <2>1, <2>2 DEF FixOK, FixGetAge
  <1>12. ASSUME NEW c \in BP
         PROVE  /\ FixStakeOn(f, c) = IF c = b THEN s \div PRECISION ELSE 0
                /\ FixStakeOn(new, c) = 0
                /\ FixAgeOn(new, c, block) = FixAgeOn(f, c, block)
    BY <1>2, <1>10, <1>11 DEF FixStakeOn, FixAgeOn
  <1>13. /\ FixesOK(E, block)
         /\ \A c \in BP :
              /\ FixStakeSum(fixvotes, c) \in Int /\ FixAgeSum(fixvotes, c, block) \in Int
              /\ FixStakeSum(E, c) = FixStakeSum(fixvotes, c) - FixStakeOn(f, c)
                                       + FixStakeOn(new, c)
              /\ FixAgeSum(E, c, block) = FixAgeSum(fixvotes, c, block)
                                            - FixAgeOn(f, c, block) + FixAgeOn(new, c, block)
    BY <1>1, <1>10, <1>11, PutFix
  <1>14. /\ VotesOK(W, block)
         /\ \A c \in BP :
              /\ VoteStakeSum(votes, c) \in Int /\ VoteAgeSum(votes, c, block) \in Int
              /\ VoteStakeSum(W, c) = VoteStakeSum(votes, c)
              /\ VoteAgeSum(W, c, block) = VoteAgeSum(votes, c, block)
         /\ \A w \in Voter : RamStake(W, w) = RamStake(votes, w)
    BY <1>3, <1>4, <1>6, UnstakingStep
  <1> HIDE DEF W, E, B, f, s, b, i
  <1>15. BPsOK(B, block) /\ Accounts(W, E, B, block)
    <2>1. ASSUME NEW c \in BP
          PROVE  /\ VoteStakeSum(W, c) + FixStakeSum(E, c) =
                      VoteStakeSum(votes, c) + FixStakeSum(fixvotes, c)
                        + (IF c = b THEN (-s) \div PRECISION ELSE 0)
                 /\ VoteAgeSum(W, c, block) + FixAgeSum(E, c, block) <=
                      VoteAgeSum(votes, c, block) + FixAgeSum(fixvotes, c, block)
      <3>1. FixStakeSum(E, c) = FixStakeSum(fixvotes, c)
                                  + (IF c = b THEN (-s) \div PRECISION ELSE 0)
        BY <1>3, <1>12, <1>13
      <3>2. FixAgeSum(E, c, block) = FixAgeSum(fixvotes, c, block)
        BY <1>3, <1>12, <1>13
      <3>3. QED
        BY <1>3, <1>13, <1>14, <3>1, <3>2
    <2>2. QED
      BY <1>1, <1>3, <1>13, <1>14, <2>1, Move DEF B
  <1>16. Core'
    BY <1>1, <1>7, <1>8, <1>9, <1>13, <1>14, <1>15 DEF Core
  <1>17. Rest'
    <2>1. B \in BPTable /\ gvotestat \in Int
      BY <1>15 DEF BPsOK, IInv, Rest
    <2>2. gvotestat' \in Int
      BY <1>3, <1>7, <2>1, GlobalTotalInt
    <2>3. QED
      BY <1>9, <2>2 DEF IInv, Rest
  <1>18. RamSums'
    BY <1>7, <1>9, <1>14, RamUnchanged DEF IInv
  <1>19. QED
    BY <1>16, <1>17, <1>18 DEF IInv

-----------------------------------------------------------------------------
(* Blocks, the blacklist and the freeze table *)

\* A block passes and bps becomes T, which differs in the pools alone.
LEMMA BlockStep ==
    ASSUME IInv, NEW T \in BPTable,
           \A c \in BP : /\ T[c].total_staked = bps[c].total_staked
                         /\ T[c].total_voteage = bps[c].total_voteage
                         /\ T[c].voteage_update_height = bps[c].voteage_update_height,
           block' = block + 1, bps' = T, UNCHANGED voteVars
    PROVE  Core' /\ RamSums'
  <1>1. /\ block \in Nat /\ VotesOK(votes, block) /\ FixesOK(fixvotes, block)
        /\ BPsOK(bps, block) /\ Accounts(votes, fixvotes, bps, block)
        /\ bps \in BPTable
        /\ votes' = votes /\ fixvotes' = fixvotes /\ vote4ramsum' = vote4ramsum
    BY DEF IInv, Core, BPsOK, voteVars
  <1>2. \A c \in BP :
          /\ VotesOK(votes, block + 1)
          /\ VoteAgeSum(votes, c, block) \in Int /\ VoteStakeSum(votes, c) \in Int
          /\ VoteAgeSum(votes, c, block + 1) =
               VoteAgeSum(votes, c, block) + VoteStakeSum(votes, c)
    BY <1>1, VoteBlockPasses
  <1>3. \A c \in BP :
          /\ FixesOK(fixvotes, block + 1)
          /\ FixAgeSum(fixvotes, c, block) \in Int /\ FixStakeSum(fixvotes, c) \in Int
          /\ FixAgeSum(fixvotes, c, block + 1) \in Int
          /\ FixAgeSum(fixvotes, c, block + 1) <=
               FixAgeSum(fixvotes, c, block) + FixStakeSum(fixvotes, c)
    BY <1>1, FixBlockPasses
  <1>4. VotesOK(votes, block + 1)
    BY <1>1 DEF VotesOK, VoteTable, VoteRow
  <1>5. FixesOK(fixvotes, block + 1)
    <2>1. \A i \in Voter \X Key : fixvotes[i] \in FixRow /\ FixOK(fixvotes[i], block)
      BY <1>1 DEF FixesOK, FixTable
    <2>2. \A i \in Voter \X Key : FixOK(fixvotes[i], block + 1)
      BY <1>1, <2>1 DEF FixOK, FixRow, CalcBlock
    <2>3. QED
      BY <1>1, <2>2 DEF FixesOK
  <1>6. BPsOK(T, block + 1)
    BY <1>1 DEF BPsOK, BPTable, BPRow
  <1>7. ASSUME NEW c \in BP PROVE Accounted(votes, fixvotes, T, block + 1, c)
    <2>1. /\ bps[c].total_staked = VoteStakeSum(votes, c) + FixStakeSum(fixvotes, c)
          /\ VoteAgeSum(votes, c, block) + FixAgeSum(fixvotes, c, block)
               <= BPGetAge(bps[c], block)
      BY <1>1 DEF Accounts, Accounted
    <2>2. /\ BPGetAge(bps[c], block) \in Nat
          /\ BPGetAge(bps[c], block + 1) = BPGetAge(bps[c], block) + bps[c].total_staked
      BY <1>1, BPAge DEF BPsOK, BPTable
    <2>3. BPGetAge(T[c], block + 1) = BPGetAge(bps[c], block + 1)
      BY DEF BPGetAge
    <2>4. VoteAgeSum(votes, c, block + 1) + FixAgeSum(fixvotes, c, block + 1)
            <= BPGetAge(T[c], block + 1)
      BY <1>2, <1>3, <2>1, <2>2, <2>3
    <2>5. QED
      BY <2>1, <2>4 DEF Accounted
  <1>8. Core'
    BY <1>1, <1>4, <1>5, <1>6, <1>7 DEF Core, Accounts
  <1>9. RamSums'
    BY <1>1, RamUnchanged DEF IInv, RamStake
  <1>10. QED
    BY <1>8, <1>9

LEMMA OnBlockStep ==
    ASSUME IInv, OnBlock
    PROVE  IInv'
  <1>1. PICK reward \in [BP -> PoolRewards] :
          /\ block' = block + 1
          /\ gvotestat' = GetGlobalVotestate(bps)
          /\ bps' = [b \in BP |-> [bps[b] EXCEPT !.rewards_pool = @ + reward[b]]]
          /\ UNCHANGED <<blackpro, gfstate, freezed, voteVars, available>>
    BY DEF OnBlock
  <1> DEFINE T == [b \in BP |-> [bps[b] EXCEPT !.rewards_pool = @ + reward[b]]]
  <1>2. bps \in BPTable
    BY DEF IInv, Core, BPsOK
  <1>3. T \in BPTable
    BY <1>2, AmountAssumption DEF BPTable, BPRow
  <1>4. \A c \in BP : /\ T[c].total_staked = bps[c].total_staked
                      /\ T[c].total_voteage = bps[c].total_voteage
                      /\ T[c].voteage_update_height = bps[c].voteage_update_height
    BY <1>2 DEF BPTable, BPRow
  <1>5. bps' = T /\ UNCHANGED voteVars
    BY <1>1
  <1> HIDE DEF T
  <1>6. Core' /\ RamSums'
    BY <1>1, <1>3, <1>4, <1>5, BlockStep
  <1>7. gvotestat' \in Int
    <2>1. SumStaked(bps) \in Int /\ gvotestat \in Int
      BY <1>2, SumStakedInt DEF IInv, Rest
    <2>2. QED
      BY <1>1, <2>1 DEF GetGlobalVotestate
  <1>8. Rest'
    BY <1>1, <1>7 DEF IInv, Rest
  <1>9. QED
    BY <1>6, <1>8 DEF IInv

LEMMA OnBlockShortStep ==
    ASSUME IInv, OnBlockShort
    PROVE  IInv'
  <1>1. /\ block' = block + 1 /\ bps' = bps /\ UNCHANGED voteVars
        /\ UNCHANGED <<blackpro, gfstate, freezed, available, gvotestat>>
    BY DEF OnBlockShort
  <1>2. bps \in BPTable
    BY DEF IInv, Core, BPsOK
  <1>3. Core' /\ RamSums'
    BY <1>1, <1>2, BlockStep
  <1>4. Rest'
    BY <1>1 DEF IInv, Rest
  <1>5. QED
    BY <1>3, <1>4 DEF IInv

\* A step that changes only what the accounts do not rest on.
LEMMA RestStep ==
    ASSUME IInv, UNCHANGED <<block, voteVars, bps>>, Rest'
    PROVE  IInv'
  <1>1. UNCHANGED <<block, votes, fixvotes, vote4ramsum, bps>>
    BY DEF voteVars
  <1>2. Core'
    BY <1>1 DEF IInv, Core
  <1>3. RamSums'
    BY <1>1, RamUnchanged DEF IInv, RamStake
  <1>4. QED
    BY <1>2, <1>3 DEF IInv

LEMMA TransferStep ==
    ASSUME IInv, NEW from \in Voter, NEW to \in Voter, NEW q \in Quantities,
           Transfer(from, to, q)
    PROVE  IInv'
  <1>1. /\ q \in Int /\ 0 <= q /\ q <= available[from]
        /\ available' = [[available EXCEPT ![from] = @ - q] EXCEPT ![to] = @ + q]
        /\ UNCHANGED <<block, blackpro, gfstate, freezed, voteVars, bps, gvotestat>>
    BY AmountAssumption DEF Transfer, chainVars
  <1>2. available \in [Voter -> Nat]
    BY DEF IInv, Rest
  <1>3. [available EXCEPT ![from] = @ - q] \in [Voter -> Nat]
    BY <1>1, <1>2
  <1>4. available' \in [Voter -> Nat]
    BY <1>1, <1>3
  <1>5. Rest'
    BY <1>1, <1>4 DEF IInv, Rest
  <1>6. QED
    BY <1>1, <1>5, RestStep

-----------------------------------------------------------------------------
(* The theorems *)

LEMMA Step ==
    ASSUME IInv, [Next]_vars
    PROVE  IInv'
  <1>1. CASE TransferNext
    BY <1>1, TransferStep DEF TransferNext
  <1>2. CASE VoteNext
    <2>1. PICK v \in Voter, b \in BP :
            \/ \E stake \in Stakes : Vote(v, b, stake)
            \/ \E stake \in RamStakes : Vote4Ram(v, b, stake)
            \/ \E to \in BP, restake \in Stakes : Revote(v, b, to, restake)
            \/ Unfreeze(v, b)
            \/ UnfreezeRam(v, b)
            \/ Claim(v, b)
      BY <1>2 DEF VoteNext
    <2>2. CASE \E stake \in Stakes : Vote(v, b, stake)
      BY <2>2, VoteStep
    <2>3. CASE \E stake \in RamStakes : Vote4Ram(v, b, stake)
      BY <2>3, Vote4RamStep
    <2>4. CASE \E to \in BP, restake \in Stakes : Revote(v, b, to, restake)
      BY <2>4, RevoteStep
    <2>5. CASE Unfreeze(v, b)
      BY <2>5, UnfreezeStep DEF Unfreeze, Tables
    <2>6. CASE UnfreezeRam(v, b)
      BY <2>6, UnfreezeStep DEF UnfreezeRam, Tables
    <2>7. CASE Claim(v, b)
      BY <2>7, ClaimStep
    <2>8. QED
      BY <2>1, <2>2, <2>3, <2>4, <2>5, <2>6, <2>7
  <1>3. CASE FixNext
    <2>1. PICK v \in Voter :
            \/ \E b \in BP, type \in FixType, stake \in FixStakes :
                  \/ VoteFixAvailable(v, b, type, stake)
                  \/ VoteFixUnstaking(v, b, type, stake)
            \/ \E k \in Key, b \in BP : RevoteFix(v, k, b)
            \/ \E k \in Key : OutFixVote(v, k)
      BY <1>3 DEF FixNext
    <2>2. CASE \E b \in BP, type \in FixType, stake \in FixStakes :
                  \/ VoteFixAvailable(v, b, type, stake)
                  \/ VoteFixUnstaking(v, b, type, stake)
      BY <2>2, VoteFixAvailableStep, VoteFixUnstakingStep
    <2>3. CASE \E k \in Key, b \in BP : RevoteFix(v, k, b)
      BY <2>3, RevoteFixStep
    <2>4. CASE \E k \in Key : OutFixVote(v, k)
      BY <2>4, OutFixVoteStep
    <2>5. QED
      BY <2>1, <2>2, <2>3, <2>4
  <1>4. CASE ChainNext
    <2>1. CASE OnBlock
      BY <2>1, OnBlockStep
    <2>2. CASE OnBlockShort
      BY <2>2, OnBlockShortStep
    <2>3. ASSUME NEW b \in Removable, RemoveBP(b) PROVE IInv'
      <3>1. Rest' /\ UNCHANGED <<block, voteVars, bps>>
        BY <2>3, ChoiceAssumption DEF RemoveBP, IInv, Rest
      <3>2. QED
        BY <3>1, RestStep
    <2>4. ASSUME NEW accounts \in FreezeTables, ActFreezed(accounts) PROVE IInv'
      <3>1. Rest' /\ UNCHANGED <<block, voteVars, bps>>
        BY <2>4, ChoiceAssumption DEF ActFreezed, IInv, Rest
      <3>2. QED
        BY <3>1, RestStep
    <2>5. ASSUME NEW v \in Voter, ActConfirmed(v) PROVE IInv'
      <3>1. Rest' /\ UNCHANGED <<block, voteVars, bps>>
        BY <2>5 DEF ActConfirmed, IInv, Rest
      <3>2. QED
        BY <3>1, RestStep
    <2>6. QED
      BY <1>4, <2>1, <2>2, <2>3, <2>4, <2>5 DEF ChainNext
  <1>5. CASE UNCHANGED vars
    <2>1. UNCHANGED <<block, voteVars, bps>> /\ Rest'
      BY <1>5 DEF vars, chainVars, voteVars, IInv, Rest
    <2>2. QED
      BY <2>1, RestStep
  <1>6. QED
    BY <1>1, <1>2, <1>3, <1>4, <1>5 DEF Next

\* The inductive invariant holds in every state of every behaviour.
THEOREM Invariance == Spec => []IInv
  <1>1. Init => IInv
    BY Initial
  <1>2. IInv /\ [Next]_vars => IInv'
    BY Step
  <1>3. QED
    BY <1>1, <1>2, PTL DEF Spec

\* The tables keep their types: no balance, stake, age or pool of
\* system_contract ever becomes negative, for any number of voters, of
\* producers and of fix-time types.
THEOREM TypeCorrect == Spec => []TypeOK
  <1>1. IInv => TypeOK
    BY InvariantImplies
  <1>2. QED
    BY <1>1, Invariance, PTL

\* What add_total_staked maintains by differences is the sum of the votes.
THEOREM StakeAccounted == Spec => []StakeAccounting
  <1>1. IInv => StakeAccounting
    BY InvariantImplies
  <1>2. QED
    BY <1>1, Invariance, PTL

\* claim can always pay what it computes: total_voteage covers all ages.
THEOREM VoteAgeAlwaysCovered == Spec => []VoteAgeCovered
  <1>1. IInv => VoteAgeCovered
    BY InvariantImplies
  <1>2. QED
    BY <1>1, Invariance, PTL

\* No get_age subtracts a later block number from an earlier one.
THEOREM NoUnderflow == Spec => []NoAgeUnderflow
  <1>1. IInv => NoAgeUnderflow
    BY InvariantImplies
  <1>2. QED
    BY <1>1, Invariance, PTL

\* vote4ramsum stays the sum of the voter's rows of votes4ram.
THEOREM RamSumCorrect == Spec => []Vote4RamSum
  <1>1. IInv => Vote4RamSum
    BY InvariantImplies
  <1>2. QED
    BY <1>1, Invariance, PTL

-----------------------------------------------------------------------------
(* The global total *)

Staked(T) == [b \in BP |-> T[b].total_staked]

LEMMA StakedIs ==
    ASSUME NEW T \in BPTable
    PROVE  /\ SumStaked(T) = SumFunctionOnSet(Staked(T), BP) /\ SumStaked(T) \in Nat
           /\ \A b \in BP : Staked(T)[b] \in Int /\ Staked(T)[b] = T[b].total_staked
  <1>1. SumStaked(T) = SumFunctionOnSet(Staked(T), BP)
    BY DEF SumStaked, SumFunction, Staked
  <1>2. \A b \in BP : Staked(T)[b] \in Nat /\ Staked(T)[b] = T[b].total_staked
    BY DEF Staked, BPTable, BPRow
  <1>3. SumFunctionOnSet(Staked(T), BP) \in Nat
    BY <1>2, FiniteIndices, SumNat
  <1>4. QED
    BY <1>1, <1>2, <1>3

LEMMA StakedSame ==
    ASSUME NEW T \in BPTable, NEW U \in BPTable,
           \A b \in BP : U[b].total_staked = T[b].total_staked
    PROVE  SumStaked(U) = SumStaked(T)
  <1>1. \A b \in BP : Staked(T)[b] \in Int /\ Staked(T)[b] = Staked(U)[b]
    BY StakedIs
  <1>2. SumFunctionOnSet(Staked(T), BP) = SumFunctionOnSet(Staked(U), BP)
    BY <1>1, FiniteIndices, SumCong
  <1>3. QED
    BY <1>2, StakedIs

LEMMA StakedMoves ==
    ASSUME NEW T \in BPTable, NEW U \in BPTable, NEW b \in BP, NEW x \in Int,
           U[b].total_staked = T[b].total_staked + x,
           \A c \in BP \ {b} : U[c].total_staked = T[c].total_staked
    PROVE  SumStaked(U) = SumStaked(T) + x
  <1>1. /\ \A c \in BP : Staked(T)[c] \in Int /\ Staked(U)[c] \in Int
        /\ \A c \in BP \ {b} : Staked(U)[c] = Staked(T)[c]
        /\ Staked(U)[b] = Staked(T)[b] + x
    BY StakedIs
  <1>2. SumFunctionOnSet(Staked(U), BP) = SumFunctionOnSet(Staked(T), BP) - Staked(T)[b] + Staked(U)[b]
    BY <1>1, FiniteIndices, SumChange
  <1>3. SumFunctionOnSet(Staked(T), BP) \in Int
    BY StakedIs
  <1>4. QED
    BY <1>1, <1>2, <1>3, StakedIs

LEMMA StakedMovesOver ==
    ASSUME NEW T \in BPTable, NEW U \in BPTable, NEW b \in BP, NEW d \in BP, b # d,
           NEW x \in Int,
           U[b].total_staked = T[b].total_staked - x, U[d].total_staked = T[d].total_staked + x,
           \A c \in BP \ {b, d} : U[c].total_staked = T[c].total_staked
    PROVE  SumStaked(U) = SumStaked(T)
  <1>1. /\ \A c \in BP : Staked(T)[c] \in Int /\ Staked(U)[c] \in Int
        /\ \A c \in BP \ {b, d} : Staked(U)[c] = Staked(T)[c]
        /\ Staked(U)[b] = Staked(T)[b] - x /\ Staked(U)[d] = Staked(T)[d] + x
    BY StakedIs
  <1>2. SumFunctionOnSet(Staked(U), BP) =
          SumFunctionOnSet(Staked(T), BP) - Staked(T)[b] + Staked(U)[b] - Staked(T)[d] + Staked(U)[d]
    BY <1>1, FiniteIndices, SumChange2
  <1>3. SumFunctionOnSet(Staked(T), BP) \in Int
    BY StakedIs
  <1>4. QED
    BY <1>1, <1>2, <1>3, StakedIs

Global == gvotestat = SumStaked(bps)

\* A call that moves a stake on one producer moves the total with it.
LEMMA GlobalMoves ==
    ASSUME IInv, IInv', Global, NEW b \in BP, NEW amount \in Int,
           bps' = [bps EXCEPT ![b] = AddTotalStaked(@, block, amount)],
           gvotestat' = OnChangeTotalStaked(bps', amount)
    PROVE  Global'
  <1>1. bps \in BPTable /\ bps' \in BPTable
    BY DEF IInv, Core, BPsOK
  <1>2. amount \div PRECISION \in Int
    BY NumberAssumption
  <1>3. /\ bps'[b].total_staked = bps[b].total_staked + (amount \div PRECISION)
        /\ \A c \in BP \ {b} : bps'[c].total_staked = bps[c].total_staked
    BY <1>1 DEF AddTotalStaked, BPTable, BPRow
  <1>4. SumStaked(bps') = SumStaked(bps) + (amount \div PRECISION)
    BY <1>1, <1>2, <1>3, StakedMoves
  <1>5. gvotestat # NoStat
    <2>1. SumStaked(bps) \in Nat
      BY <1>1, StakedIs
    <2>2. QED
      BY <2>1 DEF Global, NoStat
  <1>6. gvotestat' = SumStaked(bps')
    BY <1>4, <1>5 DEF Global, OnChangeTotalStaked, GetGlobalVotestate
  <1>7. QED
    BY <1>6 DEF Global, SumStaked

\* One that moves it from a producer to another leaves the total alone.
LEMMA GlobalMovesOver ==
    ASSUME IInv, IInv', Global, NEW b \in BP, NEW d \in BP, b # d, NEW amount \in Int,
           amount % PRECISION = 0,
           bps' = [bps EXCEPT ![b] = AddTotalStaked(@, block, -amount),
                              ![d] = AddTotalStaked(@, block, amount)],
           UNCHANGED gvotestat
    PROVE  Global'
  <1>1. bps \in BPTable /\ bps' \in BPTable
    BY DEF IInv, Core, BPsOK
  <1>2. /\ amount \div PRECISION \in Int
        /\ (-amount) \div PRECISION = -(amount \div PRECISION)
    <2>1. amount \div PRECISION \in Int
      BY NumberAssumption
    <2>2. QED
      BY <2>1, DivAdd
  <1>3. /\ bps'[b].total_staked = bps[b].total_staked + ((-amount) \div PRECISION)
        /\ bps'[d].total_staked = bps[d].total_staked + (amount \div PRECISION)
        /\ \A c \in BP \ {b, d} : bps'[c].total_staked = bps[c].total_staked
    BY <1>1 DEF AddTotalStaked, BPTable, BPRow
  <1>4. bps[b].total_staked \in Nat
    BY <1>1 DEF BPTable, BPRow
  <1>5. bps'[b].total_staked = bps[b].total_staked - (amount \div PRECISION)
    BY <1>2, <1>3, <1>4
  <1>6. SumStaked(bps') = SumStaked(bps)
    <2> DEFINE x == amount \div PRECISION
    <2>1. /\ x \in Int /\ b # d
          /\ bps'[b].total_staked = bps[b].total_staked - x
          /\ bps'[d].total_staked = bps[d].total_staked + x
          /\ \A c \in BP \ {b, d} : bps'[c].total_staked = bps[c].total_staked
      BY <1>2, <1>3, <1>5
    <2> HIDE DEF x
    <2>2. PICK T \in BPTable, U \in BPTable : T = bps /\ U = bps'
      BY <1>1
    <2>3. /\ U[b].total_staked = T[b].total_staked - x /\ U[d].total_staked = T[d].total_staked + x
          /\ \A c \in BP \ {b, d} : U[c].total_staked = T[c].total_staked
      BY <2>1, <2>2
    <2>4. SumStaked(U) = SumStaked(T)
      BY <2>1, <2>3, StakedMovesOver
    <2>5. QED
      BY <2>2, <2>4 DEF SumStaked
  <1>7. QED
    BY <1>6 DEF Global, SumStaked

LEMMA GlobalSame ==
    ASSUME IInv, IInv', Global, UNCHANGED gvotestat,
           \A b \in BP : bps'[b].total_staked = bps[b].total_staked
    PROVE  Global'
  <1>1. bps \in BPTable /\ bps' \in BPTable
    BY DEF IInv, Core, BPsOK
  <1>2. SumStaked(bps') = SumStaked(bps)
    BY <1>1, StakedSame
  <1>3. QED
    BY <1>2 DEF Global, SumStaked

LEMMA GlobalByTyp ==
    ASSUME IInv, IInv', Global, NEW t \in Tables, NEW v \in Voter, NEW b \in BP, NEW stake \in Int,
           VoteByTyp(t, v, b, stake)
    PROVE  Global'
  <1> DEFINE change == stake - votes[<<t, v, b>>].staked
  <1>1. change \in Int
    BY DEF IInv, Core, VotesOK, VoteTable, VoteRow
  <1>2. CASE change = 0
    BY <1>2, GlobalSame DEF VoteByTyp
  <1>3. CASE change # 0
    <2>1. /\ bps' = [bps EXCEPT ![b] = AddTotalStaked(@, block, change)]
          /\ gvotestat' = OnChangeTotalStaked(bps', change)
      BY <1>3 DEF VoteByTyp
    <2> HIDE DEF change
    <2>2. QED
      BY <1>1, <2>1, GlobalMoves
  <1>4. QED
    BY <1>2, <1>3

LEMMA GlobalVoteNext ==
    ASSUME IInv, IInv', Global, VoteNext
    PROVE  Global'
  <1>1. PICK v \in Voter, b \in BP :
            \/ \E stake \in Stakes : Vote(v, b, stake)
            \/ \E stake \in RamStakes : Vote4Ram(v, b, stake)
            \/ \E to \in BP, restake \in Stakes : Revote(v, b, to, restake)
            \/ Unfreeze(v, b)
            \/ UnfreezeRam(v, b)
            \/ Claim(v, b)
    BY DEF VoteNext
  <1>2. CASE (\E stake \in Stakes : Vote(v, b, stake)) \/ (\E stake \in RamStakes : Vote4Ram(v, b, stake))
    <2>1. PICK t \in Tables, stake \in Int : VoteByTyp(t, v, b, stake)
      BY <1>2, AmountAssumption DEF Vote, Vote4Ram, Tables
    <2>2. QED
      BY <2>1, GlobalByTyp
  <1>3. ASSUME NEW to \in BP, NEW restake \in Stakes, Revote(v, b, to, restake)
        PROVE  Global'
    <2>1. /\ b # to /\ restake \in Int /\ restake % PRECISION = 0 /\ UNCHANGED gvotestat
          /\ bps' = [bps EXCEPT ![b] = AddTotalStaked(@, block, -restake),
                                ![to] = AddTotalStaked(@, block, restake)]
      BY <1>3, AmountAssumption DEF Revote
    <2>2. QED
      BY <2>1, GlobalMovesOver
  <1>4. CASE Unfreeze(v, b) \/ UnfreezeRam(v, b)
    BY <1>4, GlobalSame DEF Unfreeze, UnfreezeRam, UnfreezeByTyp
  <1>5. CASE Claim(v, b)
    <2>1. bps \in BPTable /\ UNCHANGED gvotestat
      BY <1>5 DEF Claim, IInv, Core, BPsOK
    <2>2. \A c \in BP : bps'[c].total_staked = bps[c].total_staked
      BY <1>5, <2>1 DEF Claim, BPTable, BPRow
    <2>3. QED
      BY <2>1, <2>2, GlobalSame
  <1>6. QED
    BY <1>1, <1>2, <1>3, <1>4, <1>5

LEMMA GlobalFixNext ==
    ASSUME IInv, IInv', Global, FixNext
    PROVE  Global'
  <1>1. PICK v \in Voter :
            \/ \E b \in BP, type \in FixType, stake \in FixStakes :
                  VoteFixAvailable(v, b, type, stake) \/ VoteFixUnstaking(v, b, type, stake)
            \/ \E k \in Key, b \in BP : RevoteFix(v, k, b)
            \/ \E k \in Key : OutFixVote(v, k)
    BY DEF FixNext
  <1>2. ASSUME NEW b \in BP, NEW type \in FixType, NEW stake \in FixStakes,
               AddFixVote(v, b, type, stake)
        PROVE  Global'
    <2> DEFINE power == stake * FixPower[type]
    <2>1. power \in Int
      <3>1. stake \in Int /\ FixPower[type] \in Int
        BY AmountAssumption, FixAssumption
      <3>2. QED
        BY <3>1
    <2>2. /\ bps' = [bps EXCEPT ![b] = AddTotalStaked(@, block, power)]
          /\ gvotestat' = OnChangeTotalStaked(bps', power)
      BY <1>2 DEF AddFixVote
    <2> HIDE DEF power
    <2>3. QED
      BY <2>1, <2>2, GlobalMoves
  <1>3. ASSUME NEW k \in Key, NEW d \in BP, RevoteFix(v, k, d)
        PROVE  Global'
    <2> DEFINE f == fixvotes[<<v, k>>]
    <2>1. /\ Exists(f) /\ f.bpname # d /\ UNCHANGED gvotestat
          /\ bps' = [bps EXCEPT ![f.bpname] = AddTotalStaked(@, block, -f.staked),
                                ![d] = AddTotalStaked(@, block, f.staked)]
      BY <1>3 DEF RevoteFix
    <2>2. f.bpname \in BP /\ f.staked \in Int /\ f.staked % PRECISION = 0
      BY <2>1, FixRowFacts DEF FixOK
    <2> HIDE DEF f
    <2>3. QED
      BY <2>1, <2>2, GlobalMovesOver
  <1>4. ASSUME NEW k \in Key, OutFixVote(v, k)
        PROVE  Global'
    <2> DEFINE f == fixvotes[<<v, k>>]
    <2>1. /\ Exists(f)
          /\ bps' = [bps EXCEPT ![f.bpname] = AddTotalStaked(@, block, -f.staked)]
          /\ gvotestat' = OnChangeTotalStaked(bps', -f.staked)
      BY <1>4 DEF OutFixVote
    <2>2. f.bpname \in BP /\ -f.staked \in Int
      BY <2>1, FixRowFacts
    <2> HIDE DEF f
    <2>3. QED
      BY <2>1, <2>2, GlobalMoves
  <1>5. QED
    BY <1>1, <1>2, <1>3, <1>4 DEF VoteFixAvailable, VoteFixUnstaking

LEMMA GlobalChainNext ==
    ASSUME IInv, IInv', Global, ChainNext
    PROVE  Global'
  <1>1. CASE OnBlock
    <2>1. PICK reward \in [BP -> PoolRewards] :
             /\ gvotestat' = GetGlobalVotestate(bps)
             /\ bps' = [b \in BP |-> [bps[b] EXCEPT !.rewards_pool = @ + reward[b]]]
      BY <1>1 DEF OnBlock
    <2>2. bps \in BPTable
      BY DEF IInv, Core, BPsOK
    <2>3. \A c \in BP : bps'[c].total_staked = bps[c].total_staked
      BY <2>1, <2>2 DEF BPTable, BPRow
    <2>4. UNCHANGED gvotestat
      BY <2>1 DEF GetGlobalVotestate, Global
    <2>5. QED
      BY <2>3, <2>4, GlobalSame
  <1>2. CASE UNCHANGED <<bps, gvotestat>>
    BY <1>2, GlobalSame
  <1>3. QED
    BY <1>1, <1>2 DEF ChainNext, OnBlockShort, RemoveBP, ActFreezed, ActConfirmed

\* The cached global total is always the sum over all producers, once it has
\* its row: the first stake put before that counts twice in it.
THEOREM GlobalStakeAlwaysSum ==
    ASSUME VoteStatExists
    PROVE  Spec => []GlobalStakeIsSum
  <1>1. Init => IInv /\ Global
    <2> SUFFICES ASSUME Init PROVE IInv /\ Global
      OBVIOUS
    <2>1. IInv /\ bps \in BPTable
      BY Initial DEF IInv, Core, BPsOK
    <2>2. \A b \in BP : Staked(bps)[b] = 0
      BY DEF Init, ZeroBP, Staked
    <2>3. SumStaked(bps) = 0
      BY <2>1, <2>2, StakedIs, FiniteIndices, SumZero
    <2>4. gvotestat = 0
      BY DEF Init
    <2>5. QED
      BY <2>1, <2>3, <2>4 DEF Global
  <1>2. IInv /\ Global /\ [Next]_vars => IInv' /\ Global'
    <2> SUFFICES ASSUME IInv, Global, [Next]_vars PROVE IInv' /\ Global'
      OBVIOUS
    <2>1. IInv'
      BY Step
    <2>2. CASE TransferNext
      BY <2>1, <2>2, GlobalSame DEF TransferNext, Transfer
    <2>3. CASE UNCHANGED vars
      BY <2>1, <2>3, GlobalSame DEF vars
    <2>4. QED
      BY <2>1, <2>2, <2>3, GlobalVoteNext, GlobalFixNext, GlobalChainNext DEF Next
  <1>3. Global => GlobalStakeIsSum
    BY DEF Global, GlobalStakeIsSum
  <1>4. QED
    BY <1>1, <1>2, <1>3, PTL DEF Spec

-----------------------------------------------------------------------------
(* Frozen accounts *)

\* Nobody is frozen before a table is activated.
Thawed == ~gfstate => freezed = {}

LEMMA FrozenIs ==
    ASSUME Thawed, NEW v \in freezed
    PROVE  IsFreezed(v)
  <1>1. gfstate
    BY DEF Thawed
  <1>2. QED
    BY <1>1 DEF IsFreezed

Inert(v) ==
    /\ available'[v] >= available[v]
    /\ \A t \in Tables, b \in BP : votes'[<<t, v, b>>].staked = votes[<<t, v, b>>].staked
    /\ \A k \in Key : Exists(fixvotes'[<<v, k>>]) =>
          /\ fixvotes'[<<v, k>>].bpname = fixvotes[<<v, k>>].bpname
          /\ fixvotes'[<<v, k>>].staked = fixvotes[<<v, k>>].staked

\* A call that changes rows of another voter, if any.
LEMMA InertOther ==
    ASSUME IInv, NEW v \in Voter, NEW w \in Voter, v # w,
           available'[v] = available[v],
           \A t \in Tables, b \in BP : votes'[<<t, v, b>>] = votes[<<t, v, b>>],
           \A k \in Key : fixvotes'[<<v, k>>] = fixvotes[<<v, k>>]
    PROVE  Inert(v)
  <1>1. available[v] \in Nat
    BY DEF IInv, Rest
  <1>2. QED
    BY <1>1 DEF Inert

\* The ages a claim adds up never exceed the voteage of the producer.
LEMMA ClaimAgeCovered ==
    ASSUME IInv, NEW v \in Voter, NEW b \in BP
    PROVE  /\ ClaimAge(v, b) \in Nat /\ BPGetAge(bps[b], block) \in Nat
           /\ ClaimAge(v, b) <= BPGetAge(bps[b], block)
           /\ bps[b].rewards_pool \in Nat
  <1> DEFINE vage == GetAge(votes[<<"votes", v, b>>], block)
             fage == FixAgesOf(fixvotes, v, b, block)
             total == BPGetAge(bps[b], block)
  <1>1. /\ block \in Nat /\ VotesOK(votes, block) /\ FixesOK(fixvotes, block)
        /\ BPsOK(bps, block) /\ bps \in BPTable /\ Accounted(votes, fixvotes, bps, block, b)
    BY DEF IInv, Core, BPsOK, Accounts
  <1>2. bps[b].rewards_pool \in Nat /\ total \in Nat
    BY <1>1, BPAge DEF BPsOK, BPTable, BPRow
  <1>3. ClaimAge(v, b) = vage + fage
    BY DEF ClaimAge, FixAgesOf
  <1>4. vage \in Nat /\ vage <= VoteAgeSum(votes, b, block) /\ VoteAgeSum(votes, b, block) \in Nat
    BY <1>1, ClaimVotes
  <1>5. /\ fage \in Nat /\ fage <= FixAgeSum(fixvotes, b, block)
        /\ FixAgeSum(fixvotes, b, block) \in Nat
    BY <1>1, ClaimFixes
  <1>6. VoteAgeSum(votes, b, block) + FixAgeSum(fixvotes, b, block) <= total
    BY <1>1 DEF Accounted
  <1> HIDE DEF vage, fage, total
  <1>7. vage + fage \in Nat /\ vage + fage <= total
    BY <1>2, <1>4, <1>5, <1>6
  <1>8. QED
    BY <1>2, <1>3, <1>7 DEF total

LEMMA RewardNat ==
    ASSUME IInv, NEW v \in Voter, NEW b \in BP, Claim(v, b)
    PROVE  ClaimReward(v, b) \in Nat
  <1> DEFINE total == BPGetAge(bps[b], block)
             x == bps[b].rewards_pool * ClaimAge(v, b)
  <1>1. 0 < total /\ total \in Nat /\ 0 <= ClaimReward(v, b)
    BY ClaimAgeCovered DEF Claim
  <1>2. x \in Int
    <2>1. bps[b].rewards_pool \in Nat /\ ClaimAge(v, b) \in Nat
      BY ClaimAgeCovered
    <2>2. QED
      BY <2>1
  <1>3. ClaimReward(v, b) = x \div total
    BY DEF ClaimReward
  <1> HIDE DEF x, total
  <1>4. x \div total \in Int
    BY <1>1, <1>2
  <1>5. QED
    BY <1>1, <1>3, <1>4

LEMMA InertVoteNext ==
    ASSUME IInv, IInv', Thawed, NEW v \in freezed, VoteNext
    PROVE  Inert(v)
  <1>1. v \in Voter /\ IsFreezed(v)
    BY FrozenIs DEF IInv, Rest
  <1>2. /\ votes \in VoteTable /\ available \in [Voter -> Nat] /\ available' \in [Voter -> Nat]
        /\ fixvotes \in FixTable
    BY DEF IInv, Core, VotesOK, FixesOK, Rest
  <1>3. PICK w \in Voter, b \in BP :
            \/ \E stake \in Stakes : Vote(w, b, stake)
            \/ \E stake \in RamStakes : Vote4Ram(w, b, stake)
            \/ \E to \in BP, restake \in Stakes : Revote(w, b, to, restake)
            \/ Unfreeze(w, b)
            \/ UnfreezeRam(w, b)
            \/ Claim(w, b)
    BY DEF VoteNext
  <1>4. ASSUME NEW t \in Tables, NEW stake, VoteByTyp(t, w, b, stake)
        PROVE  Inert(v)
    <2> DEFINE change == stake - votes[<<t, w, b>>].staked
    <2>1. v # w
      BY <1>1, <1>4 DEF VoteByTyp
    <2>2. available'[v] = available[v]
      <3>1. available' = available \/ available' = [available EXCEPT ![w] = @ - change]
        BY <1>4 DEF VoteByTyp
      <3> HIDE DEF change
      <3>2. QED
        BY <1>1, <1>2, <2>1, <3>1
    <2>3. PICK row : votes' = [votes EXCEPT ![<<t, w, b>>] = row]
      BY <1>4 DEF VoteByTyp
    <2>4. \A u \in Tables, c \in BP : votes'[<<u, v, c>>] = votes[<<u, v, c>>]
      BY <1>1, <1>2, <2>1, <2>3 DEF VoteTable
    <2>5. fixvotes' = fixvotes
      BY <1>4 DEF VoteByTyp
    <2>6. QED
      BY <1>1, <2>1, <2>2, <2>4, <2>5, InertOther
  <1>5. ASSUME NEW to \in BP, NEW restake, Revote(w, b, to, restake)
        PROVE  Inert(v)
    <2>1. v # w /\ UNCHANGED <<available, fixvotes>>
      BY <1>1, <1>5 DEF Revote
    <2>2. PICK r1, r2 : votes' = [votes EXCEPT ![<<"votes", w, b>>] = r1, ![<<"votes", w, to>>] = r2]
      BY <1>5 DEF Revote
    <2>3. \A u \in Tables, c \in BP : votes'[<<u, v, c>>] = votes[<<u, v, c>>]
      BY <1>1, <1>2, <2>1, <2>2 DEF VoteTable
    <2>4. QED
      BY <1>1, <2>1, <2>3, InertOther
  <1>6. ASSUME NEW t \in Tables, UnfreezeByTyp(t, w, b)
        PROVE  Inert(v)
    <2>1. /\ votes' = [votes EXCEPT ![<<t, w, b>>].unstaking = 0]
          /\ available' = [available EXCEPT ![w] = @ + votes[<<t, w, b>>].unstaking]
          /\ UNCHANGED fixvotes
      BY <1>6 DEF UnfreezeByTyp
    <2>2. votes[<<t, w, b>>].unstaking \in Nat
      BY <1>2 DEF VoteTable, VoteRow
    <2>3. available'[v] >= available[v]
      BY <1>1, <1>2, <2>1, <2>2
    <2>4. \A u \in Tables, c \in BP : votes'[<<u, v, c>>].staked = votes[<<u, v, c>>].staked
      BY <1>1, <1>2, <2>1 DEF VoteTable, VoteRow
    <2>5. QED
      BY <2>1, <2>3, <2>4 DEF Inert
  <1>7. CASE Claim(w, b)
    <2> DEFINE reward == ClaimReward(w, b)
    <2>1. /\ votes' = [votes EXCEPT ![<<"votes", w, b>>] = CleanAge(@, block)]
          /\ available' = [available EXCEPT ![w] = @ + reward]
          /\ fixvotes' = [i \in Voter \X Key |->
               IF i[1] # w \/ fixvotes[i].bpname # b THEN fixvotes[i]
               ELSE IF fixvotes[i].is_withdraw THEN NoFix
               ELSE FixCleanAge(fixvotes[i], block)]
          /\ 0 <= reward /\ reward <= bps[b].rewards_pool
      BY <1>7 DEF Claim
    <2> HIDE DEF reward
    <2>2. available'[v] >= available[v]
      <3>1. available'[v] = available[v] \/ available'[v] = available[v] + reward
        BY <1>1, <1>2, <2>1
      <3>2. CASE available'[v] = available[v] + reward
        <4>1. available[v] \in Nat /\ reward \in Nat
          BY <1>1, <1>2, <1>7, RewardNat DEF reward
        <4>2. QED
          BY <3>2, <4>1
      <3>3. QED
        BY <1>1, <1>2, <3>1, <3>2
    <2>3. \A u \in Tables, c \in BP : votes'[<<u, v, c>>].staked = votes[<<u, v, c>>].staked
      BY <1>1, <1>2, <2>1 DEF VoteTable, VoteRow, CleanAge
    <2>4. ASSUME NEW k \in Key, Exists(fixvotes'[<<v, k>>])
          PROVE  /\ fixvotes'[<<v, k>>].bpname = fixvotes[<<v, k>>].bpname
                 /\ fixvotes'[<<v, k>>].staked = fixvotes[<<v, k>>].staked
      <3>1. <<v, k>> \in Voter \X Key
        BY <1>1
      <3>2. fixvotes[<<v, k>>] \in FixRow
        BY <1>2, <3>1 DEF FixTable
      <3>3. \/ fixvotes'[<<v, k>>] \in {fixvotes[<<v, k>>], NoFix}
            \/ fixvotes'[<<v, k>>] = FixCleanAge(fixvotes[<<v, k>>], block)
        BY <2>1, <3>1
      <3>4. fixvotes'[<<v, k>>] # NoFix
        BY <2>4 DEF Exists, NoFix
      <3>5. /\ FixCleanAge(fixvotes[<<v, k>>], block).bpname = fixvotes[<<v, k>>].bpname
            /\ FixCleanAge(fixvotes[<<v, k>>], block).staked = fixvotes[<<v, k>>].staked
        BY <3>2 DEF FixCleanAge, CleanAge, FixRow
      <3>6. QED
        BY <3>3, <3>4, <3>5
    <2>5. QED
      BY <2>2, <2>3, <2>4 DEF Inert
  <1>8. QED
    BY <1>3, <1>4, <1>5, <1>6, <1>7 DEF Vote, Vote4Ram, Unfreeze, UnfreezeRam, Tables

LEMMA InertFixNext ==
    ASSUME IInv, IInv', Thawed, NEW v \in freezed, FixNext
    PROVE  Inert(v)
  <1>1. v \in Voter /\ IsFreezed(v)
    BY FrozenIs DEF IInv, Rest
  <1>2. votes \in VoteTable /\ available \in [Voter -> Nat] /\ fixvotes \in FixTable
    BY DEF IInv, Core, VotesOK, FixesOK, Rest
  <1>3. PICK w \in Voter :
            \/ \E b \in BP, type \in FixType, stake \in FixStakes :
                  VoteFixAvailable(w, b, type, stake) \/ VoteFixUnstaking(w, b, type, stake)
            \/ \E k \in Key, b \in BP : RevoteFix(w, k, b)
            \/ \E k \in Key : OutFixVote(w, k)
    BY DEF FixNext
  <1>4. ASSUME NEW key \in Key, NEW row, v # w,
               fixvotes' = [fixvotes EXCEPT ![<<w, key>>] = row],
               available' = available \/ \E x : available' = [available EXCEPT ![w] = x],
               votes' = votes \/ \E b \in BP : \E x : votes' = [votes EXCEPT ![<<"votes", w, b>>] = x]
        PROVE  Inert(v)
    <2>1. \A k \in Key : fixvotes'[<<v, k>>] = fixvotes[<<v, k>>]
      BY <1>1, <1>2, <1>4 DEF FixTable
    <2>2. available'[v] = available[v]
      BY <1>1, <1>2, <1>4
    <2>3. \A u \in Tables, c \in BP : votes'[<<u, v, c>>] = votes[<<u, v, c>>]
      BY <1>1, <1>2, <1>4 DEF VoteTable
    <2>4. QED
      BY <1>1, <1>4, <2>1, <2>2, <2>3, InertOther
  <1>5. ASSUME NEW b \in BP, NEW type \in FixType, NEW stake \in FixStakes,
               VoteFixAvailable(w, b, type, stake) \/ VoteFixUnstaking(w, b, type, stake)
        PROVE  Inert(v)
    <2>1. AddFixVote(w, b, type, stake)
      BY <1>5 DEF VoteFixAvailable, VoteFixUnstaking
    <2>2. v # w /\ AvailableKey(w) \in Key
      BY <1>1, <2>1 DEF AddFixVote
    <2>3. PICK row : fixvotes' = [fixvotes EXCEPT ![<<w, AvailableKey(w)>>] = row]
      BY <2>1 DEF AddFixVote
    <2>4. available' = available \/ \E x : available' = [available EXCEPT ![w] = x]
      BY <1>5 DEF VoteFixAvailable, VoteFixUnstaking
    <2>5. votes' = votes \/ \E c \in BP : \E x : votes' = [votes EXCEPT ![<<"votes", w, c>>] = x]
      <3>1. CASE VoteFixAvailable(w, b, type, stake)
        BY <3>1 DEF VoteFixAvailable
      <3>2. CASE VoteFixUnstaking(w, b, type, stake)
        <4>1. votes' = [votes EXCEPT ![<<"votes", w, b>>] =
                          [votes[<<"votes", w, b>>] EXCEPT !.unstaking = @ - stake]]
          BY <3>2 DEF VoteFixUnstaking
        <4>2. QED
          BY <4>1
      <3>3. QED
        BY <1>5, <3>1, <3>2
    <2>6. PICK key \in Key : fixvotes' = [fixvotes EXCEPT ![<<w, key>>] = row]
      BY <2>2, <2>3
    <2>7. QED
      BY <1>4, <2>2, <2>4, <2>5, <2>6
  <1>6. ASSUME NEW k \in Key, NEW b \in BP, RevoteFix(w, k, b)
        PROVE  Inert(v)
    <2>1. v # w /\ UNCHANGED <<available, votes>>
      BY <1>1, <1>6 DEF RevoteFix
    <2>2. PICK row : fixvotes' = [fixvotes EXCEPT ![<<w, k>>] = row]
      BY <1>6 DEF RevoteFix
    <2>3. QED
      BY <1>4, <2>1, <2>2
  <1>7. ASSUME NEW k \in Key, OutFixVote(w, k)
        PROVE  Inert(v)
    <2> DEFINE f == fixvotes[<<w, k>>]
    <2>1. /\ votes' = [votes EXCEPT ![<<"votes", w, f.bpname>>] = AddUnstaking(@, block, f.vote)]
          /\ fixvotes' = [fixvotes EXCEPT ![<<w, k>>].vote = 0, ![<<w, k>>].is_withdraw = TRUE]
          /\ available' = available
      BY <1>7 DEF OutFixVote
    <2>2. available'[v] >= available[v]
      BY <1>1, <1>2, <2>1
    <2>3. \A u \in Tables, c \in BP : votes'[<<u, v, c>>].staked = votes[<<u, v, c>>].staked
      BY <1>1, <1>2, <2>1 DEF VoteTable, VoteRow, AddUnstaking
    <2>4. \A j \in Key : /\ fixvotes'[<<v, j>>].bpname = fixvotes[<<v, j>>].bpname
                         /\ fixvotes'[<<v, j>>].staked = fixvotes[<<v, j>>].staked
      BY <1>1, <1>2, <2>1 DEF FixTable, FixRow
    <2>5. QED
      BY <2>2, <2>3, <2>4 DEF Inert
  <1>8. QED
    BY <1>3, <1>5, <1>6, <1>7

\* No call of a voter moves the chain.
LEMMA ChainKept == VoteNext \/ FixNext => UNCHANGED chainVars
  <1>1. \A t, v, b, stake : VoteByTyp(t, v, b, stake) => UNCHANGED chainVars
    BY DEF VoteByTyp
  <1>2. \A v, b, to, restake : Revote(v, b, to, restake) => UNCHANGED chainVars
    BY DEF Revote
  <1>3. \A t, v, b : UnfreezeByTyp(t, v, b) => UNCHANGED chainVars
    BY DEF UnfreezeByTyp
  <1>4. \A v, b : Claim(v, b) => UNCHANGED chainVars
    BY DEF Claim
  <1>5. VoteNext => UNCHANGED chainVars
    BY <1>1, <1>2, <1>3, <1>4 DEF VoteNext, Vote, Vote4Ram, Unfreeze, UnfreezeRam
  <1>6. \A v, b, type, stake : AddFixVote(v, b, type, stake) => UNCHANGED chainVars
    BY DEF AddFixVote
  <1>7. \A v, k, b : RevoteFix(v, k, b) => UNCHANGED chainVars
    BY DEF RevoteFix
  <1>8. \A v, k : OutFixVote(v, k) => UNCHANGED chainVars
    BY DEF OutFixVote
  <1>9. FixNext => UNCHANGED chainVars
    BY <1>6, <1>7, <1>8 DEF FixNext, VoteFixAvailable, VoteFixUnstaking
  <1>10. QED
    BY <1>5, <1>9

\* While an account is frozen, whoever calls what, its balance does not fall,
\* its votes stay where they are and it casts no new one.
THEOREM FrozenAlwaysInert == Spec => FrozenIsInert
  <1> DEFINE Good == \A v \in freezed : Inert(v)
  <1>1. Init => IInv /\ Thawed
    BY Initial DEF Init, Thawed
  <1>2. IInv /\ Thawed /\ [Next]_vars => IInv' /\ Thawed'
    <2> SUFFICES ASSUME IInv, Thawed, [Next]_vars PROVE IInv' /\ Thawed'
      OBVIOUS
    <2>1. CASE UNCHANGED <<gfstate, freezed>>
      BY <2>1, Step DEF Thawed
    <2>2. TransferNext => UNCHANGED <<gfstate, freezed>>
      BY DEF TransferNext, Transfer, chainVars
    <2>3. VoteNext \/ FixNext => UNCHANGED <<gfstate, freezed>>
      BY ChainKept DEF chainVars
    <2>5. ChainNext => UNCHANGED <<gfstate, freezed>> \/ gfstate'
      BY DEF ChainNext, OnBlock, OnBlockShort, RemoveBP, ActFreezed, ActConfirmed
    <2>6. UNCHANGED vars => UNCHANGED <<gfstate, freezed>>
      BY DEF vars, chainVars
    <2>7. UNCHANGED <<gfstate, freezed>> \/ gfstate'
      BY <2>2, <2>3, <2>5, <2>6 DEF Next
    <2>8. QED
      BY <2>1, <2>7, Step DEF Thawed
  <1>3. IInv /\ Thawed /\ [Next]_vars => [Good]_vars
    <2> SUFFICES ASSUME IInv, Thawed, Next, NEW v \in freezed PROVE Inert(v)
      OBVIOUS
    <2>1. IInv' /\ v \in Voter /\ IsFreezed(v)
      BY Step, FrozenIs DEF IInv, Rest
    <2>2. CASE TransferNext
      <3>1. PICK from \in Voter, to \in Voter, q \in Quantities : Transfer(from, to, q)
        BY <2>2 DEF TransferNext
      <3>2. /\ from # v /\ q \in Int /\ 0 <= q /\ available \in [Voter -> Nat]
            /\ available' = [[available EXCEPT ![from] = @ - q] EXCEPT ![to] = @ + q]
            /\ UNCHANGED <<votes, fixvotes>>
        BY <2>1, <3>1, AmountAssumption DEF Transfer, voteVars, IInv, Rest
      <3>3. available'[v] >= available[v]
        BY <2>1, <3>2
      <3>4. QED
        BY <3>2, <3>3 DEF Inert
    <2>3. CASE ChainNext
      <3>1. UNCHANGED <<available, votes, fixvotes>>
        BY <2>3 DEF ChainNext, OnBlock, OnBlockShort, RemoveBP, ActFreezed, ActConfirmed, voteVars
      <3>2. available[v] \in Nat
        BY <2>1 DEF IInv, Rest
      <3>3. QED
        BY <3>1, <3>2 DEF Inert
    <2>4. QED
      BY <2>1, <2>2, <2>3, InertVoteNext, InertFixNext DEF Next
  <1>4. QED
    BY <1>1, <1>2, <1>3, PTL DEF Spec, FrozenIsInert, Inert
-----------------------------------------------------------------------------
(* Fix-time votes *)

KeepsVote(f, g) ==
    /\ g.vote = f.vote
    /\ g.staked = f.staked
    /\ g.withdraw = f.withdraw
    /\ ~g.is_withdraw

LEMMA KeptByVoteNext ==
    ASSUME IInv, NEW i \in Voter \X Key, ~fixvotes[i].is_withdraw, VoteNext
    PROVE  KeepsVote(fixvotes[i], fixvotes'[i])
  <1>1. fixvotes[i] \in FixRow
    BY DEF IInv, Core, FixesOK, FixTable
  <1>2. PICK v \in Voter, b \in BP :
            \/ \E stake \in Stakes : Vote(v, b, stake)
            \/ \E stake \in RamStakes : Vote4Ram(v, b, stake)
            \/ \E to \in BP, restake \in Stakes : Revote(v, b, to, restake)
            \/ Unfreeze(v, b)
            \/ UnfreezeRam(v, b)
            \/ Claim(v, b)
    BY DEF VoteNext
  <1>3. CASE Claim(v, b)
    <2>1. fixvotes'[i] = fixvotes[i] \/ fixvotes'[i] = FixCleanAge(fixvotes[i], block)
      BY <1>3 DEF Claim
    <2>2. KeepsVote(fixvotes[i], FixCleanAge(fixvotes[i], block))
      BY <1>1 DEF KeepsVote, FixCleanAge, CleanAge, FixRow
    <2>3. QED
      BY <2>1, <2>2 DEF KeepsVote
  <1>4. CASE UNCHANGED fixvotes
    BY <1>4 DEF KeepsVote
  <1>5. UNCHANGED fixvotes \/ Claim(v, b)
    <2>1. \A t, stake : VoteByTyp(t, v, b, stake) => UNCHANGED fixvotes
      BY DEF VoteByTyp
    <2>2. \A to, restake : Revote(v, b, to, restake) => UNCHANGED fixvotes
      BY DEF Revote
    <2>3. \A t : UnfreezeByTyp(t, v, b) => UNCHANGED fixvotes
      BY DEF UnfreezeByTyp
    <2>4. QED
      BY <1>2, <2>1, <2>2, <2>3 DEF Vote, Vote4Ram, Unfreeze, UnfreezeRam
  <1>6. QED
    BY <1>3, <1>4, <1>5

LEMMA KeptByFixNext ==
    ASSUME IInv, NEW i \in Voter \X Key, Exists(fixvotes[i]), block < fixvotes[i].withdraw,
           ~fixvotes[i].is_withdraw, FixNext
    PROVE  KeepsVote(fixvotes[i], fixvotes'[i])
  <1>1. fixvotes \in FixTable /\ fixvotes[i] \in FixRow /\ block \in Nat
    BY DEF IInv, Core, FixesOK, FixTable
  <1>2. PICK v \in Voter :
            \/ \E b \in BP, type \in FixType, stake \in FixStakes :
                  VoteFixAvailable(v, b, type, stake) \/ VoteFixUnstaking(v, b, type, stake)
            \/ \E k \in Key, b \in BP : RevoteFix(v, k, b)
            \/ \E k \in Key : OutFixVote(v, k)
    BY DEF FixNext
  <1>3. CASE fixvotes'[i] = fixvotes[i]
    BY <1>3 DEF KeepsVote
  <1>4. ASSUME NEW b \in BP, NEW type \in FixType, NEW stake \in FixStakes,
               AddFixVote(v, b, type, stake)
        PROVE  fixvotes'[i] = fixvotes[i]
    <2>1. PICK key \in Key : /\ key = AvailableKey(v)
                             /\ \E row : fixvotes' = [fixvotes EXCEPT ![<<v, key>>] = row]
      BY <1>4 DEF AddFixVote
    <2>2. i # <<v, key>>
      BY <2>1, AvailableKeyIsFree
    <2>3. PICK row : fixvotes' = [fixvotes EXCEPT ![<<v, key>>] = row]
      BY <2>1
    <2>4. QED
      BY <1>1, <2>2, <2>3 DEF FixTable
  <1>5. ASSUME NEW k \in Key, NEW b \in BP, RevoteFix(v, k, b)
        PROVE  KeepsVote(fixvotes[i], fixvotes'[i])
    <2> DEFINE new == [FixCleanAge(fixvotes[<<v, k>>], block) EXCEPT !.bpname = b]
    <2>1. fixvotes' = [fixvotes EXCEPT ![<<v, k>>] = new]
      BY <1>5 DEF RevoteFix
    <2>2. CASE i = <<v, k>>
      <3>1. fixvotes'[i] = [FixCleanAge(fixvotes[i], block) EXCEPT !.bpname = b]
        BY <1>1, <2>1, <2>2 DEF FixTable
      <3>2. KeepsVote(fixvotes[i], [FixCleanAge(fixvotes[i], block) EXCEPT !.bpname = b])
        BY <1>1 DEF KeepsVote, FixCleanAge, CleanAge, FixRow
      <3>3. QED
        BY <3>1, <3>2
    <2> HIDE DEF new
    <2>3. CASE i # <<v, k>>
      BY <1>1, <1>3, <2>1, <2>3 DEF FixTable
    <2>4. QED
      BY <2>2, <2>3
  <1>6. ASSUME NEW k \in Key, OutFixVote(v, k)
        PROVE  fixvotes'[i] = fixvotes[i]
    <2>1. fixvotes' = [fixvotes EXCEPT ![<<v, k>>].vote = 0, ![<<v, k>>].is_withdraw = TRUE]
          /\ fixvotes[<<v, k>>].withdraw <= block
      BY <1>6 DEF OutFixVote, Ended
    <2>2. i # <<v, k>>
      BY <1>1, <2>1 DEF FixRow
    <2>3. QED
      BY <1>1, <2>1, <2>2 DEF FixTable
  <1>7. QED
    BY <1>2, <1>3, <1>4, <1>5, <1>6 DEF VoteFixAvailable, VoteFixUnstaking

\* A fix-time vote is not touched before its end: its stake, its weight and
\* its end stay, and its key goes to no other vote.
THEOREM FixVotesLocked == Spec => FixVoteLocked
  <1> DEFINE Good == \A i \in Voter \X Key :
                        Exists(fixvotes[i]) /\ block < fixvotes[i].withdraw =>
                           KeepsVote(fixvotes[i], fixvotes'[i])
  <1>1. IInv /\ [Next]_vars => [Good]_vars
    <2> SUFFICES ASSUME IInv, Next, NEW i \in Voter \X Key,
                        Exists(fixvotes[i]), block < fixvotes[i].withdraw
                 PROVE  KeepsVote(fixvotes[i], fixvotes'[i])
      OBVIOUS
    <2>1. /\ ~fixvotes[i].is_withdraw /\ fixvotes[i] \in FixRow
      <3>1. fixvotes[i] \in FixRow /\ FixOK(fixvotes[i], block) /\ block \in Nat
        BY DEF IInv, Core, FixesOK, FixTable
      <3>2. QED
        BY <3>1 DEF FixOK, FixRow
    <2>2. CASE TransferNext \/ ChainNext
      <3>1. UNCHANGED fixvotes
        BY <2>2 DEF TransferNext, Transfer, ChainNext, OnBlock, OnBlockShort, RemoveBP, ActFreezed,
                    ActConfirmed, voteVars
      <3>2. QED
        BY <2>1, <3>1 DEF KeepsVote
    <2>3. QED
      BY <2>1, <2>2, KeptByVoteNext, KeptByFixNext DEF Next
  <1>2. QED
    BY <1>1, Invariance, PTL DEF Spec, FixVoteLocked, KeepsVote

-----------------------------------------------------------------------------
(* Claims of different voters *)

\* The ages of the fix-time votes of another voter stay.
LEMMA OtherAgesStay ==
    ASSUME IInv, NEW v \in Voter, NEW w \in Voter, v # w, NEW b \in BP, Claim(v, b)
    PROVE  ClaimAge(w, b)' = ClaimAge(w, b)
  <1>1. /\ votes \in VoteTable /\ block \in Nat
        /\ \A i \in Voter \X Key : fixvotes[i] \in FixRow
    BY DEF IInv, Core, VotesOK, FixesOK, FixTable
  <1>2. votes'[<<"votes", w, b>>] = votes[<<"votes", w, b>>] /\ block' = block
    BY <1>1 DEF Claim, VoteTable, chainVars
  <1>3. \A i \in Voter \X Key : i[1] = w => fixvotes'[i] = fixvotes[i]
    BY DEF Claim
  <1> DEFINE S == Voter \X Key
             T == {w} \X Key
             f == [i \in S |-> FixAgeOn(fixvotes[i], b, block)]
             g == [i \in S |-> FixAgeOn(fixvotes'[i], b, block)]
  <1>4. IsFiniteSet(T)
    <2>1. T \in SUBSET S
      OBVIOUS
    <2>2. QED
      BY <2>1, FiniteIndices, FS_Subset
  <1>5. \A i \in T : f[i] \in Int /\ f[i] = g[i]
    BY <1>1, <1>3, FixAgeInt
  <1>6. ClaimAge(w, b) = GetAge(votes[<<"votes", w, b>>], block) + SumFunctionOnSet(f, T)
    BY DEF ClaimAge
  <1>7. ClaimAge(w, b)' = GetAge(votes'[<<"votes", w, b>>], block') + SumFunctionOnSet(g, T)
    BY <1>2 DEF ClaimAge, GetAge, FixAgeOn, FixGetAge, CalcBlock
  <1> HIDE DEF f, g, T, S
  <1>8. SumFunctionOnSet(f, T) = SumFunctionOnSet(g, T)
    BY <1>4, <1>5, SumCong
  <1>9. QED
    BY <1>2, <1>6, <1>7, <1>8

Covered ==
    \A v \in Voter, b \in BP : /\ ClaimAge(v, b) <= BPGetAge(bps[b], block)
                              /\ BPGetAge(bps[b], block) \in Nat

LEMMA CoveredNow == IInv => Covered
    BY ClaimAgeCovered DEF Covered

LEMMA CoveredAfter == IInv' => Covered'
    BY CoveredNow, PTL

LEMMA ClaimLeavesTheRest ==
    ASSUME IInv, NEW v \in Voter, NEW w \in Voter, v # w, NEW b \in BP, Claim(v, b)
    PROVE  Claimable(w, b)' >= Claimable(w, b)
  <1>1. IInv' /\ block' = block
    BY ClaimStep DEF Claim, chainVars
  <1> DEFINE R == bps[b].rewards_pool
             T == BPGetAge(bps[b], block)
             a == ClaimAge(v, b)
             c == ClaimAge(w, b)
             r == ClaimReward(v, b)
             U == BPGetAge(bps'[b], block)
  <1>2. /\ R \in Nat /\ T \in Nat \ {0} /\ a \in Nat /\ c \in Nat /\ a <= T
        /\ r \in Nat /\ r <= R /\ r = (R * a) \div T
    <2>1. R \in Nat /\ T \in Nat /\ a \in Nat /\ c \in Nat /\ a <= T
      BY ClaimAgeCovered
    <2>2. r \in Nat
      BY RewardNat
    <2>3. 0 < T /\ r <= R
      BY DEF Claim
    <2>4. r = (R * a) \div T
      BY DEF ClaimReward
    <2> HIDE DEF R, T, a, c, r
    <2>5. QED
      BY <2>1, <2>2, <2>3, <2>4
  <1>3. bps'[b].rewards_pool = R - r /\ U = T - a
    <2>1. bps[b] \in BPRow /\ bps \in BPTable
      BY DEF IInv, Core, BPsOK, BPTable
    <2>2. /\ bps'[b].rewards_pool = R - r /\ bps'[b].total_voteage = T - a
          /\ bps'[b].voteage_update_height = block /\ bps'[b].total_staked = bps[b].total_staked
      BY <2>1 DEF Claim, BPTable, BPRow
    <2>3. U = bps[b].total_staked * (block - block) + (T - a)
      BY <2>2 DEF BPGetAge
    <2>4. bps[b].total_staked \in Nat /\ block \in Nat
      BY <2>1 DEF IInv, Core, BPRow
    <2> HIDE DEF R, r, T, a, U
    <2>5. bps[b].total_staked * (block - block) = 0
      BY <2>4
    <2>6. QED
      BY <1>2, <2>2, <2>3, <2>5
  <1>4. c <= U /\ U \in Nat
    <2>1. ClaimAge(w, b)' = c
      BY OtherAgesStay
    <2>2. BPGetAge(bps[b], block)' = U
      BY <1>1 DEF BPGetAge
    <2>3. ClaimAge(w, b)' <= BPGetAge(bps[b], block)' /\ BPGetAge(bps[b], block)' \in Nat
      BY <1>1, CoveredAfter DEF Covered
    <2>4. QED
      BY <2>1, <2>2, <2>3
  <1>5. Claimable(w, b) = (R * c) \div T
    BY <1>2 DEF Claimable, ClaimReward
  <1>6. Claimable(w, b)' = IF U = 0 THEN 0 ELSE ((R - r) * c) \div U
    <2>1. ClaimAge(w, b)' = c /\ bps'[b].rewards_pool = R - r
      BY <1>3, OtherAgesStay
    <2>2. Claimable(w, b)' = IF U = 0 THEN 0 ELSE (bps'[b].rewards_pool * ClaimAge(w, b)') \div U
      BY <1>1 DEF Claimable, ClaimReward, BPGetAge
    <2>3. QED
      BY <2>1, <2>2
  <1> HIDE DEF R, T, a, c, r, U
  <1>7. CASE U = 0
    <2>1. c = 0
      BY <1>2, <1>4, <1>7
    <2>2. (R * c) \div T = 0
      BY <1>2, <2>1
    <2>3. QED
      BY <1>5, <1>6, <1>7, <2>2
  <1>8. CASE U # 0
    BY <1>2, <1>3, <1>4, <1>5, <1>6, <1>8, FairShare
  <1>9. QED
    BY <1>7, <1>8

\* Voters may claim in any order: what a claim takes, and how it rounds,
\* never costs another voter of the same producer.
THEOREM ClaimsAlwaysIndependent == Spec => ClaimsIndependent
  <1> DEFINE Good == \A v \in Voter, b \in BP : Claim(v, b) =>
                        \A w \in Voter \ {v} : Claimable(w, b)' >= Claimable(w, b)
  <1>1. IInv /\ [Next]_vars => [Good]_vars
    BY ClaimLeavesTheRest
  <1>2. QED
    BY <1>1, Invariance, PTL DEF Spec, ClaimsIndependent

-----------------------------------------------------------------------------
(* The supply of core tokens *)

LEMMA SumMoves ==
    ASSUME NEW f, NEW g, NEW S, IsFiniteSet(S), NEW y \in S, NEW x \in Int,
           \A s \in S : f[s] \in Int /\ g[s] \in Int,
           \A s \in S \ {y} : g[s] = f[s],
           g[y] = f[y] + x
    PROVE  SumFunctionOnSet(g, S) = SumFunctionOnSet(f, S) + x
  <1>1. SumFunctionOnSet(g, S) = SumFunctionOnSet(f, S) - f[y] + g[y]
    BY SumChange
  <1>2. SumFunctionOnSet(f, S) \in Int
    BY SumInt
  <1>3. f[y] \in Int
    OBVIOUS
  <1>4. QED
    BY <1>1, <1>2, <1>3

VoteAmount(row) == row.staked + row.unstaking
VoteKeys == Tables \X Voter \X BP
Amounts(V) == [i \in VoteKeys |-> VoteAmount(V[i])]
FixAmounts(F) == [i \in Voter \X Key |-> F[i].vote]
Pools(T) == [b \in BP |-> T[b].rewards_pool]

Held(A) == SumFunctionOnSet(A, Voter)
VoteMoney(V) == SumFunctionOnSet(Amounts(V), VoteKeys)
FixMoney(F) == SumFunctionOnSet(FixAmounts(F), Voter \X Key)
PoolMoney(T) == SumFunctionOnSet(Pools(T), BP)

LEMMA HeldMoves ==
    ASSUME NEW A \in [Voter -> Nat], NEW B \in [Voter -> Nat], NEW v \in Voter, NEW x \in Int,
           B[v] = A[v] + x, \A w \in Voter \ {v} : B[w] = A[w]
    PROVE  Held(B) = Held(A) + x
  <1>1. \A w \in Voter : A[w] \in Int /\ B[w] \in Int
    OBVIOUS
  <1>2. QED
    BY <1>1, FiniteIndices, SumMoves DEF Held

LEMMA VoteMoneyMoves ==
    ASSUME NEW V \in VoteTable, NEW W \in VoteTable, NEW i \in VoteKeys, NEW x \in Int,
           VoteAmount(W[i]) = VoteAmount(V[i]) + x, \A j \in VoteKeys \ {i} : W[j] = V[j]
    PROVE  VoteMoney(W) = VoteMoney(V) + x
  <1>1. \A j \in VoteKeys : Amounts(V)[j] \in Int /\ Amounts(W)[j] \in Int
    BY DEF Amounts, VoteAmount, VoteTable, VoteRow, VoteKeys
  <1>2. Amounts(W)[i] = Amounts(V)[i] + x /\ \A j \in VoteKeys \ {i} : Amounts(W)[j] = Amounts(V)[j]
    BY DEF Amounts
  <1>3. IsFiniteSet(VoteKeys)
    BY FiniteIndices DEF VoteKeys
  <1>4. QED
    BY <1>1, <1>2, <1>3, SumMoves DEF VoteMoney

LEMMA FixMoneyMoves ==
    ASSUME NEW F \in FixTable, NEW E \in FixTable, NEW i \in Voter \X Key, NEW x \in Int,
           E[i].vote = F[i].vote + x, \A j \in (Voter \X Key) \ {i} : E[j].vote = F[j].vote
    PROVE  FixMoney(E) = FixMoney(F) + x
  <1>1. \A j \in Voter \X Key : FixAmounts(F)[j] \in Int /\ FixAmounts(E)[j] \in Int
    BY DEF FixAmounts, FixTable, FixRow
  <1>2. /\ FixAmounts(E)[i] = FixAmounts(F)[i] + x
        /\ \A j \in (Voter \X Key) \ {i} : FixAmounts(E)[j] = FixAmounts(F)[j]
    BY DEF FixAmounts
  <1>3. IsFiniteSet(Voter \X Key)
    BY FiniteIndices
  <1>4. QED
    BY <1>1, <1>2, <1>3, SumMoves DEF FixMoney

LEMMA FixMoneySame ==
    ASSUME NEW F \in FixTable, NEW E \in FixTable, \A j \in Voter \X Key : E[j].vote = F[j].vote
    PROVE  FixMoney(E) = FixMoney(F)
  <1>1. \A j \in Voter \X Key : FixAmounts(F)[j] \in Int /\ FixAmounts(F)[j] = FixAmounts(E)[j]
    BY DEF FixAmounts, FixTable, FixRow
  <1>2. QED
    BY <1>1, FiniteIndices, SumCong DEF FixMoney

LEMMA PoolMoves ==
    ASSUME NEW T \in BPTable, NEW U \in BPTable, NEW b \in BP, NEW x \in Int,
           U[b].rewards_pool = T[b].rewards_pool + x,
           \A c \in BP \ {b} : U[c].rewards_pool = T[c].rewards_pool
    PROVE  PoolMoney(U) = PoolMoney(T) + x
  <1>1. \A c \in BP : Pools(T)[c] \in Int /\ Pools(U)[c] \in Int
    BY DEF Pools, BPTable, BPRow
  <1>2. Pools(U)[b] = Pools(T)[b] + x /\ \A c \in BP \ {b} : Pools(U)[c] = Pools(T)[c]
    BY DEF Pools
  <1>3. QED
    BY <1>1, <1>2, FiniteIndices, SumMoves DEF PoolMoney

LEMMA PoolSame ==
    ASSUME NEW T \in BPTable, NEW U \in BPTable,
           \A c \in BP : U[c].rewards_pool = T[c].rewards_pool
    PROVE  PoolMoney(U) = PoolMoney(T)
  <1>1. \A c \in BP : Pools(T)[c] \in Int /\ Pools(T)[c] = Pools(U)[c]
    BY DEF Pools, BPTable, BPRow
  <1>2. QED
    BY <1>1, FiniteIndices, SumCong DEF PoolMoney

LEMMA MoneyInt ==
    ASSUME NEW A \in [Voter -> Nat], NEW V \in VoteTable, NEW F \in FixTable, NEW T \in BPTable
    PROVE  Held(A) \in Int /\ VoteMoney(V) \in Int /\ FixMoney(F) \in Int /\ PoolMoney(T) \in Int
  <1>1. \A v \in Voter : A[v] \in Int
    OBVIOUS
  <1>2. \A i \in VoteKeys : Amounts(V)[i] \in Int
    BY DEF Amounts, VoteAmount, VoteTable, VoteRow, VoteKeys
  <1>3. \A i \in Voter \X Key : FixAmounts(F)[i] \in Int
    BY DEF FixAmounts, FixTable, FixRow
  <1>4. \A b \in BP : Pools(T)[b] \in Int
    BY DEF Pools, BPTable, BPRow
  <1>5. IsFiniteSet(VoteKeys)
    BY FiniteIndices DEF VoteKeys
  <1>6. Held(A) \in Int /\ PoolMoney(T) \in Int
    BY <1>1, <1>4, FiniteIndices, SumInt DEF Held, PoolMoney
  <1>7. VoteMoney(V) \in Int /\ FixMoney(F) \in Int
    BY <1>2, <1>3, <1>5, FiniteIndices, SumInt DEF VoteMoney, FixMoney
  <1>8. QED
    BY <1>6, <1>7

Tabled ==
    /\ available \in [Voter -> Nat] /\ votes \in VoteTable
    /\ fixvotes \in FixTable /\ bps \in BPTable

LEMMA InvTabled == IInv => Tabled
    BY DEF IInv, Core, Rest, VotesOK, FixesOK, BPsOK, Tabled

LEMMA InvTabledAfter == IInv' => Tabled'
    BY InvTabled, PTL

LEMMA SupplyIs ==
    ASSUME NEW A \in [Voter -> Nat], NEW V \in VoteTable, NEW F \in FixTable, NEW T \in BPTable
    PROVE  /\ SumFunction(A) = Held(A)
           /\ SumFunction([i \in Tables \X Voter \X BP |-> V[i].staked + V[i].unstaking]) = VoteMoney(V)
           /\ SumFunction([i \in Voter \X Key |-> F[i].vote]) = FixMoney(F)
           /\ SumFunction([b \in BP |-> T[b].rewards_pool]) = PoolMoney(T)
    BY DEF SumFunction, Held, VoteMoney, FixMoney, PoolMoney, Amounts, FixAmounts, Pools, VoteKeys,
           VoteAmount

SupplySums ==
    /\ Supply = Held(available) + VoteMoney(votes) + FixMoney(fixvotes) + PoolMoney(bps)
    /\ PoolSum = PoolMoney(bps)

LEMMA SupplyNow == Tabled => SupplySums
  <1> SUFFICES ASSUME Tabled PROVE SupplySums
    OBVIOUS
  <1>1. PICK A \in [Voter -> Nat], V \in VoteTable, F \in FixTable, T \in BPTable :
           A = available /\ V = votes /\ F = fixvotes /\ T = bps
    BY DEF Tabled
  <1>2. Supply = Held(A) + VoteMoney(V) + FixMoney(F) + PoolMoney(T) /\ PoolSum = PoolMoney(T)
    BY <1>1, SupplyIs DEF Supply, PoolSum
  <1>3. QED
    BY <1>1, <1>2 DEF SupplySums

LEMMA SupplyAfter == Tabled' => SupplySums'
    BY SupplyNow, PTL

\* What a step adds to the four places tokens are in.
LEMMA Balance ==
    ASSUME IInv, IInv', NEW a \in Int, NEW v \in Int, NEW f \in Int, NEW p \in Int,
           Held(available') = Held(available) + a,
           VoteMoney(votes') = VoteMoney(votes) + v,
           FixMoney(fixvotes') = FixMoney(fixvotes) + f,
           PoolMoney(bps') = PoolMoney(bps) + p
    PROVE  Supply' - Supply = a + v + f + p /\ PoolSum' - PoolSum = p
  <1>1. SupplySums /\ SupplySums' /\ Tabled
    BY InvTabled, InvTabledAfter, SupplyNow, SupplyAfter
  <1>2. /\ Held(available) \in Int /\ VoteMoney(votes) \in Int
        /\ FixMoney(fixvotes) \in Int /\ PoolMoney(bps) \in Int
    BY <1>1, MoneyInt DEF Tabled
  <1>3. /\ Supply' = Held(available') + VoteMoney(votes') + FixMoney(fixvotes') + PoolMoney(bps')
        /\ PoolSum' = PoolMoney(bps')
    BY <1>1 DEF SupplySums, Held, VoteMoney, FixMoney, PoolMoney, Amounts, FixAmounts, Pools, VoteAmount,
                VoteKeys
  <1>4. /\ Supply = Held(available) + VoteMoney(votes) + FixMoney(fixvotes) + PoolMoney(bps)
        /\ PoolSum = PoolMoney(bps)
    BY <1>1 DEF SupplySums
  <1>5. QED
    BY <1>2, <1>3, <1>4

LEMMA MoneyNow ==
    ASSUME IInv
    PROVE  /\ Held(available) \in Int /\ VoteMoney(votes) \in Int
           /\ FixMoney(fixvotes) \in Int /\ PoolMoney(bps) \in Int
    BY InvTabled, MoneyInt DEF Tabled

SupplyWhole == Supply \in Int

LEMMA SupplyInt == IInv => SupplyWhole
  <1> SUFFICES ASSUME IInv PROVE SupplyWhole
    OBVIOUS
  <1>1. SupplySums
    BY InvTabled, SupplyNow
  <1>2. QED
    BY <1>1, MoneyNow DEF SupplySums, SupplyWhole

LEMMA SupplyIntAfter == IInv' => SupplyWhole'
    BY SupplyInt, PTL

\* A call that takes from one place what it adds to others.
LEMMA Balanced ==
    ASSUME IInv, IInv', NEW a \in Int, NEW v \in Int, NEW f \in Int, NEW p \in Int,
           Held(available') = Held(available) + a,
           VoteMoney(votes') = VoteMoney(votes) + v,
           FixMoney(fixvotes') = FixMoney(fixvotes) + f,
           PoolMoney(bps') = PoolMoney(bps) + p,
           a + v + f + p = 0
    PROVE  Supply' = Supply
  <1>1. Supply' - Supply = 0
    BY Balance
  <1>2. QED
    BY <1>1, SupplyInt, SupplyIntAfter DEF SupplyWhole

LEMMA AvailableMoves ==
    ASSUME IInv, IInv', NEW v \in Voter, NEW x \in Int,
           available' = [available EXCEPT ![v] = @ + x]
    PROVE  Held(available') = Held(available) + x
  <1>1. PICK A \in [Voter -> Nat], B \in [Voter -> Nat] : A = available /\ B = available'
    BY InvTabled, InvTabledAfter DEF Tabled
  <1>2. B[v] = A[v] + x /\ (\A w \in Voter \ {v} : B[w] = A[w])
    BY <1>1
  <1>3. Held(B) = Held(A) + x
    BY <1>2, HeldMoves
  <1>4. QED
    BY <1>1, <1>3

LEMMA VotesMove ==
    ASSUME IInv, IInv', NEW i \in VoteKeys, NEW x \in Int, NEW row,
           votes' = [votes EXCEPT ![i] = row], VoteAmount(row) = VoteAmount(votes[i]) + x
    PROVE  VoteMoney(votes') = VoteMoney(votes) + x
  <1>1. PICK V \in VoteTable, W \in VoteTable : V = votes /\ W = votes'
    BY InvTabled, InvTabledAfter DEF Tabled
  <1>2. VoteAmount(W[i]) = VoteAmount(V[i]) + x /\ \A j \in VoteKeys \ {i} : W[j] = V[j]
    BY <1>1 DEF VoteTable, VoteKeys
  <1>3. VoteMoney(W) = VoteMoney(V) + x
    BY <1>2, VoteMoneyMoves
  <1>4. QED
    BY <1>1, <1>3

LEMMA FixesMove ==
    ASSUME IInv, IInv', NEW i \in Voter \X Key, NEW x \in Int, NEW row,
           fixvotes' = [fixvotes EXCEPT ![i] = row], row.vote = fixvotes[i].vote + x
    PROVE  FixMoney(fixvotes') = FixMoney(fixvotes) + x
  <1>1. PICK F \in FixTable, E \in FixTable : F = fixvotes /\ E = fixvotes'
    BY InvTabled, InvTabledAfter DEF Tabled
  <1>2. E[i].vote = F[i].vote + x /\ \A j \in (Voter \X Key) \ {i} : E[j].vote = F[j].vote
    BY <1>1 DEF FixTable
  <1>3. FixMoney(E) = FixMoney(F) + x
    BY <1>2, FixMoneyMoves
  <1>4. QED
    BY <1>1, <1>3

LEMMA PoolsKept ==
    ASSUME IInv, IInv', \A c \in BP : bps'[c].rewards_pool = bps[c].rewards_pool
    PROVE  PoolMoney(bps') = PoolMoney(bps)
  <1>1. bps \in BPTable /\ bps' \in BPTable
    BY InvTabled, InvTabledAfter DEF Tabled
  <1>2. QED
    BY <1>1, PoolSame

LEMMA PoolsKeptAdding ==
    ASSUME IInv, IInv', NEW b \in BP, NEW amount,
           bps' = [bps EXCEPT ![b] = AddTotalStaked(@, block, amount)]
    PROVE  PoolMoney(bps') = PoolMoney(bps)
  <1>1. bps \in BPTable
    BY InvTabled DEF Tabled
  <1>2. \A c \in BP : bps'[c].rewards_pool = bps[c].rewards_pool
    BY <1>1 DEF AddTotalStaked, BPTable, BPRow
  <1>3. QED
    BY <1>2, PoolsKept

LEMMA PoolsKeptMoving ==
    ASSUME IInv, IInv', NEW b \in BP, NEW d \in BP, b # d, NEW amount,
           bps' = [bps EXCEPT ![b] = AddTotalStaked(@, block, -amount),
                              ![d] = AddTotalStaked(@, block, amount)]
    PROVE  PoolMoney(bps') = PoolMoney(bps)
  <1>1. bps \in BPTable
    BY InvTabled DEF Tabled
  <1>2. \A c \in BP : bps'[c].rewards_pool = bps[c].rewards_pool
    BY <1>1 DEF AddTotalStaked, BPTable, BPRow
  <1>3. QED
    BY <1>2, PoolsKept

LEMMA TransferBalances ==
    ASSUME IInv, IInv', NEW from \in Voter, NEW to \in Voter, NEW q \in Quantities,
           Transfer(from, to, q)
    PROVE  Supply' = Supply
  <1>1. /\ q \in Int /\ 0 <= q /\ q <= available[from] /\ available \in [Voter -> Nat]
        /\ available' \in [Voter -> Nat]
        /\ available' = [[available EXCEPT ![from] = @ - q] EXCEPT ![to] = @ + q]
        /\ UNCHANGED <<votes, fixvotes, bps>>
    BY InvTabled, InvTabledAfter, AmountAssumption DEF Transfer, Tabled, voteVars
  <1>2. PICK mid \in [Voter -> Nat] : mid = [available EXCEPT ![from] = @ - q]
    <2>1. available[from] - q \in Nat
      BY <1>1
    <2>2. [available EXCEPT ![from] = @ - q] \in [Voter -> Nat]
      BY <1>1, <2>1
    <2>3. QED
      BY <2>2
  <1>3. -q \in Int /\ mid[from] = available[from] + (-q) /\ \A w \in Voter \ {from} : mid[w] = available[w]
    BY <1>1, <1>2
  <1>4. PICK now \in [Voter -> Nat], new \in [Voter -> Nat] : now = available /\ new = available'
    BY <1>1
  <1>5. Held(mid) = Held(now) + (-q)
    BY <1>3, <1>4, HeldMoves
  <1>6. new[to] = mid[to] + q /\ \A w \in Voter \ {to} : new[w] = mid[w]
    BY <1>1, <1>2, <1>4
  <1>7. Held(new) = Held(mid) + q
    BY <1>1, <1>6, HeldMoves
  <1>8. Held(available') = Held(available) + 0
    <2>1. Held(now) \in Int
      BY <1>4, MoneyNow DEF Held
    <2>2. Held(new) = Held(now)
      BY <1>1, <1>5, <1>7, <2>1
    <2>3. QED
      BY <1>4, <2>1, <2>2
  <1>9. /\ VoteMoney(votes') = VoteMoney(votes) + 0 /\ FixMoney(fixvotes') = FixMoney(fixvotes) + 0
        /\ PoolMoney(bps') = PoolMoney(bps) + 0
    BY <1>1, MoneyNow
  <1>10. QED
    BY <1>8, <1>9, Balanced

LEMMA VoteByTypBalances ==
    ASSUME IInv, IInv', NEW t \in Tables, NEW v \in Voter, NEW b \in BP, NEW stake \in Int,
           VoteByTyp(t, v, b, stake)
    PROVE  Supply' = Supply
  <1> DEFINE i == <<t, v, b>>
             row == votes[i]
             change == stake - row.staked
             restaked == ChangeStakedTo(row, block, stake)
             new == IF change < 0 THEN AddUnstaking(restaked, block, -change) ELSE restaked
             spent == IF change > 0 THEN change ELSE 0
  <1>1. /\ Tabled /\ Tabled' /\ i \in VoteKeys /\ row \in VoteRow /\ change \in Int /\ spent \in Int
        /\ row.staked \in Nat /\ row.unstaking \in Nat
    BY InvTabled, InvTabledAfter DEF Tabled, VoteTable, VoteRow, VoteKeys
  <1>2. VoteAmount(new) = VoteAmount(row) + spent
    <2>1. /\ restaked.staked = stake /\ restaked.unstaking = row.unstaking
          /\ restaked = [row EXCEPT !.age = GetAge(row, block), !.update_height = block, !.staked = stake]
      BY <1>1 DEF ChangeStakedTo, VoteRow
    <2>2. AddUnstaking(restaked, block, -change).staked = stake
          /\ AddUnstaking(restaked, block, -change).unstaking = row.unstaking + (-change)
      BY <1>1, <2>1 DEF AddUnstaking, VoteRow
    <2>3. VoteAmount(restaked) = stake + row.unstaking /\ VoteAmount(row) = row.staked + row.unstaking
          /\ VoteAmount(AddUnstaking(restaked, block, -change)) = stake + (row.unstaking + (-change))
      BY <2>1, <2>2 DEF VoteAmount
    <2> HIDE DEF restaked, row
    <2>4. QED
      BY <1>1, <2>3
  <1>3. votes' = [votes EXCEPT ![i] = new]
    BY DEF VoteByTyp
  <1>4. available' = [available EXCEPT ![v] = @ - spent]
    <2>1. CASE change > 0
      BY <2>1 DEF VoteByTyp
    <2>2. CASE ~(change > 0)
      <3>1. available' = available /\ spent = 0
        BY <2>2 DEF VoteByTyp
      <3> HIDE DEF spent
      <3>2. available \in [Voter -> Nat] /\ available[v] - 0 = available[v]
        BY <1>1 DEF Tabled
      <3>3. QED
        BY <3>1, <3>2
    <2>3. QED
      BY <2>1, <2>2
  <1>5. UNCHANGED fixvotes /\ (UNCHANGED bps \/ bps' = [bps EXCEPT ![b] = AddTotalStaked(@, block, change)])
    BY DEF VoteByTyp
  <1> HIDE DEF i, row, change, new, spent
  <1>6. VoteMoney(votes') = VoteMoney(votes) + spent
    BY <1>1, <1>2, <1>3, VotesMove DEF row
  <1>7. Held(available') = Held(available) + (-spent)
    <2>1. PICK x \in Int : x = -spent
      BY <1>1
    <2>2. available[v] - spent = available[v] + x
      BY <1>1, <2>1 DEF Tabled
    <2>3. available' = [available EXCEPT ![v] = @ + x]
      BY <1>4, <2>2
    <2>4. Held(available') = Held(available) + x
      BY <2>3, AvailableMoves
    <2>5. QED
      BY <2>1, <2>4
  <1>8. PoolMoney(bps') = PoolMoney(bps)
    BY <1>5, PoolsKept, PoolsKeptAdding
  <1>9. /\ FixMoney(fixvotes') = FixMoney(fixvotes) + 0 /\ PoolMoney(bps') = PoolMoney(bps) + 0
        /\ -spent \in Int /\ (-spent) + spent + 0 + 0 = 0
    BY <1>1, <1>5, <1>8, MoneyNow
  <1>10. QED
    BY <1>1, <1>6, <1>7, <1>9, Balanced

LEMMA UnfreezeBalances ==
    ASSUME IInv, IInv', NEW t \in Tables, NEW v \in Voter, NEW b \in BP, UnfreezeByTyp(t, v, b)
    PROVE  Supply' = Supply
  <1> DEFINE i == <<t, v, b>>
             u == votes[i].unstaking
             new == [votes[i] EXCEPT !.unstaking = 0]
  <1>1. i \in VoteKeys /\ votes[i] \in VoteRow /\ u \in Int /\ -u \in Int
    BY InvTabled DEF Tabled, VoteTable, VoteRow, VoteKeys
  <1>2. /\ available' = [available EXCEPT ![v] = @ + u]
        /\ votes' = [votes EXCEPT ![i] = new]
        /\ UNCHANGED <<fixvotes, bps>>
    BY DEF UnfreezeByTyp
  <1>3. VoteAmount(new) = VoteAmount(votes[i]) + (-u)
    BY <1>1 DEF VoteAmount, VoteRow
  <1> HIDE DEF i, u, new
  <1>4. Held(available') = Held(available) + u /\ VoteMoney(votes') = VoteMoney(votes) + (-u)
    BY <1>1, <1>2, <1>3, AvailableMoves, VotesMove
  <1>5. /\ FixMoney(fixvotes') = FixMoney(fixvotes) + 0 /\ PoolMoney(bps') = PoolMoney(bps) + 0
        /\ u + (-u) + 0 + 0 = 0
    BY <1>1, <1>2, MoneyNow
  <1>6. QED
    BY <1>1, <1>4, <1>5, Balanced

LEMMA RevoteBalances ==
    ASSUME IInv, IInv', NEW v \in Voter, NEW b \in BP, NEW to \in BP, NEW restake \in Int,
           Revote(v, b, to, restake)
    PROVE  Supply' = Supply
  <1> DEFINE i == <<"votes", v, b>>
             j == <<"votes", v, to>>
             r1 == ChangeStakedTo(votes[i], block, votes[i].staked - restake)
             r2 == ChangeStakedTo(votes[j], block, votes[j].staked + restake)
  <1>1. /\ i \in VoteKeys /\ j \in VoteKeys /\ i # j /\ votes[i] \in VoteRow /\ votes[j] \in VoteRow
        /\ votes \in VoteTable /\ votes' \in VoteTable
    BY InvTabled, InvTabledAfter DEF Tabled, VoteTable, VoteKeys, Tables, Revote
  <1>2. /\ votes' = [votes EXCEPT ![i] = r1, ![j] = r2]
        /\ bps' = [bps EXCEPT ![b] = AddTotalStaked(@, block, -restake),
                              ![to] = AddTotalStaked(@, block, restake)]
        /\ b # to /\ UNCHANGED <<available, fixvotes>>
    BY DEF Revote
  <1>3. VoteAmount(r1) = VoteAmount(votes[i]) + (-restake) /\ VoteAmount(r2) = VoteAmount(votes[j]) + restake
    BY <1>1 DEF VoteAmount, ChangeStakedTo, VoteRow
  <1> HIDE DEF i, j, r1, r2
  <1>4. PICK V \in VoteTable, W \in VoteTable : V = votes /\ W = votes'
    BY <1>1
  <1>5. VoteMoney(W) = VoteMoney(V)
    <2>1. \A k \in VoteKeys : Amounts(V)[k] \in Int /\ Amounts(W)[k] \in Int
      BY DEF Amounts, VoteAmount, VoteTable, VoteRow, VoteKeys
    <2>2. /\ W[i] = r1 /\ W[j] = r2 /\ \A k \in VoteKeys \ {i, j} : W[k] = V[k]
      BY <1>1, <1>2, <1>4 DEF VoteTable, VoteKeys
    <2>3. /\ Amounts(W)[i] = Amounts(V)[i] + (-restake) /\ Amounts(W)[j] = Amounts(V)[j] + restake
          /\ \A k \in VoteKeys \ {i, j} : Amounts(W)[k] = Amounts(V)[k]
      BY <1>1, <1>3, <1>4, <2>2 DEF Amounts
    <2>4. IsFiniteSet(VoteKeys)
      BY FiniteIndices DEF VoteKeys
    <2>5. VoteMoney(W) = VoteMoney(V) - Amounts(V)[i] + Amounts(W)[i] - Amounts(V)[j] + Amounts(W)[j]
      BY <1>1, <2>1, <2>3, <2>4, SumChange2 DEF VoteMoney
    <2>6. VoteMoney(V) \in Int
      BY <2>1, <2>4, SumInt DEF VoteMoney
    <2>7. QED
      BY <1>1, <2>1, <2>3, <2>5, <2>6
  <1>6. PoolMoney(bps') = PoolMoney(bps)
    BY <1>2, PoolsKeptMoving
  <1>7. /\ Held(available') = Held(available) + 0 /\ VoteMoney(votes') = VoteMoney(votes) + 0
        /\ FixMoney(fixvotes') = FixMoney(fixvotes) + 0 /\ PoolMoney(bps') = PoolMoney(bps) + 0
    BY <1>2, <1>4, <1>5, <1>6, MoneyNow
  <1>8. QED
    BY <1>7, Balanced

\* A withdrawn or absent fix-time vote holds no stake.
Cleared ==
    \A i \in Voter \X Key : fixvotes[i].is_withdraw \/ ~Exists(fixvotes[i]) => fixvotes[i].vote = 0

LEMMA ClaimBalances ==
    ASSUME IInv, IInv', Cleared, NEW v \in Voter, NEW b \in BP, Claim(v, b)
    PROVE  Supply' = Supply
  <1> DEFINE i == <<"votes", v, b>>
             r == ClaimReward(v, b)
             new == CleanAge(votes[i], block)
  <1>1. /\ i \in VoteKeys /\ votes[i] \in VoteRow /\ r \in Int /\ -r \in Int
        /\ bps \in BPTable /\ bps' \in BPTable
    BY InvTabled, InvTabledAfter, RewardNat DEF Tabled, VoteTable, VoteRow, VoteKeys, Tables
  <1>2. /\ available' = [available EXCEPT ![v] = @ + r]
        /\ votes' = [votes EXCEPT ![i] = new]
    BY DEF Claim
  <1>3. VoteAmount(new) = VoteAmount(votes[i]) + 0
    BY <1>1 DEF VoteAmount, VoteRow, CleanAge
  <1>4. /\ bps'[b].rewards_pool = bps[b].rewards_pool + (-r)
        /\ \A c \in BP \ {b} : bps'[c].rewards_pool = bps[c].rewards_pool
    BY <1>1 DEF Claim, BPTable, BPRow
  <1> HIDE DEF i, r, new
  <1>5. Held(available') = Held(available) + r /\ VoteMoney(votes') = VoteMoney(votes) + 0
    <2>1. Held(available') = Held(available) + r
      BY <1>1, <1>2, AvailableMoves
    <2>2. VoteMoney(votes') = VoteMoney(votes) + 0
      <3>1. PICK x \in Int : x = 0
        OBVIOUS
      <3>2. VoteAmount(new) = VoteAmount(votes[i]) + x
        BY <1>3, <3>1
      <3>3. VoteMoney(votes') = VoteMoney(votes) + x
        BY <1>1, <1>2, <3>2, VotesMove
      <3>4. QED
        BY <3>1, <3>3
    <2>3. QED
      BY <2>1, <2>2
  <1>6. PoolMoney(bps') = PoolMoney(bps) + (-r)
    <2>1. PICK T \in BPTable, U \in BPTable : T = bps /\ U = bps'
      BY <1>1
    <2>2. PoolMoney(U) = PoolMoney(T) + (-r)
      BY <1>1, <1>4, <2>1, PoolMoves
    <2>3. QED
      BY <2>1, <2>2
  <1>7. FixMoney(fixvotes') = FixMoney(fixvotes) + 0
    <2>1. fixvotes \in FixTable /\ fixvotes' \in FixTable
      BY InvTabled, InvTabledAfter DEF Tabled
    <2>2. ASSUME NEW j \in Voter \X Key PROVE fixvotes'[j].vote = fixvotes[j].vote
      <3>1. \/ fixvotes'[j] = fixvotes[j]
            \/ fixvotes'[j] = NoFix /\ fixvotes[j].is_withdraw
            \/ fixvotes'[j] = FixCleanAge(fixvotes[j], block)
        BY DEF Claim
      <3>2. FixCleanAge(fixvotes[j], block).vote = fixvotes[j].vote
        BY <2>1 DEF FixCleanAge, CleanAge, FixTable, FixRow
      <3>3. fixvotes[j].is_withdraw => fixvotes[j].vote = 0
        BY DEF Cleared
      <3>4. NoFix.vote = 0
        BY DEF NoFix
      <3>5. QED
        BY <3>1, <3>2, <3>3, <3>4
    <2>3. FixMoney(fixvotes') = FixMoney(fixvotes)
      BY <2>1, <2>2, FixMoneySame
    <2>4. QED
      BY <2>3, MoneyNow
  <1>8. r + 0 + 0 + (-r) = 0
    BY <1>1
  <1>9. QED
    BY <1>1, <1>5, <1>6, <1>7, <1>8, Balanced

\* A free key holds nothing before a fix-time vote takes it.
LEMMA NewFixVoteMoves ==
    ASSUME IInv, IInv', Cleared, NEW v \in Voter, NEW b \in BP, NEW type \in FixType,
           NEW stake \in Int, AddFixVote(v, b, type, stake)
    PROVE  /\ FixMoney(fixvotes') = FixMoney(fixvotes) + stake
           /\ PoolMoney(bps') = PoolMoney(bps)
  <1> DEFINE row == [bpname |-> b, staked |-> stake * FixPower[type], age |-> 0,
                     update_height |-> block, vote |-> stake,
                     withdraw |-> block + FixBlocks[type], is_withdraw |-> FALSE]
  <1>1. PICK key \in Key : key = AvailableKey(v) /\ fixvotes' = [fixvotes EXCEPT ![<<v, key>>] = row]
    BY DEF AddFixVote
  <1>2. ~Exists(fixvotes[<<v, key>>])
    BY <1>1, AvailableKeyIsFree
  <1>3. fixvotes[<<v, key>>].vote = 0 /\ <<v, key>> \in Voter \X Key
    BY <1>2 DEF Cleared
  <1>4. row.vote = stake
    OBVIOUS
  <1> HIDE DEF row
  <1>5. row.vote = fixvotes[<<v, key>>].vote + stake
    BY <1>3, <1>4
  <1>6. FixMoney(fixvotes') = FixMoney(fixvotes) + stake
    BY <1>1, <1>3, <1>5, FixesMove
  <1>7. PoolMoney(bps') = PoolMoney(bps)
    BY PoolsKeptAdding DEF AddFixVote
  <1>8. QED
    BY <1>6, <1>7

LEMMA VoteFixAvailableBalances ==
    ASSUME IInv, IInv', Cleared, NEW v \in Voter, NEW b \in BP, NEW type \in FixType,
           NEW stake \in Int, VoteFixAvailable(v, b, type, stake)
    PROVE  Supply' = Supply
  <1>1. /\ FixMoney(fixvotes') = FixMoney(fixvotes) + stake /\ PoolMoney(bps') = PoolMoney(bps) + 0
        /\ VoteMoney(votes') = VoteMoney(votes) + 0
    BY NewFixVoteMoves, MoneyNow DEF VoteFixAvailable
  <1>2. PICK x \in Int : x = -stake
    OBVIOUS
  <1>3. available' = [available EXCEPT ![v] = @ + x]
    <2>1. available[v] - stake = available[v] + x
      BY <1>2, InvTabled DEF Tabled
    <2>2. QED
      BY <2>1 DEF VoteFixAvailable
  <1>4. Held(available') = Held(available) + x
    BY <1>3, AvailableMoves
  <1>5. x + 0 + stake + 0 = 0
    BY <1>2
  <1>6. QED
    BY <1>1, <1>4, <1>5, Balanced

LEMMA VoteFixUnstakingBalances ==
    ASSUME IInv, IInv', Cleared, NEW v \in Voter, NEW b \in BP, NEW type \in FixType,
           NEW stake \in Int, VoteFixUnstaking(v, b, type, stake)
    PROVE  Supply' = Supply
  <1> DEFINE i == <<"votes", v, b>>
             new == [votes[i] EXCEPT !.unstaking = @ - stake]
  <1>1. /\ FixMoney(fixvotes') = FixMoney(fixvotes) + stake /\ PoolMoney(bps') = PoolMoney(bps) + 0
        /\ Held(available') = Held(available) + 0
    BY NewFixVoteMoves, MoneyNow DEF VoteFixUnstaking
  <1>2. PICK x \in Int : x = -stake
    OBVIOUS
  <1>3. i \in VoteKeys /\ votes[i] \in VoteRow
    BY InvTabled DEF Tabled, VoteTable, VoteKeys, Tables
  <1>4. VoteAmount(new) = VoteAmount(votes[i]) + x
    BY <1>2, <1>3 DEF VoteAmount, VoteRow
  <1>5. votes' = [votes EXCEPT ![i] = new]
    BY DEF VoteFixUnstaking
  <1> HIDE DEF i, new
  <1>6. VoteMoney(votes') = VoteMoney(votes) + x
    BY <1>3, <1>4, <1>5, VotesMove
  <1>7. 0 + x + stake + 0 = 0
    BY <1>2
  <1>8. QED
    BY <1>1, <1>6, <1>7, Balanced

LEMMA RevoteFixBalances ==
    ASSUME IInv, IInv', NEW v \in Voter, NEW k \in Key, NEW d \in BP, RevoteFix(v, k, d)
    PROVE  Supply' = Supply
  <1> DEFINE f == fixvotes[<<v, k>>]
             new == [FixCleanAge(f, block) EXCEPT !.bpname = d]
  <1>1. /\ f.bpname \in BP /\ f.bpname # d
        /\ bps' = [bps EXCEPT ![f.bpname] = AddTotalStaked(@, block, -f.staked),
                              ![d] = AddTotalStaked(@, block, f.staked)]
    BY FixRowFacts DEF RevoteFix
  <1>2. UNCHANGED <<available, votes>> /\ fixvotes' = [fixvotes EXCEPT ![<<v, k>>] = new]
    BY DEF RevoteFix
  <1>3. <<v, k>> \in Voter \X Key /\ f \in FixRow
    BY InvTabled DEF Tabled, FixTable
  <1>4. new.vote = f.vote + 0
    BY <1>3 DEF FixCleanAge, CleanAge, FixRow
  <1> HIDE DEF new
  <1>5. FixMoney(fixvotes') = FixMoney(fixvotes) + 0
    <2>1. PICK x \in Int : x = 0
      OBVIOUS
    <2>2. new.vote = fixvotes[<<v, k>>].vote + x
      BY <1>4, <2>1
    <2> HIDE DEF f
    <2>3. FixMoney(fixvotes') = FixMoney(fixvotes) + x
      BY <1>2, <1>3, <2>2, FixesMove
    <2>4. QED
      BY <2>1, <2>3
  <1> HIDE DEF f
  <1>6. PoolMoney(bps') = PoolMoney(bps)
    BY <1>1, PoolsKeptMoving
  <1>7. /\ Held(available') = Held(available) + 0 /\ VoteMoney(votes') = VoteMoney(votes) + 0
        /\ PoolMoney(bps') = PoolMoney(bps) + 0
    BY <1>2, <1>6, MoneyNow
  <1>8. QED
    BY <1>5, <1>7, Balanced

LEMMA OutFixVoteBalances ==
    ASSUME IInv, IInv', NEW v \in Voter, NEW k \in Key, OutFixVote(v, k)
    PROVE  Supply' = Supply
  <1> DEFINE f == fixvotes[<<v, k>>]
             i == <<"votes", v, f.bpname>>
             row == [f EXCEPT !.vote = 0, !.is_withdraw = TRUE]
             new == AddUnstaking(votes[i], block, f.vote)
  <1>1. /\ f.bpname \in BP /\ f \in FixRow /\ f.vote \in Int /\ <<v, k>> \in Voter \X Key
        /\ fixvotes \in FixTable
    <2>1. f.bpname \in BP /\ f \in FixRow
      BY FixRowFacts DEF OutFixVote
    <2>2. fixvotes \in FixTable
      BY InvTabled DEF Tabled
    <2>3. f.vote \in Int
      BY <2>1 DEF FixRow
    <2>4. QED
      BY <2>1, <2>2, <2>3
  <1>2. i \in VoteKeys /\ votes[i] \in VoteRow
    BY <1>1, InvTabled DEF Tabled, VoteTable, VoteKeys, Tables
  <1>3. /\ votes' = [votes EXCEPT ![i] = new]
        /\ bps' = [bps EXCEPT ![f.bpname] = AddTotalStaked(@, block, -f.staked)]
        /\ UNCHANGED available
    BY DEF OutFixVote
  <1>4. fixvotes' = [fixvotes EXCEPT ![<<v, k>>] = row]
    BY <1>1 DEF OutFixVote, FixTable, FixRow
  <1>5. VoteAmount(new) = VoteAmount(votes[i]) + f.vote
    <2>1. new.staked = votes[i].staked /\ new.unstaking = votes[i].unstaking + f.vote
      BY <1>2 DEF AddUnstaking, VoteRow
    <2>2. votes[i].staked \in Nat /\ votes[i].unstaking \in Nat
      BY <1>2 DEF VoteRow
    <2> HIDE DEF new, i, f
    <2>3. QED
      BY <1>1, <2>1, <2>2 DEF VoteAmount
  <1>6. PICK x \in Int, y \in Int : x = f.vote /\ y = -x
    BY <1>1
  <1>7. row.vote = f.vote + y
    <2>1. row.vote = 0
      BY <1>1 DEF FixRow
    <2> HIDE DEF row, f
    <2>2. QED
      BY <1>6, <2>1
  <1> HIDE DEF row, new, i
  <1>8. FixMoney(fixvotes') = FixMoney(fixvotes) + y
    BY <1>1, <1>4, <1>7, FixesMove
  <1> HIDE DEF f
  <1>9. VoteMoney(votes') = VoteMoney(votes) + x
    BY <1>2, <1>3, <1>5, <1>6, VotesMove
  <1>10. PoolMoney(bps') = PoolMoney(bps)
    BY <1>1, <1>3, PoolsKeptAdding
  <1>11. Held(available') = Held(available) + 0 /\ PoolMoney(bps') = PoolMoney(bps) + 0
    BY <1>3, <1>10, MoneyNow
  <1>12. 0 + x + y + 0 = 0
    BY <1>6
  <1>13. QED
    BY <1>8, <1>9, <1>11, <1>12, Balanced

LEMMA VoteNextBalances ==
    ASSUME IInv, IInv', Cleared, VoteNext
    PROVE  Supply' = Supply /\ block' = block
  <1>1. PICK v \in Voter, b \in BP :
            \/ \E stake \in Stakes : Vote(v, b, stake)
            \/ \E stake \in RamStakes : Vote4Ram(v, b, stake)
            \/ \E to \in BP, restake \in Stakes : Revote(v, b, to, restake)
            \/ Unfreeze(v, b)
            \/ UnfreezeRam(v, b)
            \/ Claim(v, b)
    BY DEF VoteNext
  <1>2. "votes" \in Tables /\ "votes4ram" \in Tables /\ Stakes \subseteq Int /\ RamStakes \subseteq Int
    BY AmountAssumption DEF Tables
  <1>3. ASSUME NEW t \in Tables, NEW stake \in Int, VoteByTyp(t, v, b, stake)
        PROVE  Supply' = Supply /\ block' = block
    BY <1>3, VoteByTypBalances DEF VoteByTyp, chainVars
  <1>4. ASSUME NEW to \in BP, NEW restake \in Int, Revote(v, b, to, restake)
        PROVE  Supply' = Supply /\ block' = block
    BY <1>4, RevoteBalances DEF Revote, chainVars
  <1>5. ASSUME NEW t \in Tables, UnfreezeByTyp(t, v, b)
        PROVE  Supply' = Supply /\ block' = block
    BY <1>5, UnfreezeBalances DEF UnfreezeByTyp, chainVars
  <1>6. CASE Claim(v, b)
    BY <1>6, ClaimBalances DEF Claim, chainVars
  <1>7. QED
    BY <1>1, <1>2, <1>3, <1>4, <1>5, <1>6 DEF Vote, Vote4Ram, Unfreeze, UnfreezeRam

LEMMA FixNextBalances ==
    ASSUME IInv, IInv', Cleared, FixNext
    PROVE  Supply' = Supply /\ block' = block
  <1>1. PICK v \in Voter :
            \/ \E b \in BP, type \in FixType, stake \in FixStakes :
                  VoteFixAvailable(v, b, type, stake) \/ VoteFixUnstaking(v, b, type, stake)
            \/ \E k \in Key, b \in BP : RevoteFix(v, k, b)
            \/ \E k \in Key : OutFixVote(v, k)
    BY DEF FixNext
  <1>2. ASSUME NEW b \in BP, NEW type \in FixType, NEW stake \in FixStakes,
               VoteFixAvailable(v, b, type, stake) \/ VoteFixUnstaking(v, b, type, stake)
        PROVE  Supply' = Supply /\ block' = block
    <2>1. stake \in Int
      BY AmountAssumption
    <2>2. AddFixVote(v, b, type, stake)
      BY <1>2 DEF VoteFixAvailable, VoteFixUnstaking
    <2>3. block' = block
      BY <2>2 DEF AddFixVote, chainVars
    <2>4. QED
      BY <1>2, <2>1, <2>3, VoteFixAvailableBalances, VoteFixUnstakingBalances
  <1>3. ASSUME NEW k \in Key, NEW b \in BP, RevoteFix(v, k, b)
        PROVE  Supply' = Supply /\ block' = block
    BY <1>3, RevoteFixBalances DEF RevoteFix, chainVars
  <1>4. ASSUME NEW k \in Key, OutFixVote(v, k)
        PROVE  Supply' = Supply /\ block' = block
    BY <1>4, OutFixVoteBalances DEF OutFixVote, chainVars
  <1>5. QED
    BY <1>1, <1>2, <1>3, <1>4

LEMMA StillBalances ==
    ASSUME IInv, IInv', UNCHANGED <<available, votes, fixvotes>>, NEW p \in Int,
           PoolMoney(bps') = PoolMoney(bps) + p
    PROVE  Supply' - Supply = p /\ PoolSum' - PoolSum = p
  <1>1. /\ Held(available') = Held(available) + 0 /\ VoteMoney(votes') = VoteMoney(votes) + 0
        /\ FixMoney(fixvotes') = FixMoney(fixvotes) + 0
    BY MoneyNow
  <1>2. Supply' - Supply = 0 + 0 + 0 + p /\ PoolSum' - PoolSum = p
    BY <1>1, Balance
  <1>3. QED
    BY <1>2

LEMMA ChainNextBalances ==
    ASSUME IInv, IInv', ChainNext
    PROVE  Supply' - Supply = IF block' = block THEN 0 ELSE PoolSum' - PoolSum
  <1>1. UNCHANGED <<available, votes, fixvotes>>
    BY DEF ChainNext, OnBlock, OnBlockShort, RemoveBP, ActFreezed, ActConfirmed, voteVars
  <1>2. PoolMoney(bps) \in Int /\ PoolMoney(bps') \in Int
    <2>1. bps \in BPTable /\ bps' \in BPTable /\ available \in [Voter -> Nat] /\ votes \in VoteTable
          /\ fixvotes \in FixTable
      BY InvTabled, InvTabledAfter DEF Tabled
    <2>2. QED
      BY <2>1, MoneyInt
  <1>3. PICK p \in Int : p = PoolMoney(bps') - PoolMoney(bps)
    BY <1>2
  <1>4. Supply' - Supply = p /\ PoolSum' - PoolSum = p
    <2>1. PoolMoney(bps') = PoolMoney(bps) + p
      BY <1>2, <1>3
    <2>2. QED
      BY <1>1, <2>1, StillBalances
  <1>5. block' = block => p = 0
    <2>1. block \in Nat
      BY DEF IInv, Core
    <2>2. block' = block => UNCHANGED bps
      BY <2>1 DEF ChainNext, OnBlock, OnBlockShort, RemoveBP, ActFreezed, ActConfirmed
    <2>3. QED
      BY <1>2, <1>3, <2>2
  <1>6. QED
    BY <1>4, <1>5

LEMMA ClearedStep ==
    ASSUME IInv, Cleared, [Next]_vars
    PROVE  Cleared'
  <1>1. fixvotes \in FixTable
    BY InvTabled DEF Tabled
  <1>2. SUFFICES ASSUME NEW j \in Voter \X Key, fixvotes'[j].is_withdraw \/ ~Exists(fixvotes'[j])
                 PROVE  fixvotes'[j].vote = 0
    BY DEF Cleared
  <1>3. CASE fixvotes'[j] = fixvotes[j]
    BY <1>2, <1>3 DEF Cleared
  <1>4. CASE VoteNext
    <2>1. PICK v, b : UNCHANGED fixvotes \/ Claim(v, b)
      <3>1. \A t, v, b, stake : VoteByTyp(t, v, b, stake) => UNCHANGED fixvotes
        BY DEF VoteByTyp
      <3>2. \A v, b, to, restake : Revote(v, b, to, restake) => UNCHANGED fixvotes
        BY DEF Revote
      <3>3. \A t, v, b : UnfreezeByTyp(t, v, b) => UNCHANGED fixvotes
        BY DEF UnfreezeByTyp
      <3>4. QED
        BY <1>4, <3>1, <3>2, <3>3 DEF VoteNext, Vote, Vote4Ram, Unfreeze, UnfreezeRam
    <2>2. \/ fixvotes'[j] = fixvotes[j]
          \/ fixvotes'[j] = NoFix
          \/ fixvotes'[j] = FixCleanAge(fixvotes[j], block)
      BY <2>1 DEF Claim
    <2>3. NoFix.vote = 0
      BY DEF NoFix
    <2>4. LET f == FixCleanAge(fixvotes[j], block)
          IN  /\ f.vote = fixvotes[j].vote /\ f.is_withdraw = fixvotes[j].is_withdraw
              /\ f.bpname = fixvotes[j].bpname
      BY <1>1 DEF FixCleanAge, CleanAge, FixTable, FixRow
    <2>5. QED
      BY <1>2, <1>3, <2>2, <2>3, <2>4 DEF Cleared, Exists
  <1>5. CASE FixNext
    <2>1. PICK v \in Voter :
              \/ \E b \in BP, type \in FixType, stake \in FixStakes :
                    VoteFixAvailable(v, b, type, stake) \/ VoteFixUnstaking(v, b, type, stake)
              \/ \E k \in Key, b \in BP : RevoteFix(v, k, b)
              \/ \E k \in Key : OutFixVote(v, k)
      BY <1>5 DEF FixNext
    <2>2. ASSUME NEW b \in BP, NEW type, NEW stake, AddFixVote(v, b, type, stake)
          PROVE  fixvotes'[j] = fixvotes[j] \/ (Exists(fixvotes'[j]) /\ ~fixvotes'[j].is_withdraw)
      <3> DEFINE row == [bpname |-> b, staked |-> stake * FixPower[type], age |-> 0,
                         update_height |-> block, vote |-> stake,
                         withdraw |-> block + FixBlocks[type], is_withdraw |-> FALSE]
      <3>1. PICK key \in Key : fixvotes' = [fixvotes EXCEPT ![<<v, key>>] = row]
        BY <2>2 DEF AddFixVote
      <3>2. Exists(row) /\ ~row.is_withdraw
        BY NoBPAssumption DEF Exists
      <3> HIDE DEF row
      <3>3. QED
        BY <1>1, <3>1, <3>2 DEF FixTable
    <2>3. ASSUME NEW k \in Key, NEW b \in BP, RevoteFix(v, k, b)
          PROVE  fixvotes'[j] = fixvotes[j] \/ (Exists(fixvotes'[j]) /\ ~fixvotes'[j].is_withdraw)
      <3> DEFINE f == fixvotes[<<v, k>>]
                 new == [FixCleanAge(f, block) EXCEPT !.bpname = b]
      <3>1. ~f.is_withdraw /\ fixvotes' = [fixvotes EXCEPT ![<<v, k>>] = new] /\ f \in FixRow
        BY <1>1, <2>3 DEF RevoteFix, FixTable
      <3>2. new.bpname = b /\ new.is_withdraw = f.is_withdraw
        BY <3>1 DEF FixCleanAge, CleanAge, FixRow
      <3> HIDE DEF new, f
      <3>3. QED
        BY <1>1, <3>1, <3>2, NoBPAssumption DEF FixTable, Exists
    <2>4. ASSUME NEW k \in Key, OutFixVote(v, k)
          PROVE  fixvotes'[j] = fixvotes[j] \/ fixvotes'[j].vote = 0
      BY <1>1, <2>4 DEF OutFixVote, FixTable, FixRow
    <2>5. QED
      BY <1>2, <1>3, <2>1, <2>2, <2>3, <2>4 DEF VoteFixAvailable, VoteFixUnstaking
  <1>6. CASE TransferNext \/ ChainNext \/ UNCHANGED vars
    <2>1. UNCHANGED fixvotes
      BY <1>6 DEF TransferNext, Transfer, ChainNext, OnBlock, OnBlockShort, RemoveBP, ActFreezed,
                  ActConfirmed, voteVars, vars
    <2>2. QED
      BY <1>3, <2>1
  <1>7. QED
    BY <1>4, <1>5, <1>6 DEF Next

\* No call of the contract creates or destroys core tokens.
THEOREM SupplyAlwaysConserved == Spec => SupplyConserved
  <1> DEFINE Good == Supply' - Supply = IF block' = block THEN 0 ELSE PoolSum' - PoolSum
  <1>1. Init => IInv /\ Cleared
    <2>1. Init => IInv
      BY Initial
    <2>2. Init => \A i \in Voter \X Key : fixvotes[i] = NoFix
      BY DEF Init
    <2>3. NoFix.vote = 0
      BY DEF NoFix
    <2>4. QED
      BY <2>1, <2>2, <2>3 DEF Cleared
  <1>2. IInv /\ Cleared /\ [Next]_vars => IInv' /\ Cleared'
    BY Step, ClearedStep
  <1>3. IInv /\ Cleared /\ [Next]_vars => [Good]_vars
    <2> SUFFICES ASSUME IInv, Cleared, Next PROVE Good
      OBVIOUS
    <2>1. IInv'
      BY Step
    <2>2. CASE TransferNext
      <3>1. Supply' = Supply
        BY <2>1, <2>2, TransferBalances DEF TransferNext
      <3>2. block' = block
        BY <2>2 DEF TransferNext, Transfer, chainVars
      <3>3. QED
        BY <3>1, <3>2, SupplyInt DEF SupplyWhole
    <2>3. CASE VoteNext \/ FixNext
      <3>1. Supply' = Supply /\ block' = block
        BY <2>1, <2>3, VoteNextBalances, FixNextBalances
      <3>2. QED
        BY <3>1, SupplyInt DEF SupplyWhole
    <2>4. CASE ChainNext
      BY <2>1, <2>4, ChainNextBalances
    <2>5. QED
      BY <2>2, <2>3, <2>4 DEF Next
  <1>4. QED
    BY <1>1, <1>2, <1>3, PTL DEF Spec, SupplyConserved

-----------------------------------------------------------------------------
(* Unstaking *)

\* What a step may do to a row: it gives it an unstaking height of this block,
\* or adds nothing to what is unstaking; and what was freed had waited.
Unstakes(i) ==
    /\ \/ votes'[i].unstake_height = block
       \/ /\ votes'[i].unstake_height = votes[i].unstake_height
          /\ votes'[i].unstaking <= votes[i].unstaking
    /\ votes'[i].unstaking < votes[i].unstaking /\ available'[i[2]] > available[i[2]]
         => block > votes[i].unstake_height + FROZEN_DELAY

\* The unstaking heights are not before the last growth.
Waited ==
    /\ unstakedAt \in [Tables \X Voter \X BP -> Nat]
    /\ \A i \in Tables \X Voter \X BP :
          unstakedAt[i] <= votes[i].unstake_height /\ unstakedAt[i] <= block

LEMMA UnstakesSame ==
    ASSUME IInv, NEW i \in Tables \X Voter \X BP,
           votes'[i].unstaking = votes[i].unstaking,
           votes'[i].unstake_height = votes[i].unstake_height
    PROVE  Unstakes(i)
  <1>1. votes[i].unstaking \in Nat
    BY DEF IInv, Core, VotesOK, VoteTable, VoteRow
  <1>2. QED
    BY <1>1 DEF Unstakes

\* One row changes, in one of the ways of the code.
LEMMA UnstakesOne ==
    ASSUME IInv, NEW j \in Tables \X Voter \X BP, NEW row,
           votes' = [votes EXCEPT ![j] = row],
           NEW i \in Tables \X Voter \X BP,
           \/ row.unstaking = votes[j].unstaking
              /\ row.unstake_height = votes[j].unstake_height
           \/ row.unstake_height = block /\ row.unstaking \in Nat
              /\ row.unstaking >= votes[j].unstaking
           \/ /\ row.unstake_height = votes[j].unstake_height
              /\ row.unstaking \in Nat /\ row.unstaking <= votes[j].unstaking
              /\ \/ available' = available
                 \/ block > votes[j].unstake_height + FROZEN_DELAY
    PROVE  Unstakes(i)
  <1>1. /\ votes \in VoteTable /\ votes[i].unstaking \in Nat /\ votes[j].unstaking \in Nat
        /\ available \in [Voter -> Nat] /\ i[2] \in Voter
    BY DEF IInv, Core, VotesOK, VoteTable, VoteRow, Rest
  <1>2. votes'[i] = IF i = j THEN row ELSE votes[i]
    BY <1>1 DEF VoteTable
  <1>3. CASE i # j
    BY <1>2, <1>3, UnstakesSame
  <1>4. CASE i = j
    <2>1. votes'[i] = row
      BY <1>2, <1>4
    <2>2. CASE row.unstaking = votes[j].unstaking
               /\ row.unstake_height = votes[j].unstake_height
      BY <1>4, <2>1, <2>2, UnstakesSame
    <2>3. CASE row.unstake_height = block /\ row.unstaking \in Nat
               /\ row.unstaking >= votes[j].unstaking
      <3>1. ~(row.unstaking < votes[i].unstaking)
        BY <1>1, <1>4, <2>3
      <3>2. QED
        BY <2>1, <2>3, <3>1 DEF Unstakes
    <2>4. CASE /\ row.unstake_height = votes[j].unstake_height
               /\ row.unstaking \in Nat /\ row.unstaking <= votes[j].unstaking
               /\ available' = available
      <3>1. ~(available'[i[2]] > available[i[2]])
        BY <1>1, <2>4
      <3>2. QED
        BY <1>4, <2>1, <2>4, <3>1 DEF Unstakes
    <2>5. CASE /\ row.unstake_height = votes[j].unstake_height
               /\ row.unstaking \in Nat /\ row.unstaking <= votes[j].unstaking
               /\ block > votes[j].unstake_height + FROZEN_DELAY
      BY <1>4, <2>1, <2>5 DEF Unstakes
    <2>6. QED
      BY <2>2, <2>3, <2>4, <2>5
  <1>5. QED
    BY <1>3, <1>4

LEMMA UnstakesVoteNext ==
    ASSUME IInv, VoteNext, NEW i \in Tables \X Voter \X BP
    PROVE  Unstakes(i) /\ block' = block
  <1>1. votes \in VoteTable /\ available \in [Voter -> Nat]
        /\ \A j \in Tables \X Voter \X BP :
              votes[j] \in VoteRow /\ votes[j].unstaking \in Nat /\ votes[j].staked \in Nat
    BY DEF IInv, Core, VotesOK, VoteTable, VoteRow, Rest
  <1>2. PICK w \in Voter, b \in BP :
            \/ \E stake \in Stakes : Vote(w, b, stake)
            \/ \E stake \in RamStakes : Vote4Ram(w, b, stake)
            \/ \E to \in BP, restake \in Stakes : Revote(w, b, to, restake)
            \/ Unfreeze(w, b)
            \/ UnfreezeRam(w, b)
            \/ Claim(w, b)
    BY DEF VoteNext
  <1>3. ASSUME NEW t \in Tables, NEW stake \in Int, VoteByTyp(t, w, b, stake)
        PROVE  Unstakes(i) /\ block' = block
    <2> DEFINE j == <<t, w, b>>
               change == stake - votes[j].staked
               restaked == ChangeStakedTo(votes[j], block, stake)
               row == IF change < 0 THEN AddUnstaking(restaked, block, -change) ELSE restaked
    <2>1. j \in Tables \X Voter \X BP /\ change \in Int
      BY <1>1
    <2>2. votes' = [votes EXCEPT ![j] = row] /\ block' = block
      BY <1>3 DEF VoteByTyp, chainVars
    <2>3. /\ restaked.unstaking = votes[j].unstaking
          /\ restaked.unstake_height = votes[j].unstake_height
      BY <1>1, <2>1 DEF ChangeStakedTo, VoteRow
    <2>4. change < 0 => /\ row.unstake_height = block
                        /\ row.unstaking = votes[j].unstaking + (-change)
      <3>1. restaked = [restaked EXCEPT !.age = restaked.age]
            /\ AddUnstaking(restaked, block, -change).unstake_height = block
            /\ AddUnstaking(restaked, block, -change).unstaking = restaked.unstaking + (-change)
        BY <1>1, <2>1 DEF AddUnstaking, ChangeStakedTo, VoteRow
      <3> HIDE DEF restaked, change, j
      <3>2. QED
        BY <2>3, <3>1
    <2>5. votes[j].unstaking \in Nat
      BY <1>1, <2>1
    <2> HIDE DEF restaked, change
    <2>6. CASE change < 0
      <3>1. row.unstaking \in Nat /\ row.unstaking >= votes[j].unstaking
        BY <2>1, <2>4, <2>5, <2>6
      <3> HIDE DEF row, j
      <3>2. QED
        BY <2>1, <2>2, <2>4, <2>6, <3>1, UnstakesOne
    <2>7. CASE ~(change < 0)
      <3>1. row.unstaking = votes[j].unstaking /\ row.unstake_height = votes[j].unstake_height
        BY <2>3, <2>7
      <3> HIDE DEF row, j
      <3>2. QED
        BY <2>1, <2>2, <3>1, UnstakesOne
    <2>8. QED
      BY <2>6, <2>7
  <1>4. ASSUME NEW to \in BP, NEW restake, Revote(w, b, to, restake)
        PROVE  Unstakes(i) /\ block' = block
    <2> DEFINE j == <<"votes", w, b>>
               k == <<"votes", w, to>>
               r1 == ChangeStakedTo(votes[j], block, votes[j].staked - restake)
               r2 == ChangeStakedTo(votes[k], block, votes[k].staked + restake)
    <2>1. j \in Tables \X Voter \X BP /\ k \in Tables \X Voter \X BP
      BY DEF Tables
    <2>2. votes' = [votes EXCEPT ![j] = r1, ![k] = r2] /\ block' = block
      BY <1>4 DEF Revote, chainVars
    <2>3. /\ r1.unstaking = votes[j].unstaking /\ r1.unstake_height = votes[j].unstake_height
          /\ r2.unstaking = votes[k].unstaking /\ r2.unstake_height = votes[k].unstake_height
      BY <1>1, <2>1 DEF ChangeStakedTo, VoteRow
    <2> HIDE DEF j, k, r1, r2
    <2>4. votes'[i] = IF i = k THEN r2 ELSE IF i = j THEN r1 ELSE votes[i]
      BY <1>1, <2>1, <2>2 DEF VoteTable
    <2>5. /\ votes'[i].unstaking = votes[i].unstaking
          /\ votes'[i].unstake_height = votes[i].unstake_height
      BY <2>3, <2>4
    <2>6. QED
      BY <2>2, <2>5, UnstakesSame
  <1>5. ASSUME NEW t \in Tables, UnfreezeByTyp(t, w, b)
        PROVE  Unstakes(i) /\ block' = block
    <2> DEFINE j == <<t, w, b>>
               row == [votes[j] EXCEPT !.unstaking = 0]
    <2>1. j \in Tables \X Voter \X BP
      OBVIOUS
    <2>2. /\ votes' = [votes EXCEPT ![j] = row] /\ block' = block
          /\ votes[j].unstake_height + FROZEN_DELAY < block
      BY <1>1, <1>5, <2>1 DEF UnfreezeByTyp, chainVars, VoteTable
    <2>3. votes[j].unstake_height \in Nat /\ FROZEN_DELAY \in Nat /\ block \in Nat
      BY <1>1, <2>1, NumberAssumption DEF VoteRow, IInv, Core
    <2>4. /\ row.unstake_height = votes[j].unstake_height
          /\ row.unstaking \in Nat /\ row.unstaking <= votes[j].unstaking
      BY <1>1, <2>1 DEF VoteRow
    <2>5. block > votes[j].unstake_height + FROZEN_DELAY
      BY <2>2, <2>3
    <2> HIDE DEF j, row
    <2>6. QED
      BY <2>1, <2>2, <2>4, <2>5, UnstakesOne
  <1>6. CASE Claim(w, b)
    <2> DEFINE j == <<"votes", w, b>>
               row == CleanAge(votes[j], block)
    <2>1. j \in Tables \X Voter \X BP
      BY DEF Tables
    <2>2. votes' = [votes EXCEPT ![j] = row] /\ block' = block
      BY <1>6 DEF Claim, chainVars
    <2>3. row.unstaking = votes[j].unstaking /\ row.unstake_height = votes[j].unstake_height
      BY <1>1, <2>1 DEF CleanAge, VoteRow
    <2> HIDE DEF j, row
    <2>4. QED
      BY <2>1, <2>2, <2>3, UnstakesOne
  <1>7. Stakes \subseteq Int /\ RamStakes \subseteq Int /\ "votes" \in Tables
        /\ "votes4ram" \in Tables
    BY AmountAssumption DEF Tables
  <1>8. QED
    BY <1>2, <1>3, <1>4, <1>5, <1>6, <1>7 DEF Vote, Vote4Ram, Unfreeze, UnfreezeRam

LEMMA UnstakesFixNext ==
    ASSUME IInv, FixNext, NEW i \in Tables \X Voter \X BP
    PROVE  Unstakes(i) /\ block' = block
  <1>1. /\ votes \in VoteTable /\ fixvotes \in FixTable /\ FixStakes \subseteq Int
        /\ \A j \in Tables \X Voter \X BP : votes[j] \in VoteRow /\ votes[j].unstaking \in Nat
    BY AmountAssumption DEF IInv, Core, VotesOK, FixesOK, VoteTable, VoteRow, Rest
  <1>2. PICK w \in Voter :
            \/ \E b \in BP, type \in FixType, stake \in FixStakes :
                  VoteFixAvailable(w, b, type, stake) \/ VoteFixUnstaking(w, b, type, stake)
            \/ \E k \in Key, b \in BP : RevoteFix(w, k, b)
            \/ \E k \in Key : OutFixVote(w, k)
    BY DEF FixNext
  <1>3. ASSUME NEW b \in BP, NEW type \in FixType, NEW stake \in FixStakes,
               VoteFixAvailable(w, b, type, stake)
        PROVE  Unstakes(i) /\ block' = block
    <2>1. votes' = votes /\ block' = block
      BY <1>3 DEF VoteFixAvailable, AddFixVote, chainVars
    <2>2. QED
      BY <2>1, UnstakesSame
  <1>4. ASSUME NEW b \in BP, NEW type \in FixType, NEW stake \in FixStakes,
               VoteFixUnstaking(w, b, type, stake)
        PROVE  Unstakes(i) /\ block' = block
    <2> DEFINE j == <<"votes", w, b>>
               row == [votes[j] EXCEPT !.unstaking = votes[j].unstaking - stake]
    <2>1. j \in Tables \X Voter \X BP
      BY DEF Tables
    <2>2. /\ votes' = [votes EXCEPT ![j] = row] /\ block' = block /\ available' = available
          /\ 0 < stake /\ stake < votes[j].unstaking
      BY <1>1, <1>4, <2>1 DEF VoteFixUnstaking, AddFixVote, chainVars, VoteTable
    <2>3. stake \in Int /\ votes[j].unstaking \in Nat /\ votes[j] \in VoteRow
      BY <1>1, <2>1
    <2>4. row.unstake_height = votes[j].unstake_height
          /\ row.unstaking = votes[j].unstaking - stake
      BY <2>3 DEF VoteRow
    <2>5. row.unstaking \in Nat /\ row.unstaking <= votes[j].unstaking
      <3> HIDE DEF row, j
      <3>1. QED
        BY <2>2, <2>3, <2>4
    <2> HIDE DEF j, row
    <2>6. QED
      BY <2>1, <2>2, <2>4, <2>5, UnstakesOne
  <1>5. ASSUME NEW k \in Key, NEW b \in BP, RevoteFix(w, k, b)
        PROVE  Unstakes(i) /\ block' = block
    <2>1. votes' = votes /\ block' = block
      BY <1>5 DEF RevoteFix, chainVars
    <2>2. QED
      BY <2>1, UnstakesSame
  <1>6. ASSUME NEW k \in Key, OutFixVote(w, k)
        PROVE  Unstakes(i) /\ block' = block
    <2> DEFINE f == fixvotes[<<w, k>>]
               j == <<"votes", w, f.bpname>>
               row == AddUnstaking(votes[j], block, f.vote)
    <2>1. f.bpname \in BP /\ f.vote \in Nat
      BY <1>1, <1>6 DEF OutFixVote, Exists, FixTable, FixRow
    <2>2. j \in Tables \X Voter \X BP
      BY <2>1 DEF Tables
    <2>3. votes' = [votes EXCEPT ![j] = row] /\ block' = block
      BY <1>6 DEF OutFixVote, chainVars
    <2>4. votes[j] \in VoteRow /\ votes[j].unstaking \in Nat
      BY <1>1, <2>2
    <2>5. row.unstake_height = block /\ row.unstaking = votes[j].unstaking + f.vote
      <3> HIDE DEF j, f
      <3>1. QED
        BY <2>4 DEF AddUnstaking, VoteRow
    <2>6. row.unstaking \in Nat /\ row.unstaking >= votes[j].unstaking
      <3> HIDE DEF row, j, f
      <3>1. QED
        BY <2>1, <2>4, <2>5
    <2> HIDE DEF j, row, f
    <2>7. QED
      BY <2>2, <2>3, <2>5, <2>6, UnstakesOne
  <1>7. QED
    BY <1>2, <1>3, <1>4, <1>5, <1>6

LEMMA UnstakesNext ==
    ASSUME IInv, IInv', Next
    PROVE  (\A i \in Tables \X Voter \X BP : Unstakes(i)) /\ block \in Nat /\ block' \in Nat
           /\ block <= block'
  <1>1. block \in Nat /\ block' \in Nat
    BY DEF IInv, Core
  <1>2. CASE VoteNext
    <2>1. block' = block
      BY <1>2, ChainKept DEF chainVars
    <2>2. QED
      BY <1>1, <1>2, <2>1, UnstakesVoteNext
  <1>3. CASE FixNext
    <2>1. block' = block
      BY <1>3, ChainKept DEF chainVars
    <2>2. QED
      BY <1>1, <1>3, <2>1, UnstakesFixNext
  <1>4. CASE TransferNext \/ ChainNext
    <2>1. votes' = votes /\ (block' = block \/ block' = block + 1)
      <3>1. CASE TransferNext
        BY <3>1 DEF TransferNext, Transfer, voteVars, chainVars
      <3>2. CASE ChainNext
        BY <3>2 DEF ChainNext, OnBlock, OnBlockShort, RemoveBP, ActFreezed, ActConfirmed,
                    voteVars
      <3>3. QED
        BY <1>4, <3>1, <3>2
    <2>2. QED
      BY <1>1, <2>1, UnstakesSame
  <1>5. QED
    BY <1>2, <1>3, <1>4 DEF Next

\* The history changes nothing of what Vote does.
THEOREM HistoryInvariance == HSpec => []IInv
  <1>1. HInit => IInv
    BY Initial DEF HInit
  <1>2. IInv /\ [HNext]_<<vars, unstakedAt>> => IInv'
    <2>1. [HNext]_<<vars, unstakedAt>> => [Next]_vars
      BY DEF HNext
    <2>2. QED
      BY <2>1, Step
  <1>3. QED
    BY <1>1, <1>2, PTL DEF HSpec

\* An amount that was unstaked is not available again before FROZEN_DELAY
\* blocks have passed since the last call that added to it, whatever other
\* calls there were on its row (vote.cpp:46, 135).
THEOREM UnstakedAlwaysWaits == HSpec => ThawDelay
  <1> DEFINE hvars == <<vars, unstakedAt>>
             Delayed == \A t \in Tables, v \in Voter, b \in BP :
                /\ votes'[<<t, v, b>>].unstaking < votes[<<t, v, b>>].unstaking
                /\ available'[v] > available[v]
                => block > unstakedAt[<<t, v, b>>] + FROZEN_DELAY
  <1>1. HInit => Waited
    <2> SUFFICES ASSUME HInit PROVE Waited
      OBVIOUS
    <2>1. IInv
      BY Initial DEF HInit
    <2>2. /\ block \in Nat
          /\ \A i \in Tables \X Voter \X BP : votes[i].unstake_height \in Nat
      BY <2>1 DEF IInv, Core, VotesOK, VoteTable, VoteRow
    <2>3. unstakedAt = [i \in Tables \X Voter \X BP |-> 0]
      BY DEF HInit
    <2>4. QED
      BY <2>2, <2>3 DEF Waited
  <1>2. IInv /\ IInv' /\ Waited /\ [HNext]_hvars => Waited'
    <2> SUFFICES ASSUME IInv, IInv', Waited, [HNext]_hvars PROVE Waited'
      OBVIOUS
    <2>1. CASE UNCHANGED hvars
      <3>1. votes' = votes /\ block' = block /\ unstakedAt' = unstakedAt
        BY <2>1 DEF vars, voteVars, chainVars
      <3>2. QED
        BY <3>1 DEF Waited
    <2>2. CASE HNext
      <3>1. (\A i \in Tables \X Voter \X BP : Unstakes(i)) /\ block \in Nat /\ block' \in Nat
            /\ block <= block'
        BY <2>2, UnstakesNext DEF HNext
      <3>2. unstakedAt' = [i \in Tables \X Voter \X BP |->
                             IF Grew(i) THEN block ELSE unstakedAt[i]]
        BY <2>2 DEF HNext
      <3>3. ASSUME NEW i \in Tables \X Voter \X BP
            PROVE  /\ unstakedAt'[i] \in Nat
                   /\ unstakedAt'[i] <= votes'[i].unstake_height /\ unstakedAt'[i] <= block'
        <4>1. /\ unstakedAt[i] \in Nat /\ unstakedAt[i] <= votes[i].unstake_height
              /\ unstakedAt[i] <= block
          BY DEF Waited
        <4>2. votes[i].unstake_height \in Nat /\ votes[i].unstaking \in Nat
              /\ votes'[i].unstake_height \in Nat /\ votes'[i].unstaking \in Nat
          BY DEF IInv, Core, VotesOK, VoteTable, VoteRow
        <4>3. Unstakes(i)
          BY <3>1
        <4>4. CASE votes'[i].unstake_height = block
          <5>1. unstakedAt'[i] = block \/ unstakedAt'[i] = unstakedAt[i]
            BY <3>2
          <5>2. QED
            BY <3>1, <4>1, <4>4, <5>1
        <4>5. CASE /\ votes'[i].unstake_height = votes[i].unstake_height
                   /\ votes'[i].unstaking <= votes[i].unstaking
          <5>1. unstakedAt'[i] = unstakedAt[i]
            BY <3>2, <4>2, <4>5 DEF Grew
          <5>2. QED
            BY <3>1, <4>1, <4>2, <4>5, <5>1
        <4>6. QED
          BY <4>3, <4>4, <4>5 DEF Unstakes
      <3>4. unstakedAt' \in [Tables \X Voter \X BP -> Nat]
        BY <3>2, <3>3
      <3>5. QED
        BY <3>3, <3>4 DEF Waited
    <2>3. QED
      BY <2>1, <2>2
  <1>3. IInv /\ IInv' /\ Waited /\ [HNext]_hvars => [Delayed]_hvars
    <2> SUFFICES ASSUME IInv, IInv', Waited, HNext,
                        NEW t \in Tables, NEW v \in Voter, NEW b \in BP,
                        votes'[<<t, v, b>>].unstaking < votes[<<t, v, b>>].unstaking,
                        available'[v] > available[v]
                 PROVE  block > unstakedAt[<<t, v, b>>] + FROZEN_DELAY
      OBVIOUS
    <2>1. PICK i \in Tables \X Voter \X BP : i = <<t, v, b>> /\ i[2] = v
      OBVIOUS
    <2>2. Unstakes(i) /\ block \in Nat
      BY UnstakesNext DEF HNext
    <2>3. block > votes[i].unstake_height + FROZEN_DELAY
      BY <2>1, <2>2 DEF Unstakes
    <2>4. /\ unstakedAt[i] \in Nat /\ unstakedAt[i] <= votes[i].unstake_height
          /\ votes[i].unstake_height \in Nat /\ FROZEN_DELAY \in Nat
      BY NumberAssumption DEF Waited, IInv, Core, VotesOK, VoteTable, VoteRow
    <2>5. block > unstakedAt[i] + FROZEN_DELAY
      BY <2>2, <2>3, <2>4
    <2>6. QED
      BY <2>1, <2>5
  <1>4. QED
    BY <1>1, <1>2, <1>3, HistoryInvariance, PTL DEF HSpec, ThawDelay
=============================================================================
