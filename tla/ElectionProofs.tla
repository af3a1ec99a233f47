--------------------------- MODULE ElectionProofs ---------------------------
(***************************************************************************)
(* Proofs about Election: that inserting the candidates one by one, by     *)
(* index, into a vector that is cut off behind NUM_OF_TOP_BPS entries,     *)
(* elects exactly the best of them, for any number of candidates and any   *)
(* votes; and that the schedules keep their type.                          *)
(*                                                                         *)
(* What the loop of update_elected_bps has after each row is described by  *)
(* TopOf, which counts nothing: the vector is in the order of ranks, it is *)
(* full or holds all candidates so far, and all in it outrank the others.  *)
(***************************************************************************)
EXTENDS Election, Sums, SequenceTheorems

-----------------------------------------------------------------------------
(* Least and greatest members *)

LEMMA LeastMember ==
    ASSUME NEW m \in Nat, NEW B \in SUBSET (0..m), B # {}
    PROVE  \E n \in B : \A k \in B : n <= k
  <1> DEFINE F == {0..n : n \in B}
  <1>1. IsFiniteSet(0..m)
    BY FS_Interval
  <1>2. F \in SUBSET (SUBSET (0..m)) /\ F # {}
    <2>1. \A n \in B : 0..n \subseteq 0..m
      OBVIOUS
    <2>2. QED
      BY <2>1
  <1>3. PICK T \in F : \A U \in F : ~(U \subseteq T /\ U # T)
    <2>1. PICK I : I = 0..m
      OBVIOUS
    <2>2. PICK G : G = F
      OBVIOUS
    <2>3. IsFiniteSet(I)
      BY <1>1, <2>1
    <2>4. G \in SUBSET (SUBSET I)
      BY <1>2, <2>1, <2>2
    <2>5. G # {}
      BY <1>2, <2>2
    <2>6. \E T \in G : \A U \in G : ~(U \subseteq T /\ U # T)
      BY <2>3, <2>4, <2>5, MinimalSubset
    <2>7. QED
      BY <2>2, <2>6
  <1>4. PICK n \in B : T = 0..n
    BY <1>3
  <1>5. ASSUME NEW k \in B, k < n PROVE FALSE
    <2>1. 0..k \in F /\ 0..k \subseteq T
      BY <1>4, <1>5
    <2>2. n \in 0..n /\ n \notin 0..k
      BY <1>5
    <2>3. QED
      BY <1>3, <1>4, <2>1, <2>2
  <1>6. QED
    BY <1>5

LEMMA GreatestMember ==
    ASSUME NEW S \in SUBSET Nat, IsFiniteSet(S), S # {}
    PROVE  \E x \in S : \A y \in S : y <= x
  <1> DEFINE above(x) == {y \in S : y > x}
             F == {above(x) : x \in S}
  <1>1. F \in SUBSET (SUBSET S) /\ F # {}
    OBVIOUS
  <1>2. PICK T \in F : \A U \in F : ~(U \subseteq T /\ U # T)
    <2>1. PICK I : I = S
      OBVIOUS
    <2>2. PICK G : G = F
      OBVIOUS
    <2>3. IsFiniteSet(I)
      BY <2>1
    <2>4. G \in SUBSET (SUBSET I)
      BY <1>1, <2>1, <2>2
    <2>5. G # {}
      BY <1>1, <2>2
    <2>6. \E T \in G : \A U \in G : ~(U \subseteq T /\ U # T)
      BY <2>3, <2>4, <2>5, MinimalSubset
    <2>7. QED
      BY <2>2, <2>6
  <1>3. PICK x \in S : T = above(x)
    BY <1>2
  <1>4. ASSUME NEW y \in S, y > x PROVE FALSE
    <2>1. x \in Nat /\ y \in Nat
      OBVIOUS
    <2>2. above(y) \in F
      OBVIOUS
    <2>3. ASSUME NEW z \in above(y) PROVE z \in above(x)
      <3>1. z \in S /\ z \in Nat /\ z > y
        OBVIOUS
      <3>2. z > x
        BY <1>4, <2>1, <3>1
      <3>3. QED
        BY <3>1, <3>2
    <2>4. above(y) \subseteq above(x)
      BY <2>3
    <2>5. y \in above(x) /\ y \notin above(y)
      BY <1>4, <2>1
    <2> HIDE DEF above, F
    <2>6. QED
      BY <1>2, <1>3, <2>2, <2>4, <2>5
  <1>5. QED
    BY <1>4

LEMMA MaxOfNaturals ==
    ASSUME NEW S \in SUBSET Nat, IsFiniteSet(S), S # {}
    PROVE  Max(S) \in S /\ \A y \in S : y <= Max(S)
  <1>1. \E x \in S : \A y \in S : x >= y
    BY GreatestMember
  <1>2. QED
    BY <1>1 DEF Max

LEMMA MinOfInterval ==
    ASSUME NEW m \in Nat, NEW B \in SUBSET (0..m), B # {}
    PROVE  Min(B) \in B /\ \A k \in B : Min(B) <= k
  <1>1. \E x \in B : \A y \in B : x =< y
    BY LeastMember
  <1>2. QED
    BY <1>1 DEF Min

-----------------------------------------------------------------------------
(* The loop over the rows of producers *)

\* The recursive equation behind VoteSchedule.
AfterRow(g, n) ==
    IF n = 0 THEN <<>>
    ELSE IF n \in Candidates THEN Insert(n)[g[n - 1]] ELSE g[n - 1]
IsAfter(g, m) == g = [n \in 0..m |-> AfterRow(g, n)]

LEMMA ScheduleIsAfter ==
    VoteSchedule = (CHOOSE g : IsAfter(g, Max(Producer)))[Max(Producer)]
    BY DEF VoteSchedule, IsAfter, AfterRow

LEMMA AfterExists ==
    ASSUME NEW m \in Nat
    PROVE  \E g : IsAfter(g, m)
  <1> DEFINE Bad == {n \in 0..m : ~ \E g : IsAfter(g, n)}
  <1>1. SUFFICES ASSUME Bad # {} PROVE FALSE
    OBVIOUS
  <1>2. PICK n \in Bad : \A k \in Bad : n <= k
    <2>1. Bad \in SUBSET (0..m)
      OBVIOUS
    <2> HIDE DEF Bad
    <2>2. QED
      BY <1>1, <2>1, LeastMember
  <1>3. n \in Nat /\ n <= m /\ ~ \E g : IsAfter(g, n)
    BY <1>2
  <1>4. CASE n = 0
    <2> DEFINE g == [k \in 0..n |-> <<>>]
    <2>1. g = [k \in 0..n |-> AfterRow(g, k)]
      BY <1>4 DEF AfterRow
    <2> HIDE DEF g
    <2>2. QED
      BY <1>3, <2>1 DEF IsAfter
  <1>5. CASE n # 0
    <2>1. n - 1 \in 0..m /\ n - 1 \notin Bad
      BY <1>2, <1>3, <1>5
    <2>2. PICK g : IsAfter(g, n - 1)
      BY <2>1
    <2> DEFINE h == [k \in 0..n |-> IF k = n THEN AfterRow(g, n) ELSE g[k]]
    <2>3. ASSUME NEW k \in 0..n
          PROVE  h[k] = AfterRow(h, k)
      <3>1. CASE k = n
        <4>1. h[k] = AfterRow(g, n) /\ h[n - 1] = g[n - 1]
          BY <1>3, <1>5, <3>1
        <4> HIDE DEF h
        <4>2. QED
          BY <1>5, <3>1, <4>1 DEF AfterRow
      <3>2. CASE k # n
        <4>1. k \in 0..(n - 1) /\ h[k] = g[k] /\ (k # 0 => h[k - 1] = g[k - 1])
          BY <1>3, <3>2
        <4>2. g[k] = AfterRow(g, k)
          BY <2>2, <4>1 DEF IsAfter
        <4> HIDE DEF h
        <4>3. QED
          BY <4>1, <4>2 DEF AfterRow
      <3>3. QED
        BY <3>1, <3>2
    <2>4. h = [k \in 0..n |-> h[k]]
      OBVIOUS
    <2> HIDE DEF h
    <2>5. IsAfter(h, n)
      BY <2>3, <2>4 DEF IsAfter
    <2>6. QED
      BY <1>3, <2>5
  <1>6. QED
    BY <1>4, <1>5

LEMMA MaxProducer ==
    /\ Max(Producer) \in Nat /\ \A p \in Producer : p \in 1..Max(Producer)
  <1>1. Producer \subseteq Nat \ {0} /\ IsFiniteSet(Producer)
    BY ElectionAssumption
  <1>2. Producer # {}
    <2>1. FirstProducers # {}
      BY ElectionAssumption, FS_EmptySet
    <2>2. QED
      BY <2>1, ElectionAssumption
  <1>3. Max(Producer) \in Producer /\ \A p \in Producer : p <= Max(Producer)
    BY <1>1, <1>2, MaxOfNaturals
  <1>4. \A p \in Producer : p \in Nat \ {0}
    BY <1>1
  <1>5. Max(Producer) \in Nat
    BY <1>3, <1>4
  <1> DEFINE top == Max(Producer)
  <1>6. top \in Nat /\ \A p \in Producer : p \in Nat \ {0} /\ p <= top
    BY <1>3, <1>4, <1>5
  <1> HIDE DEF top
  <1>7. \A p \in Producer : p \in 1..top
    BY <1>6
  <1>8. QED
    BY <1>6, <1>7 DEF top

-----------------------------------------------------------------------------
(* One insertion *)

\* What the vector is when the rows in C have been offered to it.
InOrder(top) ==
    \A i, j \in 1..Len(top) : i < j => Outranks(top[i], top[j])
Holds(top, c) == \E i \in 1..Len(top) : top[i] = c
AllOutrank(top, c) == \A i \in 1..Len(top) : Outranks(top[i], c)
TopOf(top, C) ==
    /\ top \in Seq(Producer) /\ Len(top) <= NUM_OF_TOP_BPS
    /\ \A i \in 1..Len(top) : top[i] \in C
    /\ InOrder(top)
    /\ Len(top) < NUM_OF_TOP_BPS => \A c \in C : Holds(top, c)
    /\ \A c \in C : Holds(top, c) \/ AllOutrank(top, c)

\* p put at place k of top, and the vector cut off.
InsertedAt(new, top, k, p) ==
    /\ new \in Seq(Producer)
    /\ Len(new) = IF Len(top) < NUM_OF_TOP_BPS THEN Len(top) + 1 ELSE NUM_OF_TOP_BPS
    /\ \A i \in 1..Len(new) :
          new[i] = IF i < k THEN top[i] ELSE IF i = k THEN p ELSE top[i - 1]

LEMMA LesserOf ==
    ASSUME NEW a \in Nat, NEW b \in Nat
    PROVE  Min({a, b}) = IF a <= b THEN a ELSE b
  <1>1. \E x \in {a, b} : \A y \in {a, b} : x =< y
    OBVIOUS
  <1>2. Min({a, b}) \in {a, b} /\ \A y \in {a, b} : Min({a, b}) =< y
    BY <1>1 DEF Min
  <1>3. QED
    BY <1>2

LEMMA InsertShape ==
    ASSUME NEW top \in Seq(Producer), Len(top) <= NUM_OF_TOP_BPS, NEW p \in Producer,
           NEW k \in 1..NUM_OF_TOP_BPS, k <= Len(top) + 1
    PROVE  LET inserted == InsertAt(top, k, p)
           IN  InsertedAt(SubSeq(inserted, 1, Min({Len(inserted), NUM_OF_TOP_BPS})), top, k, p)
  <1> DEFINE front == SubSeq(top, 1, k - 1)
             back == SubSeq(top, k, Len(top))
             inserted == InsertAt(top, k, p)
             new == SubSeq(inserted, 1, Min({Len(inserted), NUM_OF_TOP_BPS}))
  <1>1. /\ NUM_OF_TOP_BPS \in Nat \ {0} /\ Len(top) \in Nat
        /\ \A i \in 1..Len(top) : top[i] \in Producer
    BY ElectionAssumption, LenProperties, ElementOfSeq
  <1>2. /\ front \in Seq(Producer) /\ Len(front) = k - 1
        /\ \A i \in 1..(k - 1) : front[i] = top[i]
    <2>1. \A i \in 1..(k - 1) : top[i] \in Producer
      BY <1>1
    <2>2. /\ SubSeq(top, 1, k - 1) \in Seq(Producer)
          /\ Len(SubSeq(top, 1, k - 1)) = IF 1 <= k - 1 THEN (k - 1) - 1 + 1 ELSE 0
          /\ \A i \in 1..((k - 1) - 1 + 1) : SubSeq(top, 1, k - 1)[i] = top[1 + i - 1]
      <3>1. PICK m \in Int : m = k - 1
        BY <1>1
      <3>2. /\ SubSeq(top, 1, m) \in Seq(Producer)
            /\ Len(SubSeq(top, 1, m)) = IF 1 <= m THEN m - 1 + 1 ELSE 0
            /\ \A i \in 1..(m - 1 + 1) : SubSeq(top, 1, m)[i] = top[1 + i - 1]
        BY <2>1, <3>1, SubSeqProperties
      <3>3. QED
        BY <3>1, <3>2
    <2>3. QED
      BY <1>1, <2>2
  <1>3. /\ back \in Seq(Producer) /\ Len(back) = Len(top) - k + 1
        /\ \A i \in 1..(Len(top) - k + 1) : back[i] = top[k + i - 1]
    <2>1. \A i \in k..Len(top) : top[i] \in Producer
      BY <1>1
    <2>2. /\ SubSeq(top, k, Len(top)) \in Seq(Producer)
          /\ Len(SubSeq(top, k, Len(top))) = IF k <= Len(top) THEN Len(top) - k + 1 ELSE 0
          /\ \A i \in 1..(Len(top) - k + 1) : SubSeq(top, k, Len(top))[i] = top[k + i - 1]
      <3>1. k \in Int /\ Len(top) \in Int
        BY <1>1
      <3>2. QED
        BY <2>1, <3>1, SubSeqProperties
    <2>3. QED
      BY <1>1, <2>2
  <1>4. <<p>> \in Seq(Producer) /\ Len(<<p>>) = 1 /\ <<p>>[1] = p
    OBVIOUS
  <1> HIDE DEF front, back
  <1>5. /\ front \o <<p>> \in Seq(Producer) /\ Len(front \o <<p>>) = k
        /\ \A i \in 1..k : (front \o <<p>>)[i] = IF i < k THEN top[i] ELSE p
    <2>1. /\ front \o <<p>> \in Seq(Producer)
          /\ Len(front \o <<p>>) = Len(front) + Len(<<p>>)
          /\ \A i \in 1..(Len(front) + Len(<<p>>)) :
                (front \o <<p>>)[i] = IF i <= Len(front) THEN front[i] ELSE <<p>>[i - Len(front)]
      BY <1>2, <1>4, ConcatProperties
    <2>2. QED
      BY <1>1, <1>2, <1>4, <2>1
  <1>6. /\ inserted \in Seq(Producer) /\ Len(inserted) = Len(top) + 1
        /\ \A i \in 1..(Len(top) + 1) :
              inserted[i] = IF i < k THEN top[i] ELSE IF i = k THEN p ELSE top[i - 1]
    <2>1. PICK half : half = front \o <<p>>
      OBVIOUS
    <2> half \in Seq(Producer)
      BY <1>5, <2>1
    <2>2. /\ half \o back \in Seq(Producer)
          /\ Len(half \o back) = Len(half) + Len(back)
          /\ \A i \in 1..(Len(half) + Len(back)) :
                (half \o back)[i] = IF i <= Len(half) THEN half[i] ELSE back[i - Len(half)]
      BY <1>3, ConcatProperties
    <2>3. inserted = half \o back
      BY <2>1 DEF InsertAt, front, back
    <2>4. Len(half) = k /\ \A i \in 1..k : half[i] = IF i < k THEN top[i] ELSE p
      BY <1>5, <2>1
    <2>5. Len(half) + Len(back) = Len(top) + 1
      BY <1>1, <1>3, <2>4
    <2> HIDE DEF inserted
    <2>6. ASSUME NEW i \in 1..(Len(top) + 1)
          PROVE  inserted[i] = IF i < k THEN top[i] ELSE IF i = k THEN p ELSE top[i - 1]
      <3>1. inserted[i] = IF i <= k THEN half[i] ELSE back[i - k]
        BY <2>2, <2>3, <2>4, <2>5
      <3>2. CASE i <= k
        BY <1>1, <2>4, <3>1, <3>2
      <3>3. CASE i > k
        <4>1. i - k \in 1..(Len(top) - k + 1) /\ k + (i - k) - 1 = i - 1
          BY <1>1, <3>3
        <4>2. PICK d : d = i - k
          OBVIOUS
        <4>3. back[d] = top[k + d - 1]
          BY <1>3, <4>1, <4>2
        <4>4. QED
          BY <1>1, <3>1, <3>3, <4>1, <4>2, <4>3
      <3>4. QED
        BY <1>1, <3>2, <3>3
    <2>7. QED
      BY <2>2, <2>3, <2>5, <2>6
  <1> HIDE DEF inserted
  <1>7. PICK n \in Int : n = Min({Len(inserted), NUM_OF_TOP_BPS})
    BY <1>1, <1>6, LesserOf
  <1>8. n = IF Len(top) < NUM_OF_TOP_BPS THEN Len(top) + 1 ELSE NUM_OF_TOP_BPS
    <2>1. Len(inserted) \in Nat /\ Len(inserted) = Len(top) + 1
      BY <1>1, <1>6
    <2>2. Min({Len(inserted), NUM_OF_TOP_BPS})
            = IF Len(inserted) <= NUM_OF_TOP_BPS THEN Len(inserted) ELSE NUM_OF_TOP_BPS
      BY <1>1, <2>1, LesserOf
    <2>3. QED
      BY <1>1, <1>7, <2>1, <2>2
  <1>9. n >= 1 /\ n <= Len(top) + 1
    BY <1>1, <1>8
  <1>10. /\ SubSeq(inserted, 1, n) \in Seq(Producer)
         /\ Len(SubSeq(inserted, 1, n)) = n
         /\ \A i \in 1..n : SubSeq(inserted, 1, n)[i] = inserted[i]
    <2>1. \A i \in 1..n : inserted[i] \in Producer
      BY <1>1, <1>6, <1>9, LenProperties, ElementOfSeq
    <2>2. /\ SubSeq(inserted, 1, n) \in Seq(Producer)
          /\ Len(SubSeq(inserted, 1, n)) = IF 1 <= n THEN n - 1 + 1 ELSE 0
          /\ \A i \in 1..(n - 1 + 1) : SubSeq(inserted, 1, n)[i] = inserted[1 + i - 1]
      BY <2>1, SubSeqProperties
    <2>3. QED
      BY <1>9, <2>2
  <1>11. new = SubSeq(inserted, 1, n)
    BY <1>7
  <1> HIDE DEF new
  <1>12. InsertedAt(new, top, k, p)
    <2>1. ASSUME NEW i \in 1..n
          PROVE  new[i] = IF i < k THEN top[i] ELSE IF i = k THEN p ELSE top[i - 1]
      <3>1. i \in 1..(Len(top) + 1)
        BY <1>1, <1>9
      <3>2. QED
        BY <1>6, <1>10, <1>11, <3>1
    <2>2. QED
      BY <1>8, <1>10, <1>11, <2>1 DEF InsertedAt
  <1>13. QED
    BY <1>12 DEF new, inserted

\* Which votes a row has, as far as the order of candidates needs it.
Votes == \A p \in Producer : bps[p].total_staked \in Nat

LEMMA OutranksOrder ==
    ASSUME Votes, NEW a \in Producer, NEW b \in Producer, NEW c \in Producer
    PROVE  /\ Outranks(a, b) /\ Outranks(b, c) => Outranks(a, c)
           /\ ~Outranks(a, a)
           /\ a # b => Outranks(a, b) \/ Outranks(b, a)
  <1>1. a \in Nat /\ b \in Nat /\ c \in Nat
    BY ElectionAssumption
  <1>2. /\ bps[a].total_staked \in Nat /\ bps[b].total_staked \in Nat
        /\ bps[c].total_staked \in Nat
    BY DEF Votes
  <1>3. QED
    BY <1>1, <1>2 DEF Outranks

\* Where the loop finds its place: what stands before it outranks the new
\* row, what stands behind it is outranked by it.
LEMMA PlaceOf ==
    ASSUME Votes, NEW C \in SUBSET Producer, NEW top, TopOf(top, C),
           NEW p \in Producer, \A c \in C : c < p,
           ~(Len(top) >= NUM_OF_TOP_BPS /\ StakeAt(top, Len(top)) > bps[p].total_staked)
    PROVE  LET places == {i \in 1..NUM_OF_TOP_BPS : Before(top, p, i)}
           IN  /\ places # {} /\ Min(places) \in 1..NUM_OF_TOP_BPS
               /\ Min(places) <= Len(top) + 1
               /\ \A i \in 1..Len(top) :
                     /\ i < Min(places) => Outranks(top[i], p)
                     /\ i >= Min(places) => Outranks(p, top[i])
  <1> DEFINE places == {i \in 1..NUM_OF_TOP_BPS : Before(top, p, i)}
  <1>1. /\ NUM_OF_TOP_BPS \in Nat \ {0} /\ Len(top) \in Nat /\ Len(top) <= NUM_OF_TOP_BPS
        /\ bps[p].total_staked \in Nat
    BY ElectionAssumption, LenProperties DEF TopOf, Votes
  <1>2. \A i \in 1..Len(top) :
           /\ top[i] \in C /\ top[i] \in Producer /\ top[i] \in Nat /\ p \in Nat
           /\ top[i] < p /\ bps[top[i]].total_staked \in Nat
    BY ElectionAssumption DEF TopOf, Votes
  <1>3. \A i \in 1..Len(top) : StakeAt(top, i) = bps[top[i]].total_staked
    BY <1>1 DEF StakeAt
  <1>4. StakeAt(top, Len(top) + 1) = 0
    BY <1>1 DEF StakeAt
  <1>5. Len(top) < NUM_OF_TOP_BPS => Len(top) + 1 \in places
    BY <1>1, <1>4 DEF Before
  <1>6. Len(top) = NUM_OF_TOP_BPS => Len(top) \in places
    BY <1>1, <1>2, <1>3 DEF Before
  <1>7. places \in SUBSET (0..NUM_OF_TOP_BPS) /\ places # {}
    BY <1>1, <1>5, <1>6
  <1>8. Min(places) \in places /\ \A i \in places : Min(places) <= i
    <2>1. PICK B \in SUBSET (0..NUM_OF_TOP_BPS) : B = places
      BY <1>7
    <2>2. B # {}
      BY <1>7, <2>1
    <2> HIDE DEF places
    <2>3. Min(B) \in B /\ \A i \in B : Min(B) <= i
      BY <1>1, <2>2, MinOfInterval
    <2>4. QED
      BY <2>1, <2>3
  <1>9. PICK k : k = Min(places)
    OBVIOUS
  <1>10. k \in 1..NUM_OF_TOP_BPS /\ Before(top, p, k) /\ \A i \in places : k <= i
    BY <1>8, <1>9
  <1>11. k <= Len(top) + 1
    BY <1>1, <1>5, <1>6, <1>10
  <1>12. ASSUME NEW i \in 1..Len(top), i < k PROVE Outranks(top[i], p)
    <2>1. i \notin places
      BY <1>1, <1>10, <1>12
    <2>2. ~Before(top, p, i)
      BY <1>1, <2>1
    <2>3. QED
      BY <1>1, <1>2, <1>3, <2>2 DEF Before, Outranks
  <1>13. ASSUME NEW i \in 1..Len(top), i >= k PROVE Outranks(p, top[i])
    <2>1. k \in 1..Len(top)
      BY <1>1, <1>10, <1>13
    <2>2. bps[top[k]].total_staked <= bps[p].total_staked
      BY <1>3, <1>10, <2>1 DEF Before
    <2>3. i = k \/ Outranks(top[k], top[i])
      BY <1>1, <1>10, <1>13, <2>1 DEF TopOf, InOrder
    <2>4. bps[top[i]].total_staked <= bps[top[k]].total_staked
      BY <1>2, <2>1, <2>3 DEF Outranks
    <2>5. QED
      BY <1>1, <1>2, <2>1, <2>2, <2>4 DEF Outranks
  <1> HIDE DEF places
  <1>14. QED
    BY <1>7, <1>9, <1>10, <1>11, <1>12, <1>13 DEF places

\* A row that is put in its place leaves the vector with the best so far.
LEMMA InsertedIsTop ==
    ASSUME Votes, NEW C \in SUBSET Producer, NEW top, TopOf(top, C),
           NEW p \in Producer, NEW k \in 1..NUM_OF_TOP_BPS, k <= Len(top) + 1,
           \A i \in 1..Len(top) : /\ i < k => Outranks(top[i], p)
                                  /\ i >= k => Outranks(p, top[i]),
           NEW new, InsertedAt(new, top, k, p)
    PROVE  TopOf(new, C \cup {p})
  <1>1. /\ NUM_OF_TOP_BPS \in Nat \ {0} /\ Len(top) \in Nat /\ Len(top) <= NUM_OF_TOP_BPS
        /\ Len(new) = IF Len(top) < NUM_OF_TOP_BPS THEN Len(top) + 1 ELSE NUM_OF_TOP_BPS
    BY ElectionAssumption, LenProperties DEF TopOf, InsertedAt
  <1>2. Len(new) \in Nat /\ k \in 1..Len(new) /\ Len(new) <= NUM_OF_TOP_BPS
        /\ Len(new) <= Len(top) + 1
    BY <1>1
  <1>3. \A i \in 1..Len(new) :
           new[i] = IF i < k THEN top[i] ELSE IF i = k THEN p ELSE top[i - 1]
    BY DEF InsertedAt
  <1>4. \A i \in 1..Len(top) : top[i] \in C /\ top[i] \in Producer
    BY DEF TopOf
  <1>5. \A i \in 1..Len(new) :
           \/ i < k /\ i \in 1..Len(top) /\ new[i] = top[i]
           \/ i = k /\ new[i] = p
           \/ i > k /\ i - 1 \in 1..Len(top) /\ new[i] = top[i - 1]
    BY <1>1, <1>2, <1>3
  <1>6. \A i, j \in 1..Len(top) : i < j => Outranks(top[i], top[j])
    BY DEF TopOf, InOrder
  <1>7. \A i \in 1..Len(new) : new[i] \in C \cup {p}
    BY <1>4, <1>5
  <1>8. ASSUME NEW i \in 1..Len(new), NEW j \in 1..Len(new), i < j
        PROVE  Outranks(new[i], new[j])
    <2>1. CASE j < k
      BY <1>1, <1>2, <1>3, <1>6, <1>8, <2>1
    <2>2. CASE j = k
      BY <1>1, <1>2, <1>3, <1>8, <2>2
    <2>3. CASE j > k /\ i < k
      <3>1. i \in 1..Len(top) /\ j - 1 \in 1..Len(top) /\ i < j - 1 /\ new[i] = top[i]
            /\ new[j] = top[j - 1]
        BY <1>1, <1>2, <1>3, <2>3
      <3>2. QED
        BY <1>6, <3>1
    <2>4. CASE j > k /\ i = k
      <3>1. j - 1 \in 1..Len(top) /\ j - 1 >= k /\ new[i] = p /\ new[j] = top[j - 1]
        BY <1>1, <1>2, <1>3, <2>4
      <3>2. QED
        BY <3>1
    <2>5. CASE j > k /\ i > k
      <3>1. i - 1 \in 1..Len(top) /\ j - 1 \in 1..Len(top) /\ i - 1 < j - 1
            /\ new[i] = top[i - 1] /\ new[j] = top[j - 1]
        BY <1>1, <1>2, <1>3, <1>8, <2>5
      <3>2. QED
        BY <1>6, <3>1
    <2>6. QED
      BY <1>2, <2>1, <2>2, <2>3, <2>4, <2>5
  <1>9. Holds(new, p)
    BY <1>2, <1>3 DEF Holds
  <1>10. ASSUME NEW i \in 1..Len(top), ~Holds(new, top[i])
         PROVE  i = Len(top) /\ i = Len(new) /\ i >= k /\ i = NUM_OF_TOP_BPS
    <2>1. ~(i < k)
      BY <1>1, <1>2, <1>3, <1>10 DEF Holds
    <2>2. ~(i + 1 <= Len(new))
      <3>1. SUFFICES ASSUME i + 1 <= Len(new) PROVE FALSE
        OBVIOUS
      <3>2. PICK j : j = i + 1
        OBVIOUS
      <3>3. j \in 1..Len(new) /\ ~(j < k) /\ j # k /\ j - 1 = i
        BY <1>1, <1>2, <2>1, <3>1, <3>2
      <3>4. new[j] = top[i]
        BY <1>3, <3>3
      <3>5. QED
        BY <1>10, <3>3, <3>4 DEF Holds
    <2>3. QED
      BY <1>1, <1>2, <2>1, <2>2
  <1>11. Len(new) < NUM_OF_TOP_BPS => \A c \in C \cup {p} : Holds(new, c)
    <2>1. SUFFICES ASSUME Len(new) < NUM_OF_TOP_BPS, NEW c \in C PROVE Holds(new, c)
      BY <1>9
    <2>2. Len(top) < NUM_OF_TOP_BPS
      BY <1>1, <2>1
    <2>3. PICK i \in 1..Len(top) : top[i] = c
      BY <2>1, <2>2 DEF TopOf, Holds
    <2>4. QED
      BY <1>1, <1>10, <2>2, <2>3
  <1>12. ASSUME NEW c \in C, ~Holds(new, c) PROVE AllOutrank(new, c)
    <2>1. c \in Producer /\ p \in Producer
      OBVIOUS
    <2>2. CASE Holds(top, c)
      <3>1. PICK n \in 1..Len(top) : top[n] = c
        BY <2>2 DEF Holds
      <3>2. n = Len(top) /\ n = Len(new) /\ n >= k
        BY <1>10, <1>12, <3>1
      <3>3. ASSUME NEW i \in 1..Len(new) PROVE Outranks(new[i], c)
        <4>1. CASE i = k
          BY <1>3, <3>1, <3>2, <4>1
        <4>2. CASE i < k
          <5>1. i \in 1..Len(top) /\ i < n /\ new[i] = top[i]
            BY <1>1, <1>2, <1>3, <3>2, <4>2
          <5>2. QED
            BY <1>6, <3>1, <5>1
        <4>3. CASE i > k
          <5>1. i - 1 \in 1..Len(top) /\ i - 1 < n /\ new[i] = top[i - 1]
            BY <1>1, <1>2, <1>3, <3>2, <4>3
          <5>2. QED
            BY <1>6, <3>1, <5>1
        <4>4. QED
          BY <1>2, <4>1, <4>2, <4>3
      <3>4. QED
        BY <3>3 DEF AllOutrank
    <2>3. CASE ~Holds(top, c)
      <3>1. AllOutrank(top, c) /\ Len(top) = NUM_OF_TOP_BPS
        BY <1>1, <2>3 DEF TopOf
      <3>2. k \in 1..Len(top) /\ Outranks(p, top[k]) /\ Outranks(top[k], c)
        BY <1>1, <3>1 DEF AllOutrank
      <3>3. top[k] \in Producer
        BY <1>4, <3>2
      <3>4. Outranks(p, c)
        BY <2>1, <3>2, <3>3, OutranksOrder
      <3>5. ASSUME NEW i \in 1..Len(new) PROVE Outranks(new[i], c)
        BY <1>5, <3>1, <3>4 DEF AllOutrank
      <3>6. QED
        BY <3>5 DEF AllOutrank
    <2>4. QED
      BY <2>2, <2>3
  <1>13. new \in Seq(Producer)
    BY DEF InsertedAt
  <1>14. InOrder(new)
    BY <1>8 DEF InOrder
  <1>15. QED
    BY <1>2, <1>7, <1>9, <1>11, <1>12, <1>13, <1>14 DEF TopOf

LEMMA InsertStep ==
    ASSUME Votes, NEW C \in SUBSET Producer, NEW top, TopOf(top, C),
           NEW p \in Producer, \A c \in C : c < p
    PROVE  TopOf(Insert(p)[top], C \cup {p})
  <1> top \in Seq(Producer)
    BY DEF TopOf
  <1>1. CASE Len(top) >= NUM_OF_TOP_BPS /\ StakeAt(top, Len(top)) > bps[p].total_staked
    <2>1. Insert(p)[top] = top
      BY <1>1 DEF Insert
    <2>2. /\ NUM_OF_TOP_BPS \in Nat \ {0} /\ Len(top) \in Nat /\ Len(top) = NUM_OF_TOP_BPS
          /\ top \in Seq(Producer) /\ bps[p].total_staked \in Nat
      BY <1>1, ElectionAssumption, LenProperties DEF TopOf, Votes
    <2>3. ASSUME NEW i \in 1..Len(top) PROVE Outranks(top[i], p)
      <3>1. Len(top) \in 1..Len(top)
        BY <2>2
      <3>2. top[i] \in Producer /\ top[Len(top)] \in Producer
        BY <2>2, <3>1, ElementOfSeq
      <3>3. bps[top[i]].total_staked \in Nat /\ bps[top[Len(top)]].total_staked \in Nat
        BY <3>2 DEF Votes
      <3>4. bps[top[Len(top)]].total_staked > bps[p].total_staked
        BY <1>1, <2>2 DEF StakeAt
      <3>5. i = Len(top) \/ Outranks(top[i], top[Len(top)])
        BY <2>2, <3>1 DEF TopOf, InOrder
      <3>6. bps[top[i]].total_staked >= bps[top[Len(top)]].total_staked
        BY <3>3, <3>5 DEF Outranks
      <3>7. QED
        BY <2>2, <3>3, <3>4, <3>6 DEF Outranks
    <2>4. AllOutrank(top, p)
      BY <2>3 DEF AllOutrank
    <2>5. TopOf(top, C \cup {p})
      BY <2>2, <2>4 DEF TopOf
    <2>6. QED
      BY <2>1, <2>5
  <1>2. CASE ~(Len(top) >= NUM_OF_TOP_BPS /\ StakeAt(top, Len(top)) > bps[p].total_staked)
    <2> DEFINE places == {i \in 1..NUM_OF_TOP_BPS : Before(top, p, i)}
    <2>1. /\ places # {} /\ Min(places) \in 1..NUM_OF_TOP_BPS
          /\ Min(places) <= Len(top) + 1
          /\ \A i \in 1..Len(top) :
                /\ i < Min(places) => Outranks(top[i], p)
                /\ i >= Min(places) => Outranks(p, top[i])
      BY <1>2, PlaceOf
    <2>2. PICK k : k = Min(places)
      OBVIOUS
    <2>3. /\ k \in 1..NUM_OF_TOP_BPS /\ k <= Len(top) + 1
          /\ \A i \in 1..Len(top) : /\ i < k => Outranks(top[i], p)
                                    /\ i >= k => Outranks(p, top[i])
      BY <2>1, <2>2
    <2> DEFINE inserted == InsertAt(top, k, p)
               new == SubSeq(inserted, 1, Min({Len(inserted), NUM_OF_TOP_BPS}))
    <2>4. Insert(p)[top] = new
      BY <1>2, <2>1, <2>2 DEF Insert
    <2>5. InsertedAt(new, top, k, p)
      <3>1. top \in Seq(Producer) /\ Len(top) <= NUM_OF_TOP_BPS
        BY DEF TopOf
      <3>2. QED
        BY <2>3, <3>1, InsertShape
    <2>6. PICK result : result = new
      OBVIOUS
    <2> HIDE DEF new, places
    <2>7. TopOf(result, C \cup {p})
      BY <2>3, <2>5, <2>6, InsertedIsTop
    <2>8. QED
      BY <2>4, <2>6, <2>7
  <1>3. QED
    BY <1>1, <1>2

-----------------------------------------------------------------------------
(* The whole loop *)

CandidatesUpTo(n) == {c \in Candidates : c <= n}

LEMMA CandidatesAreProducers ==
    /\ Candidates \in SUBSET Producer /\ Candidates \in SUBSET Registered
    /\ Registered \in SUBSET Producer
    /\ \A c \in Candidates : c \in Nat \ {0} /\ c \in 1..Max(Producer)
    BY MaxProducer, ElectionAssumption DEF Candidates, Registered

LEMMA LoopKeepsTop ==
    ASSUME Votes, NEW m \in Nat, NEW g, IsAfter(g, m)
    PROVE  TopOf(g[m], CandidatesUpTo(m))
  <1> DEFINE Bad == {n \in 0..m : ~TopOf(g[n], CandidatesUpTo(n))}
  <1>1. SUFFICES ASSUME Bad # {} PROVE FALSE
    OBVIOUS
  <1>2. PICK n \in Bad : \A k \in Bad : n <= k
    <2>1. Bad \in SUBSET (0..m)
      OBVIOUS
    <2> HIDE DEF Bad
    <2>2. QED
      BY <1>1, <2>1, LeastMember
  <1>3. n \in 0..m /\ ~TopOf(g[n], CandidatesUpTo(n)) /\ g[n] = AfterRow(g, n)
    BY <1>2 DEF IsAfter
  <1>4. CASE n = 0
    <2>1. g[n] = <<>>
      BY <1>3, <1>4 DEF AfterRow
    <2>2. CandidatesUpTo(n) = {}
      BY <1>4, CandidatesAreProducers DEF CandidatesUpTo
    <2>3. <<>> \in Seq(Producer) /\ Len(<<>>) = 0 /\ NUM_OF_TOP_BPS \in Nat
      BY ElectionAssumption
    <2>4. PICK empty : empty = <<>>
      OBVIOUS
    <2>5. empty \in Seq(Producer) /\ Len(empty) = 0 /\ Len(empty) <= NUM_OF_TOP_BPS
      BY <2>3, <2>4
    <2>6. TopOf(empty, {})
      BY <2>5 DEF TopOf, InOrder
    <2>7. QED
      BY <1>3, <2>1, <2>2, <2>4, <2>6
  <1>5. CASE n # 0
    <2>1. n - 1 \in 0..m /\ n - 1 \notin Bad
      BY <1>2, <1>3, <1>5
    <2>2. TopOf(g[n - 1], CandidatesUpTo(n - 1))
      BY <2>1
    <2>3. CASE n \notin Candidates
      <3>1. CandidatesUpTo(n) = CandidatesUpTo(n - 1)
        BY <1>3, <2>3, CandidatesAreProducers DEF CandidatesUpTo
      <3>2. g[n] = g[n - 1]
        BY <1>3, <1>5, <2>3 DEF AfterRow
      <3>3. QED
        BY <1>3, <2>2, <3>1, <3>2
    <2>4. CASE n \in Candidates
      <3> n \in Nat
        BY <1>3
      <3>1. CandidatesUpTo(n) = CandidatesUpTo(n - 1) \cup {n}
        <4>1. \A c \in Candidates : c <= n <=> c <= n - 1 \/ c = n
          BY CandidatesAreProducers
        <4>2. n <= n
          BY <1>3
        <4>3. QED
          BY <2>4, <4>1, <4>2 DEF CandidatesUpTo
      <3>2. g[n] = Insert(n)[g[n - 1]]
        BY <1>3, <1>5, <2>4 DEF AfterRow
      <3>3. PICK top, C : top = g[n - 1] /\ C = CandidatesUpTo(n - 1)
        OBVIOUS
      <3>4. C \in SUBSET Producer /\ n \in Producer /\ \A c \in C : c < n
        <4>1. C \in SUBSET Producer /\ n \in Producer
          BY <2>4, <3>3, CandidatesAreProducers DEF CandidatesUpTo
        <4>2. \A c \in Candidates : c <= n - 1 => c < n
          BY CandidatesAreProducers
        <4>3. QED
          BY <3>3, <4>1, <4>2 DEF CandidatesUpTo
      <3>5. TopOf(top, C)
        BY <2>2, <3>3
      <3>6. TopOf(Insert(n)[top], C \cup {n})
        BY <3>4, <3>5, InsertStep
      <3>7. QED
        BY <1>3, <3>1, <3>2, <3>3, <3>6
    <2>5. QED
      BY <2>3, <2>4
  <1>6. QED
    BY <1>4, <1>5

\* vote_schedule holds the best candidates, whatever the votes.
LEMMA ScheduleIsTop ==
    ASSUME Votes
    PROVE  TopOf(VoteSchedule, Candidates)
  <1>1. PICK m \in Nat : m = Max(Producer)
    BY MaxProducer
  <1>2. \E g : IsAfter(g, m)
    BY AfterExists
  <1>3. PICK h : h = CHOOSE g : IsAfter(g, m)
    OBVIOUS
  <1>4. IsAfter(h, m)
    BY <1>2, <1>3
  <1>5. TopOf(h[m], CandidatesUpTo(m))
    BY <1>4, LoopKeepsTop
  <1>6. VoteSchedule = h[m]
    BY <1>1, <1>3, ScheduleIsAfter
  <1>7. CandidatesUpTo(m) = Candidates
    BY <1>1, CandidatesAreProducers DEF CandidatesUpTo
  <1>8. QED
    BY <1>5, <1>6, <1>7

-----------------------------------------------------------------------------
(* Counting those who outrank *)

BestOf(C) == {p \in C : Cardinality({q \in C : Outranks(q, p)}) < NUM_OF_TOP_BPS}

LEMMA TopIsFinite ==
    ASSUME Votes, NEW C \in SUBSET Producer, NEW top, TopOf(top, C)
    PROVE  IsFiniteSet(ToSet(top)) /\ Cardinality(ToSet(top)) = Len(top)
  <1>1. Len(top) \in Nat /\ top \in [1..Len(top) -> Producer] /\ DOMAIN top = 1..Len(top)
    BY LenProperties DEF TopOf
  <1>2. IsFiniteSet(1..Len(top)) /\ Cardinality(1..Len(top)) = Len(top)
    BY <1>1, FS_Interval
  <1>3. top \in Surjection(1..Len(top), ToSet(top))
    BY <1>1 DEF Surjection, ToSet
  <1>4. top \in Injection(1..Len(top), ToSet(top))
    <2>1. ASSUME NEW i \in 1..Len(top), NEW j \in 1..Len(top), i < j PROVE top[i] # top[j]
      <3>1. Outranks(top[i], top[j]) /\ top[i] \in Producer
        BY <1>1, <2>1 DEF TopOf, InOrder
      <3>2. ~Outranks(top[i], top[i])
        BY <3>1, OutranksOrder
      <3>3. QED
        BY <3>1, <3>2
    <2>2. \A i, j \in 1..Len(top) : top[i] = top[j] => i = j
      BY <1>1, <2>1
    <2>3. top \in [1..Len(top) -> ToSet(top)]
      BY <1>1 DEF ToSet
    <2>4. QED
      BY <1>1, <2>2, <2>3 DEF Injection, IsInjective
  <1>5. PICK S, T : S = 1..Len(top) /\ T = ToSet(top)
    OBVIOUS
  <1>6. IsFiniteSet(S) /\ top \in Surjection(S, T) /\ top \in Injection(S, T)
    BY <1>2, <1>3, <1>4, <1>5
  <1>7. IsFiniteSet(T) /\ Cardinality(T) = Cardinality(S)
    BY <1>6, FS_Surjection
  <1>8. QED
    BY <1>2, <1>5, <1>7

LEMMA TopIsBest ==
    ASSUME Votes, NEW C \in SUBSET Producer, NEW top, TopOf(top, C)
    PROVE  ToSet(top) = BestOf(C)
  <1> DEFINE above(p) == {q \in C : Outranks(q, p)}
  <1>1. /\ Len(top) \in Nat /\ Len(top) <= NUM_OF_TOP_BPS /\ DOMAIN top = 1..Len(top)
        /\ NUM_OF_TOP_BPS \in Nat \ {0}
        /\ \A i \in 1..Len(top) : top[i] \in C /\ top[i] \in Producer
    BY LenProperties, ElectionAssumption DEF TopOf
  <1>2. ASSUME NEW i \in 1..Len(top)
        PROVE  Cardinality(above(top[i])) < NUM_OF_TOP_BPS
    <2> DEFINE first == [j \in 1..(i - 1) |-> top[j]]
    <2>1. ASSUME NEW j \in 1..(i - 1) PROVE first[j] \in above(top[i])
      <3>1. j \in 1..Len(top) /\ j < i
        BY <1>1, <1>2
      <3>2. QED
        BY <1>1, <3>1 DEF TopOf, InOrder
    <2>2. ASSUME NEW q \in above(top[i]) PROVE \E j \in 1..(i - 1) : first[j] = q
      <3>1. q \in Producer /\ top[i] \in Producer /\ Outranks(q, top[i])
        BY <1>1
      <3>2. ~Outranks(top[i], q)
        BY <3>1, OutranksOrder
      <3>3. PICK j \in 1..Len(top) : top[j] = q
        BY <1>2, <3>2 DEF TopOf, Holds, AllOutrank
      <3>4. j # i
        BY <3>1, <3>3, OutranksOrder
      <3>5. ~(i < j)
        BY <1>2, <3>2, <3>3 DEF TopOf, InOrder
      <3>6. j \in 1..(i - 1)
        BY <1>1, <3>4, <3>5
      <3>7. QED
        BY <3>3, <3>6
    <2>3. first \in Surjection(1..(i - 1), above(top[i]))
      <3>1. first \in [1..(i - 1) -> above(top[i])]
        BY <2>1
      <3> HIDE DEF first, above
      <3>2. QED
        BY <2>2, <3>1 DEF Surjection
    <2>4. IsFiniteSet(1..(i - 1)) /\ Cardinality(1..(i - 1)) = i - 1
      <3>1. 1 \in Int /\ i - 1 \in Int
        BY <1>1
      <3>2. PICK b \in Int : b = i - 1
        BY <3>1
      <3>3. IsFiniteSet(1..b) /\ Cardinality(1..b) = IF 1 > b THEN 0 ELSE b - 1 + 1
        BY FS_Interval
      <3>4. QED
        BY <1>1, <3>2, <3>3
    <2>5. PICK S, T, f : S = 1..(i - 1) /\ T = above(top[i]) /\ f = first
      OBVIOUS
    <2> HIDE DEF first, above
    <2>6. IsFiniteSet(S) /\ f \in Surjection(S, T)
      BY <2>3, <2>4, <2>5
    <2>7. IsFiniteSet(T) /\ Cardinality(T) <= Cardinality(S)
      BY <2>6, FS_Surjection
    <2>8. Cardinality(T) \in Nat
      BY <2>7, FS_CardinalityType
    <2>9. QED
      BY <1>1, <2>4, <2>5, <2>7, <2>8
  <1>3. ASSUME NEW p \in C, ~Holds(top, p)
        PROVE  ~(Cardinality(above(p)) < NUM_OF_TOP_BPS)
    <2>1. Len(top) = NUM_OF_TOP_BPS /\ AllOutrank(top, p)
      <3> HIDE DEF above
      <3>1. /\ Len(top) < NUM_OF_TOP_BPS => \A c \in C : Holds(top, c)
            /\ \A c \in C : Holds(top, c) \/ AllOutrank(top, c)
        BY DEF TopOf
      <3>2. ~(Len(top) < NUM_OF_TOP_BPS)
        BY <1>3, <3>1
      <3>3. Len(top) = NUM_OF_TOP_BPS
        <4>1. Len(top) \in Nat /\ Len(top) <= NUM_OF_TOP_BPS /\ NUM_OF_TOP_BPS \in Nat
          BY <1>1
        <4>2. QED
          BY <3>2, <4>1
      <3>4. AllOutrank(top, p)
        BY <1>3, <3>1
      <3>5. QED
        BY <3>3, <3>4
    <2>2. ToSet(top) \in SUBSET above(p)
      BY <1>1, <2>1 DEF ToSet, AllOutrank
    <2>3. IsFiniteSet(C)
      <3>1. C \in SUBSET Producer /\ IsFiniteSet(Producer)
        BY ElectionAssumption
      <3>2. QED
        BY <3>1, FS_Subset
    <2>4. IsFiniteSet(above(p))
      <3>1. above(p) \in SUBSET C
        OBVIOUS
      <3> HIDE DEF above
      <3>2. QED
        BY <2>3, <3>1, FS_Subset
    <2> HIDE DEF above
    <2>5. Cardinality(ToSet(top)) <= Cardinality(above(p)) /\ Cardinality(above(p)) \in Nat
      BY <2>2, <2>4, FS_Subset, FS_CardinalityType
    <2>6. QED
      BY <1>1, <2>1, <2>5, TopIsFinite
  <1>4. \A p \in C : p \in ToSet(top) <=> Cardinality(above(p)) < NUM_OF_TOP_BPS
    <2> HIDE DEF above
    <2>1. SUFFICES ASSUME NEW p \in C
                   PROVE  p \in ToSet(top) <=> Cardinality(above(p)) < NUM_OF_TOP_BPS
      OBVIOUS
    <2>2. p \in ToSet(top) <=> Holds(top, p)
      BY <1>1 DEF ToSet, Holds
    <2>3. Holds(top, p) => Cardinality(above(p)) < NUM_OF_TOP_BPS
      BY <1>2 DEF Holds
    <2>4. QED
      BY <1>3, <2>2, <2>3
  <1>5. ToSet(top) \in SUBSET C
    BY <1>1 DEF ToSet
  <1>6. QED
    BY <1>4, <1>5 DEF BestOf

-----------------------------------------------------------------------------
(* Schedules *)

Schedule(schedule, registered) ==
    /\ schedule \subseteq registered \X Key
    /\ Cardinality(schedule) <= NUM_OF_TOP_BPS
    /\ Cardinality(Names(schedule)) = Cardinality(schedule)
CallingEmergency == {p \in Registered : bps[p].emergency}
Rows == bps \in [Producer -> [exists : BOOLEAN, block_signing_key : Key,
                              total_staked : Stake, emergency : BOOLEAN]]

LEMMA TypeParts ==
    TypeOK <=>
        /\ cycle \in 0..(UPDATE_CYCLE - 1) /\ untilOpen \in 0..MaxUntilOpen
        /\ Rows /\ blackpro \subseteq Producer /\ punished \subseteq Producer
        /\ emergency \in BOOLEAN
        /\ emergency => Cardinality(CallingEmergency) > (NUM_OF_TOP_BPS * 2) \div 3
        /\ Schedule(proposed, Registered) /\ Schedule(pending, Registered)
        /\ Schedule(active, Registered) /\ active # NoSchedule
    BY DEF TypeOK, Rows, Schedule, EmergencyCalled, CallingEmergency

LEMMA RowsHaveVotes == Rows => Votes
    BY ElectionAssumption DEF Rows, Votes

LEMMA NoScheduleIsSchedule ==
    ASSUME NEW R
    PROVE  Schedule(NoSchedule, R)
  <1>1. Names({}) = {}
    BY DEF Names
  <1>2. Cardinality({}) = 0 /\ NUM_OF_TOP_BPS \in Nat
    BY FS_EmptySet, ElectionAssumption
  <1>3. QED
    BY <1>1, <1>2 DEF Schedule, NoSchedule

\* A schedule of some producers has one entry for each.
LEMMA EntriesOf ==
    ASSUME NEW S, IsFiniteSet(S), Cardinality(S) <= NUM_OF_TOP_BPS,
           S \subseteq Registered, \A p \in S : bps[p].block_signing_key \in Key
    PROVE  LET schedule == {Entry(p) : p \in S}
           IN  Schedule(schedule, Registered) /\ Names(schedule) = S
  <1> DEFINE schedule == {Entry(p) : p \in S}
             f == [p \in S |-> Entry(p)]
  <1>1. \A p \in S : Entry(p) \in Registered \X Key /\ Entry(p)[1] = p
    BY DEF Entry
  <1>2. Names(schedule) = S
    BY <1>1 DEF Names
  <1>3. f \in Surjection(S, schedule)
    BY DEF Surjection
  <1>4. f \in Injection(S, schedule)
    <2>1. f \in [S -> schedule] /\ DOMAIN f = S
      OBVIOUS
    <2>2. \A p, q \in S : f[p] = f[q] => p = q
      BY <1>1
    <2> HIDE DEF f, schedule
    <2>3. QED
      BY <2>1, <2>2 DEF Injection, IsInjective
  <1>5. PICK g, T : g = f /\ T = schedule
    OBVIOUS
  <1> HIDE DEF f
  <1>6. g \in Surjection(S, T) /\ g \in Injection(S, T)
    BY <1>3, <1>4, <1>5
  <1>7. Cardinality(T) = Cardinality(S)
    BY <1>6, FS_Surjection
  <1>8. schedule \subseteq Registered \X Key
    BY <1>1
  <1> HIDE DEF schedule
  <1>9. Schedule(schedule, Registered) /\ Names(schedule) = S
    BY <1>2, <1>5, <1>7, <1>8 DEF Schedule
  <1>10. QED
    BY <1>9 DEF schedule

\* What onblock offers the chain is a schedule.
LEMMA ElectedIsSchedule ==
    ASSUME Rows
    PROVE  Schedule(Elected, Registered)
  <1>1. TopOf(VoteSchedule, Candidates)
    BY RowsHaveVotes, ScheduleIsTop
  <1>2. IsFiniteSet(ToSet(VoteSchedule)) /\ Cardinality(ToSet(VoteSchedule)) = Len(VoteSchedule)
    BY <1>1, RowsHaveVotes, CandidatesAreProducers, TopIsFinite
  <1>3. Len(VoteSchedule) <= NUM_OF_TOP_BPS
    BY <1>1 DEF TopOf
  <1>4. ToSet(VoteSchedule) \subseteq Registered
    <2>1. ToSet(VoteSchedule) = BestOf(Candidates)
      BY <1>1, RowsHaveVotes, CandidatesAreProducers, TopIsBest
    <2>2. QED
      BY <2>1, CandidatesAreProducers DEF BestOf
  <1>5. \A p \in Registered : bps[p].block_signing_key \in Key
    BY DEF Rows, Registered
  <1>6. PICK S : S = ToSet(VoteSchedule)
    OBVIOUS
  <1>7. /\ IsFiniteSet(S) /\ Cardinality(S) <= NUM_OF_TOP_BPS /\ S \subseteq Registered
        /\ \A p \in S : bps[p].block_signing_key \in Key
    BY <1>2, <1>3, <1>4, <1>5, <1>6
  <1>8. Schedule({Entry(p) : p \in S}, Registered)
    BY <1>7, EntriesOf
  <1>9. QED
    BY <1>6, <1>8 DEF Elected

\* A schedule stays one when more producers are registered.
LEMMA ScheduleMonotonic ==
    ASSUME NEW R, NEW T, R \subseteq T, NEW schedule, Schedule(schedule, R)
    PROVE  Schedule(schedule, T)
    BY DEF Schedule

-----------------------------------------------------------------------------
(* Type correctness *)

LEMMA InitTypeOK == Init => TypeOK
  <1> SUFFICES ASSUME Init PROVE TypeOK
    OBVIOUS
  <1>1. PICK key \in Key :
           bps = [p \in Producer |-> [exists |-> p \in FirstProducers, block_signing_key |-> key,
                                      total_staked |-> 0, emergency |-> FALSE]]
    BY DEF Init
  <1>2. Rows
    BY <1>1, ElectionAssumption DEF Rows
  <1>3. Registered = FirstProducers
    BY <1>1, ElectionAssumption DEF Registered
  <1>4. PICK first \in SUBSET FirstProducers :
           Cardinality(first) = NUM_OF_TOP_BPS /\ active = {Entry(p) : p \in first}
    BY DEF Init
  <1>5. NUM_OF_TOP_BPS \in Nat \ {0} /\ UPDATE_CYCLE \in Nat \ {0} /\ MaxUntilOpen \in Nat
    BY ElectionAssumption
  <1>6. IsFiniteSet(first)
    <2>1. first \in SUBSET Producer /\ IsFiniteSet(Producer)
      BY ElectionAssumption
    <2>2. QED
      BY <2>1, FS_Subset
  <1>7. Schedule(active, Registered) /\ Names(active) = first
    <2>1. \A p \in first : bps[p].block_signing_key \in Key
      BY <1>1, ElectionAssumption
    <2>2. QED
      BY <1>3, <1>4, <1>5, <1>6, <2>1, EntriesOf
  <1>8. active # NoSchedule
    <2>1. first # {}
      BY <1>4, <1>5, FS_EmptySet
    <2>2. QED
      BY <1>4, <2>1 DEF NoSchedule
  <1>9. Schedule(proposed, Registered) /\ Schedule(pending, Registered)
    BY NoScheduleIsSchedule DEF Init
  <1>10. /\ cycle \in 0..(UPDATE_CYCLE - 1) /\ untilOpen \in 0..MaxUntilOpen
         /\ blackpro \subseteq Producer /\ punished \subseteq Producer
         /\ emergency \in BOOLEAN /\ ~emergency
    <2>1. cycle = 0 /\ untilOpen \in {0, MaxUntilOpen} /\ blackpro = {} /\ punished = {}
      BY DEF Init
    <2>2. emergency = FALSE
      BY DEF Init
    <2>3. cycle \in 0..(UPDATE_CYCLE - 1) /\ untilOpen \in 0..MaxUntilOpen
      BY <1>5, <2>1
    <2>4. emergency \in BOOLEAN /\ ~emergency
      BY <2>2
    <2>5. QED
      BY <2>1, <2>3, <2>4
  <1>11. QED
    BY <1>2, <1>7, <1>8, <1>9, <1>10, TypeParts

\* Whoever calls an emergency is registered, and there are finitely many.
LEMMA CallersFinite ==
    ASSUME NEW R \in SUBSET Producer, NEW S \in SUBSET R
    PROVE  IsFiniteSet(R) /\ Cardinality(S) \in Nat /\ Cardinality(R) \in Nat
           /\ Cardinality(S) <= Cardinality(R)
  <1>1. IsFiniteSet(Producer)
    BY ElectionAssumption
  <1>2. IsFiniteSet(R)
    BY <1>1, FS_Subset
  <1>3. IsFiniteSet(S) /\ Cardinality(S) <= Cardinality(R)
    BY <1>2, FS_Subset
  <1>4. QED
    BY <1>2, <1>3, FS_CardinalityType

\* What a change of rows alone needs: the producers stay registered, and the
\* emergency, if there is one, is still called by as many.
LEMMA RowsChange ==
    ASSUME TypeOK, Rows', Registered \subseteq Registered',
           emergency' \in BOOLEAN,
           emergency' => Cardinality(CallingEmergency') > (NUM_OF_TOP_BPS * 2) \div 3,
           UNCHANGED <<cycle, untilOpen, blackpro, punished, schedules>>
    PROVE  TypeOK'
  <1>1. /\ cycle' = cycle /\ untilOpen' = untilOpen /\ blackpro' = blackpro
        /\ punished' = punished /\ proposed' = proposed /\ pending' = pending
        /\ active' = active
    BY DEF schedules
  <1>2. /\ Schedule(proposed, Registered') /\ Schedule(pending, Registered')
        /\ Schedule(active, Registered')
    <2>1. PICK R, T : R = Registered /\ T = Registered'
      OBVIOUS
    <2>2. R \subseteq T /\ Schedule(proposed, R) /\ Schedule(pending, R) /\ Schedule(active, R)
      BY <2>1, TypeParts
    <2>3. Schedule(proposed, T) /\ Schedule(pending, T) /\ Schedule(active, T)
      BY <2>2 DEF Schedule
    <2>4. QED
      BY <2>1, <2>3
  <1>3. /\ Schedule(proposed, Registered)' /\ Schedule(pending, Registered)'
        /\ Schedule(active, Registered)' /\ (active # NoSchedule)'
    BY <1>1, <1>2, TypeParts DEF Schedule, Names, NoSchedule
  <1>4. /\ (cycle \in 0..(UPDATE_CYCLE - 1))' /\ (untilOpen \in 0..MaxUntilOpen)'
        /\ (blackpro \subseteq Producer)' /\ (punished \subseteq Producer)'
    BY <1>1, TypeParts
  <1>5. (TypeOK <=>
            /\ cycle \in 0..(UPDATE_CYCLE - 1) /\ untilOpen \in 0..MaxUntilOpen
            /\ Rows /\ blackpro \subseteq Producer /\ punished \subseteq Producer
            /\ emergency \in BOOLEAN
            /\ emergency => Cardinality(CallingEmergency) > (NUM_OF_TOP_BPS * 2) \div 3
            /\ Schedule(proposed, Registered) /\ Schedule(pending, Registered)
            /\ Schedule(active, Registered) /\ active # NoSchedule)'
    BY TypeParts, PTL
  <1>6. QED
    BY <1>3, <1>4, <1>5

\* What a step that leaves the rows alone needs: its new schedules are some.
LEMMA ScheduleStep ==
    ASSUME TypeOK, UNCHANGED <<bps, emergency>>,
           cycle' \in 0..(UPDATE_CYCLE - 1), untilOpen' \in 0..MaxUntilOpen,
           blackpro' \subseteq Producer, punished' \subseteq Producer,
           Schedule(proposed', Registered), Schedule(pending', Registered),
           Schedule(active', Registered), active' # NoSchedule
    PROVE  TypeOK'
  <1>1. bps' = bps /\ emergency' = emergency
    OBVIOUS
  <1>2. Registered' = Registered /\ CallingEmergency' = CallingEmergency
    BY <1>1 DEF Registered, CallingEmergency
  <1>3. Rows'
    BY <1>1, TypeParts DEF Rows
  <1>4. /\ (emergency \in BOOLEAN)'
        /\ (emergency => Cardinality(CallingEmergency) > (NUM_OF_TOP_BPS * 2) \div 3)'
    BY <1>1, <1>2, TypeParts
  <1>5. /\ Schedule(proposed, Registered)' /\ Schedule(pending, Registered)'
        /\ Schedule(active, Registered)' /\ (active # NoSchedule)'
    BY <1>2 DEF Schedule, Names, NoSchedule
  <1>6. (TypeOK <=>
            /\ cycle \in 0..(UPDATE_CYCLE - 1) /\ untilOpen \in 0..MaxUntilOpen
            /\ Rows /\ blackpro \subseteq Producer /\ punished \subseteq Producer
            /\ emergency \in BOOLEAN
            /\ emergency => Cardinality(CallingEmergency) > (NUM_OF_TOP_BPS * 2) \div 3
            /\ Schedule(proposed, Registered) /\ Schedule(pending, Registered)
            /\ Schedule(active, Registered) /\ active # NoSchedule)'
    BY TypeParts, PTL
  <1>7. QED
    BY <1>3, <1>4, <1>5, <1>6

LEMMA NextTypeOK == TypeOK /\ [Next]_vars => TypeOK'
  <1> SUFFICES ASSUME TypeOK, [Next]_vars PROVE TypeOK'
    OBVIOUS
  <1>1. /\ cycle \in 0..(UPDATE_CYCLE - 1) /\ untilOpen \in 0..MaxUntilOpen
        /\ Rows /\ blackpro \subseteq Producer /\ punished \subseteq Producer
        /\ emergency \in BOOLEAN
        /\ emergency => Cardinality(CallingEmergency) > (NUM_OF_TOP_BPS * 2) \div 3
        /\ Schedule(proposed, Registered) /\ Schedule(pending, Registered)
        /\ Schedule(active, Registered) /\ active # NoSchedule
    BY TypeParts
  <1>2. /\ UPDATE_CYCLE \in Nat \ {0} /\ MaxUntilOpen \in Nat /\ NUM_OF_TOP_BPS \in Nat \ {0}
        /\ Removable \subseteq Producer /\ Punishable \subseteq Producer
        /\ Caller \subseteq Producer
    BY ElectionAssumption
  <1>3. Registered \in SUBSET Producer /\ Registered' \in SUBSET Producer
    BY DEF Registered
  <1>4. (NUM_OF_TOP_BPS * 2) \div 3 \in Nat
    <2>1. PICK n \in Nat : n = NUM_OF_TOP_BPS * 2
      BY <1>2
    <2>2. n \div 3 \in Nat
      OBVIOUS
    <2>3. QED
      BY <2>1, <2>2
  <1>5. ASSUME NEW p \in Producer, NEW key \in Key, UpdateBp(p, key)
        PROVE  TypeOK'
    <2>1. /\ bps' = [bps EXCEPT ![p] = [@ EXCEPT !.exists = TRUE, !.block_signing_key = key]]
          /\ UNCHANGED <<cycle, untilOpen, blackpro, punished, schedules>>
          /\ emergency' = emergency
      BY <1>5 DEF UpdateBp
    <2>2. Rows'
      BY <1>1, <2>1 DEF Rows
    <2>3. \A q \in Producer : /\ bps'[q].emergency = bps[q].emergency
                              /\ bps[q].exists => bps'[q].exists
      BY <1>1, <2>1 DEF Rows
    <2>4. Registered \subseteq Registered' /\ CallingEmergency \in SUBSET CallingEmergency'
      BY <2>3 DEF Registered, CallingEmergency
    <2>5. emergency' => Cardinality(CallingEmergency') > (NUM_OF_TOP_BPS * 2) \div 3
      <3>1. CallingEmergency' \in SUBSET Producer
        BY <1>3 DEF CallingEmergency
      <3>2. PICK R, S : R = CallingEmergency' /\ S = CallingEmergency
        OBVIOUS
      <3>3. /\ Cardinality(S) \in Nat /\ Cardinality(R) \in Nat
            /\ Cardinality(S) <= Cardinality(R)
        BY <2>4, <3>1, <3>2, CallersFinite
      <3>4. emergency' => Cardinality(S) > (NUM_OF_TOP_BPS * 2) \div 3
        BY <1>1, <2>1, <3>2
      <3>5. Cardinality(S) > (NUM_OF_TOP_BPS * 2) \div 3
              => Cardinality(R) > (NUM_OF_TOP_BPS * 2) \div 3
        BY <1>4, <3>3
      <3>6. QED
        BY <3>2, <3>4, <3>5
    <2>6. emergency' \in BOOLEAN
      BY <1>1, <2>1
    <2>7. QED
      BY <2>1, <2>2, <2>4, <2>5, <2>6, RowsChange
  <1>6. ASSUME NEW p \in Producer, NEW s \in Stake, Voted(p, s)
        PROVE  TypeOK'
    <2>1. /\ bps' = [bps EXCEPT ![p].total_staked = s]
          /\ UNCHANGED <<cycle, untilOpen, blackpro, punished, schedules>>
          /\ emergency' = emergency
      BY <1>6 DEF Voted
    <2>2. Rows'
      BY <1>1, <2>1 DEF Rows
    <2>3. \A q \in Producer : /\ bps'[q].emergency = bps[q].emergency
                              /\ bps'[q].exists = bps[q].exists
      BY <1>1, <2>1 DEF Rows
    <2>4. Registered' = Registered /\ CallingEmergency' = CallingEmergency
      BY <2>3 DEF Registered, CallingEmergency
    <2>5. /\ emergency' \in BOOLEAN
          /\ emergency' => Cardinality(CallingEmergency') > (NUM_OF_TOP_BPS * 2) \div 3
      BY <1>1, <2>1, <2>4
    <2>6. Registered \subseteq Registered'
      BY <2>4
    <2>7. QED
      BY <2>1, <2>2, <2>5, <2>6, RowsChange
  <1>7. ASSUME NEW p \in Removable, RemoveBp(p)
        PROVE  TypeOK'
    <2>1. /\ UNCHANGED <<bps, emergency>> /\ blackpro' = blackpro \cup {p}
          /\ cycle' = cycle /\ untilOpen' = untilOpen /\ punished' = punished
          /\ proposed' = proposed /\ pending' = pending /\ active' = active
      BY <1>7 DEF RemoveBp, schedules
    <2>2. blackpro' \subseteq Producer
      BY <1>1, <1>2, <2>1
    <2>3. QED
      BY <1>1, <2>1, <2>2, ScheduleStep
  <1>8. ASSUME NEW p \in Punishable, Punished(p)
        PROVE  TypeOK'
    <2>1. /\ UNCHANGED <<bps, emergency>> /\ punished' = (punished \ {p}) \cup ({p} \ punished)
          /\ cycle' = cycle /\ untilOpen' = untilOpen /\ blackpro' = blackpro
          /\ proposed' = proposed /\ pending' = pending /\ active' = active
      BY <1>8 DEF Punished, schedules
    <2>2. punished' \subseteq Producer
      BY <1>1, <1>2, <2>1
    <2>3. QED
      BY <1>1, <2>1, <2>2, ScheduleStep
  <1>9. ASSUME NEW p \in Caller, NEW value \in BOOLEAN, SetEmergency(p, value)
        PROVE  TypeOK'
    <2>1. /\ bps[p].exists /\ Names(active) \subseteq Registered
          /\ bps' = [bps EXCEPT ![p].emergency = value]
          /\ UNCHANGED <<cycle, untilOpen, blackpro, punished, schedules>>
      BY <1>9 DEF SetEmergency
    <2>2. emergency' = EmergencyOf(bps')
      BY <1>9 DEF SetEmergency
    <2>3. Rows'
      BY <1>1, <2>1 DEF Rows
    <2>4. \A q \in Producer : bps'[q].exists = bps[q].exists
      BY <1>1, <2>1 DEF Rows
    <2>5. Registered' = Registered
      BY <2>4 DEF Registered
    <2>6. {q \in Names(active) : bps'[q].emergency} \in SUBSET CallingEmergency'
      BY <2>1, <2>5 DEF CallingEmergency
    <2>7. emergency' \in BOOLEAN
      BY <2>2 DEF EmergencyOf
    <2>8. emergency' => Cardinality(CallingEmergency') > (NUM_OF_TOP_BPS * 2) \div 3
      <3>1. CallingEmergency' \in SUBSET Producer
        BY <1>3 DEF CallingEmergency
      <3>2. PICK R, S : R = CallingEmergency' /\ S = {q \in Names(active) : bps'[q].emergency}
        OBVIOUS
      <3>3. /\ Cardinality(S) \in Nat /\ Cardinality(R) \in Nat
            /\ Cardinality(S) <= Cardinality(R)
        BY <2>6, <3>1, <3>2, CallersFinite
      <3>4. emergency' => Cardinality(S) > (NUM_OF_TOP_BPS * 2) \div 3
        BY <2>2, <3>2 DEF EmergencyOf
      <3>5. Cardinality(S) > (NUM_OF_TOP_BPS * 2) \div 3
              => Cardinality(R) > (NUM_OF_TOP_BPS * 2) \div 3
        BY <1>4, <3>3
      <3>6. QED
        BY <3>2, <3>4, <3>5
    <2>9. Registered \subseteq Registered'
      BY <2>5
    <2>10. QED
      BY <2>1, <2>3, <2>7, <2>8, <2>9, RowsChange
  <1>10. ASSUME OnBlock PROVE TypeOK'
    <2>1. /\ UNCHANGED <<bps, emergency>> /\ cycle' = (cycle + 1) % UPDATE_CYCLE
          /\ untilOpen' = IF untilOpen > 0 THEN untilOpen - 1 ELSE 0
          /\ blackpro' = blackpro /\ punished' = punished
          /\ pending' = pending /\ active' = active
      BY <1>10 DEF OnBlock, registryVars
    <2>2. cycle' \in 0..(UPDATE_CYCLE - 1)
      <3>1. \A n \in Nat : \A m \in Nat \ {0} : n % m \in 0..(m - 1)
        OBVIOUS
      <3>2. cycle + 1 \in Nat
        BY <1>1, <1>2
      <3>3. QED
        BY <1>2, <2>1, <3>1, <3>2
    <2>3. untilOpen' \in 0..MaxUntilOpen
      BY <1>1, <1>2, <2>1
    <2>4. proposed' = proposed \/ proposed' = Elected
      BY <1>10 DEF OnBlock, SetProposedProducers
    <2>5. Schedule(proposed', Registered)
      BY <1>1, <2>4, ElectedIsSchedule
    <2>6. QED
      BY <1>1, <2>1, <2>2, <2>3, <2>5, ScheduleStep
  <1>11. ASSUME BecomePending PROVE TypeOK'
    <2>1. /\ UNCHANGED <<bps, emergency>> /\ cycle' = cycle /\ untilOpen' = untilOpen
          /\ blackpro' = blackpro /\ punished' = punished /\ active' = active
          /\ pending' = proposed /\ proposed' = NoSchedule
      BY <1>11 DEF BecomePending, registryVars
    <2>2. Schedule(pending', Registered) /\ Schedule(proposed', Registered)
      BY <1>1, <2>1, NoScheduleIsSchedule
    <2>3. QED
      BY <1>1, <2>1, <2>2, ScheduleStep
  <1>12. ASSUME BecomeActive PROVE TypeOK'
    <2>1. /\ UNCHANGED <<bps, emergency>> /\ cycle' = cycle /\ untilOpen' = untilOpen
          /\ blackpro' = blackpro /\ punished' = punished /\ proposed' = proposed
          /\ pending # NoSchedule /\ active' = pending /\ pending' = NoSchedule
      BY <1>12 DEF BecomeActive, registryVars
    <2>2. Schedule(pending', Registered) /\ Schedule(active', Registered)
      BY <1>1, <2>1, NoScheduleIsSchedule
    <2>3. QED
      BY <1>1, <2>1, <2>2, ScheduleStep
  <1>13. CASE UNCHANGED vars
    <2>1. /\ UNCHANGED <<bps, emergency>> /\ cycle' = cycle /\ untilOpen' = untilOpen
          /\ blackpro' = blackpro /\ punished' = punished
          /\ proposed' = proposed /\ pending' = pending /\ active' = active
      BY <1>13 DEF vars, registryVars, schedules
    <2>2. QED
      BY <1>1, <2>1, ScheduleStep
  <1>14. QED
    BY <1>5, <1>6, <1>7, <1>8, <1>9, <1>10, <1>11, <1>12, <1>13 DEF Next

\* The schedules of the chain are of registered producers, at most
\* NUM_OF_TOP_BPS and each once, there is always one in use, and an emergency
\* is called by more than two thirds, in every reachable state and for all
\* constants.
THEOREM TypeCorrect == Spec => []TypeOK
  <1>1. Init => TypeOK
    BY InitTypeOK
  <1>2. TypeOK /\ [Next]_vars => TypeOK'
    BY NextTypeOK
  <1>3. QED
    BY <1>1, <1>2, PTL DEF Spec

-----------------------------------------------------------------------------
(* What the election promises *)

LEMMA TypeMeansBest == TypeOK => ElectedAreBest
  <1> SUFFICES ASSUME TypeOK PROVE ElectedAreBest
    OBVIOUS
  <1>1. Votes
    BY TypeParts, RowsHaveVotes
  <1>2. TopOf(VoteSchedule, Candidates)
    BY <1>1, ScheduleIsTop
  <1>3. ToSet(VoteSchedule) = BestOf(Candidates)
    BY <1>1, <1>2, CandidatesAreProducers, TopIsBest
  <1>4. QED
    BY <1>3 DEF ElectedAreBest, BestOf

\* update_elected_bps elects the NUM_OF_TOP_BPS candidates with the most
\* votes, of equals the later names, whatever was voted, registered, banned
\* and punished before (onblock.cpp:113).
THEOREM AlwaysElectsBest == Spec => []ElectedAreBest
  <1>1. TypeOK => ElectedAreBest
    BY TypeMeansBest
  <1>2. QED
    BY <1>1, TypeCorrect, PTL

\* A schedule that is too short and the last on its way is final: onblock
\* returns before it elects (onblock.cpp:21).
THEOREM ShortAlwaysFinal == Spec => ShortIsFinal
  <1> DEFINE Final == Cardinality(active) < NUM_OF_TOP_BPS /\ proposed = NoSchedule
                        /\ pending = NoSchedule => UNCHANGED schedules
  <1>1. [Next]_vars => [Final]_vars
    <2> SUFFICES ASSUME [Next]_vars,
                        Cardinality(active) < NUM_OF_TOP_BPS, proposed = NoSchedule,
                        pending = NoSchedule
                 PROVE  UNCHANGED schedules
      OBVIOUS
    <2>1. CASE OnBlock
      BY <2>1 DEF OnBlock, Short, schedules
    <2>2. CASE BecomePending \/ BecomeActive
      BY <2>2 DEF BecomePending, BecomeActive
    <2>3. CASE UNCHANGED vars
      BY <2>3 DEF vars
    <2>4. ASSUME NEW p \in Producer, NEW key \in Key, UpdateBp(p, key)
          PROVE  UNCHANGED schedules
      BY <2>4 DEF UpdateBp
    <2>5. ASSUME NEW p \in Producer, NEW s \in Stake, Voted(p, s)
          PROVE  UNCHANGED schedules
      BY <2>5 DEF Voted
    <2>6. ASSUME NEW p \in Removable, RemoveBp(p) PROVE UNCHANGED schedules
      BY <2>6 DEF RemoveBp
    <2>7. ASSUME NEW p \in Punishable, Punished(p) PROVE UNCHANGED schedules
      BY <2>7 DEF Punished
    <2>8. ASSUME NEW p \in Caller, NEW value \in BOOLEAN, SetEmergency(p, value)
          PROVE  UNCHANGED schedules
      BY <2>8 DEF SetEmergency
    <2>9. QED
      BY <2>1, <2>2, <2>3, <2>4, <2>5, <2>6, <2>7, <2>8 DEF Next
  <1>2. QED
    BY <1>1, PTL DEF Spec, ShortIsFinal
=============================================================================
