-------------------------------- MODULE Sums --------------------------------
(***************************************************************************)
(* First-order facts about SumFunctionOnSet of the community modules: what *)
(* the sum of an integer function over a finite set of indices is, and how *)
(* it changes when one index is added, removed or given another value;     *)
(* and about the division that rounds a share of such a sum down.          *)
(* The library's induction principles take an operator as a parameter,     *)
(* so the facts are proved here by a minimal counterexample: among the     *)
(* finite subsets that violate a fact, one contains no smaller one.        *)
(***************************************************************************)
EXTENDS Integers, FiniteSets, Functions, FiniteSetTheorems, TLAPS

\* The recursive equation behind SumFunctionOnSet.
IsIter(g, f, S) ==
    g = [s \in SUBSET S |->
           IF s = {} THEN 0
           ELSE f[CHOOSE x \in s : TRUE] + g[s \ {CHOOSE x \in s : TRUE}]]

\* The community operator is the value at S of a function that solves it.
LEMMA SumIsIter ==
    ASSUME NEW f, NEW S
    PROVE  SumFunctionOnSet(f, S) = (CHOOSE g : IsIter(g, f, S))[S]
    BY DEF SumFunctionOnSet, FoldFunctionOnSet, MapThenFoldSet, IsIter

\* A non-empty family of subsets of a finite set has a minimal member.
LEMMA MinimalSubset ==
    ASSUME NEW S, IsFiniteSet(S), NEW B \in SUBSET (SUBSET S), B # {}
    PROVE  \E T \in B : \A U \in B : ~(U \subseteq T /\ U # T)
  <1>1. IsWellFoundedOn(StrictSubsetOrdering(S), SUBSET S)
    BY FS_StrictSubsetOrderingWellFounded, FS_FiniteSubsetsOfFinite
  <1>2. PICK T \in B : \A U \in B : ~(<<U, T>> \in StrictSubsetOrdering(S))
    BY <1>1, WFMin
  <1>3. QED
    BY <1>2 DEF StrictSubsetOrdering

\* Two solutions agree wherever both are defined.
LEMMA IterUnique ==
    ASSUME NEW f, NEW S, IsFiniteSet(S), NEW T \in SUBSET S,
           NEW g, NEW h, IsIter(g, f, S), IsIter(h, f, T)
    PROVE  \A s \in SUBSET T : g[s] = h[s]
  <1> DEFINE Bad == {s \in SUBSET T : g[s] # h[s]}
  <1>1. SUFFICES ASSUME Bad # {} PROVE FALSE
    OBVIOUS
  <1>2. IsFiniteSet(T) /\ Bad \in SUBSET (SUBSET T)
    BY FS_Subset
  <1>3. PICK s \in Bad : \A u \in Bad : ~(u \subseteq s /\ u # s)
    <2> HIDE DEF Bad
    <2> QED BY <1>1, <1>2, MinimalSubset
  <1>4. CASE s = {}
    BY <1>3, <1>4 DEF IsIter
  <1>5. CASE s # {}
    <2> DEFINE x == CHOOSE x \in s : TRUE
    <2>1. x \in s
      BY <1>5
    <2>2. s \ {x} \in SUBSET T /\ s \ {x} \subseteq s /\ s \ {x} # s
      BY <2>1, <1>3
    <2>3. g[s \ {x}] = h[s \ {x}]
      BY <2>2, <1>3
    <2>4. /\ g[s] = f[x] + g[s \ {x}]
          /\ h[s] = f[x] + h[s \ {x}]
      BY <1>3, <1>5 DEF IsIter
    <2>5. QED
      BY <2>3, <2>4, <1>3
  <1>6. QED
    BY <1>4, <1>5

\* The equation has a solution on every finite set.
LEMMA IterExists ==
    ASSUME NEW f, NEW S, IsFiniteSet(S)
    PROVE  \E g : IsIter(g, f, S)
  <1> DEFINE Bad == {T \in SUBSET S : ~ \E g : IsIter(g, f, T)}
  <1>1. SUFFICES ASSUME Bad # {} PROVE FALSE
    OBVIOUS
  <1>2. PICK T \in Bad : \A U \in Bad : ~(U \subseteq T /\ U # T)
    <2>1. Bad \in SUBSET (SUBSET S)
      OBVIOUS
    <2> HIDE DEF Bad
    <2> QED BY <1>1, <2>1, MinimalSubset
  <1> DEFINE G(u) == CHOOSE g : IsIter(g, f, u)
             pick(s) == CHOOSE x \in s : TRUE
             h == [s \in SUBSET T |->
                     IF s = {} THEN 0
                     ELSE f[pick(s)] + G(s \ {pick(s)})[s \ {pick(s)}]]
  <1>3. ASSUME NEW u \in SUBSET T, u # T
        PROVE  IsIter(G(u), f, u) /\ IsFiniteSet(u)
    <2>1. u \in SUBSET S /\ u \notin Bad
      BY <1>2, <1>3
    <2>2. \E g : IsIter(g, f, u)
      BY <2>1
    <2>3. QED
      BY <2>1, <2>2, FS_Subset
  <1>4. ASSUME NEW u \in SUBSET T, u # T
        PROVE  h[u] = G(u)[u]
    <2>1. IsIter(G(u), f, u) /\ IsFiniteSet(u)
      BY <1>3, <1>4
    <2>2. CASE u = {}
      <3>1. G(u)[u] = 0
        BY <2>1, <2>2 DEF IsIter
      <3>2. QED
        BY <3>1, <2>2
    <2>3. CASE u # {}
      <3> DEFINE v == u \ {pick(u)}
      <3>1. pick(u) \in u
        BY <2>3
      <3>2. v \in SUBSET u /\ v \in SUBSET T /\ v # T
        BY <3>1, <1>4
      <3>3. IsIter(G(v), f, v)
        BY <3>2, <1>3
      <3>4. G(u)[v] = G(v)[v]
        <4> HIDE DEF v, G
        <4> QED BY <2>1, <3>2, <3>3, IterUnique
      <3>5. G(u)[u] = f[pick(u)] + G(u)[v]
        BY <2>1, <2>3 DEF IsIter
      <3>6. h[u] = f[pick(u)] + G(v)[v]
        BY <2>3
      <3>7. QED
        BY <3>4, <3>5, <3>6
    <2>4. QED
      BY <2>2, <2>3
  <1>5. ASSUME NEW s \in SUBSET T, s # {}
        PROVE  h[s] = f[pick(s)] + h[s \ {pick(s)}]
    <2> DEFINE v == s \ {pick(s)}
    <2>1. pick(s) \in s
      BY <1>5
    <2>2. v \in SUBSET T /\ v # T
      BY <2>1
    <2>3. h[v] = G(v)[v]
      BY <2>2, <1>4
    <2>4. h[s] = f[pick(s)] + G(v)[v]
      BY <1>5
    <2>5. QED
      BY <2>3, <2>4
  <1>6. IsIter(h, f, T)
    <2>1. h[{}] = 0
      OBVIOUS
    <2>2. h = [s \in SUBSET T |-> h[s]]
      OBVIOUS
    <2> HIDE DEF h
    <2>3. QED
      BY <1>5, <2>1, <2>2 DEF IsIter
  <1>7. QED
    BY <1>6, <1>2

-----------------------------------------------------------------------------
\* The sum unfolds over the element the definition chooses.
LEMMA SumChoose ==
    ASSUME NEW f, NEW S, IsFiniteSet(S)
    PROVE  SumFunctionOnSet(f, S) =
              IF S = {} THEN 0
              ELSE f[CHOOSE x \in S : TRUE]
                   + SumFunctionOnSet(f, S \ {CHOOSE x \in S : TRUE})
  <1> DEFINE G(u) == CHOOSE g : IsIter(g, f, u)
             v == S \ {CHOOSE x \in S : TRUE}
  <1>1. IsIter(G(S), f, S) /\ IsFiniteSet(v) /\ IsIter(G(v), f, v)
    <2>1. IsFiniteSet(v)
      BY FS_Subset
    <2>2. QED
      BY <2>1, IterExists
  <1>2. G(S)[v] = G(v)[v]
    <2>1. v \in SUBSET S
      OBVIOUS
    <2> HIDE DEF G, v
    <2> QED BY <1>1, <2>1, IterUnique
  <1>3. G(S)[S] = IF S = {} THEN 0 ELSE f[CHOOSE x \in S : TRUE] + G(S)[v]
    BY <1>1 DEF IsIter
  <1>4. SumFunctionOnSet(f, S) = G(S)[S] /\ SumFunctionOnSet(f, v) = G(v)[v]
    BY SumIsIter
  <1>5. QED
    BY <1>2, <1>3, <1>4

\* The sum over no index is zero.
LEMMA SumEmpty ==
    ASSUME NEW f
    PROVE  SumFunctionOnSet(f, {}) = 0
    BY SumChoose, FS_EmptySet

\* A sum of integers is an integer.
LEMMA SumInt ==
    ASSUME NEW f, NEW S, IsFiniteSet(S), \A s \in S : f[s] \in Int
    PROVE  SumFunctionOnSet(f, S) \in Int
  <1> DEFINE Bad == {T \in SUBSET S : SumFunctionOnSet(f, T) \notin Int}
  <1>1. SUFFICES ASSUME Bad # {} PROVE FALSE
    OBVIOUS
  <1>2. PICK T \in Bad : \A U \in Bad : ~(U \subseteq T /\ U # T)
    <2>1. Bad \in SUBSET (SUBSET S)
      OBVIOUS
    <2> HIDE DEF Bad
    <2> QED BY <1>1, <2>1, MinimalSubset
  <1>3. IsFiniteSet(T) /\ T # {}
    <2>1. T \in SUBSET S /\ SumFunctionOnSet(f, T) \notin Int
      BY <1>2
    <2>2. SumFunctionOnSet(f, {}) \in Int
      BY SumEmpty
    <2>3. QED
      BY <2>1, <2>2, FS_Subset
  <1> DEFINE x == CHOOSE x \in T : TRUE
  <1>4. x \in T /\ T \ {x} \in SUBSET S
    BY <1>3
  <1>5. SumFunctionOnSet(f, T \ {x}) \in Int
    BY <1>2, <1>4
  <1>6. SumFunctionOnSet(f, T) = f[x] + SumFunctionOnSet(f, T \ {x})
    BY <1>3, SumChoose
  <1>7. QED
    BY <1>2, <1>4, <1>5, <1>6

\* The sum unfolds over any element, whatever the definition chooses.
LEMMA SumRemove ==
    ASSUME NEW f, NEW S, IsFiniteSet(S), \A s \in S : f[s] \in Int,
           NEW y \in S
    PROVE  SumFunctionOnSet(f, S) = f[y] + SumFunctionOnSet(f, S \ {y})
  <1> DEFINE Sum(T) == SumFunctionOnSet(f, T)
             Bad == {T \in SUBSET S : \E z \in T : Sum(T) # f[z] + Sum(T \ {z})}
  <1>1. SUFFICES ASSUME Bad # {} PROVE FALSE
    OBVIOUS
  <1>2. PICK T \in Bad : \A U \in Bad : ~(U \subseteq T /\ U # T)
    <2>1. Bad \in SUBSET (SUBSET S)
      OBVIOUS
    <2> HIDE DEF Bad
    <2> QED BY <1>1, <2>1, MinimalSubset
  <1>3. PICK z \in T : Sum(T) # f[z] + Sum(T \ {z})
    BY <1>2
  <1> DEFINE x == CHOOSE x \in T : TRUE
  <1>4. x \in T /\ Sum(T) = f[x] + Sum(T \ {x})
    <2>1. IsFiniteSet(T)
      BY <1>2, FS_Subset
    <2>2. QED
      BY <2>1, <1>3, SumChoose
  <1>5. x # z
    BY <1>3, <1>4
  <1> HIDE DEF x
  <1>6. T \ {x} \notin Bad /\ T \ {z} \notin Bad
    <2>1. /\ T \ {x} \subseteq T /\ T \ {x} # T
          /\ T \ {z} \subseteq T /\ T \ {z} # T
      BY <1>3, <1>4
    <2> HIDE DEF Bad
    <2>2. QED
      BY <1>2, <2>1
  <1>7. /\ Sum(T \ {x}) = f[z] + Sum((T \ {x}) \ {z})
        /\ Sum(T \ {z}) = f[x] + Sum((T \ {z}) \ {x})
    BY <1>2, <1>3, <1>4, <1>5, <1>6
  <1>8. (T \ {x}) \ {z} = (T \ {z}) \ {x}
    OBVIOUS
  <1>9. Sum((T \ {x}) \ {z}) \in Int
    <2>1. (T \ {x}) \ {z} \in SUBSET S
      BY <1>2
    <2>2. IsFiniteSet((T \ {x}) \ {z})
      BY <2>1, FS_Subset
    <2>3. QED
      BY <2>1, <2>2, SumInt
  <1>10. f[x] \in Int /\ f[z] \in Int
    BY <1>2, <1>3, <1>4
  <1> HIDE DEF Sum
  <1> DEFINE d == Sum((T \ {x}) \ {z})
  <1>11. Sum(T) = f[x] + (f[z] + d) /\ Sum(T \ {z}) = f[x] + d
    BY <1>4, <1>7, <1>8
  <1>12. f[x] + (f[z] + d) = f[z] + (f[x] + d)
    <2> HIDE DEF d
    <2> QED BY <1>9, <1>10 DEF d
  <1>13. QED
    BY <1>3, <1>11, <1>12
-----------------------------------------------------------------------------
\* The sum of a pointwise sum is the sum of the sums.
LEMMA SumAdd ==
    ASSUME NEW f, NEW g, NEW h, NEW S, IsFiniteSet(S),
           \A s \in S : f[s] \in Int /\ g[s] \in Int /\ h[s] = f[s] + g[s]
    PROVE  SumFunctionOnSet(h, S) = SumFunctionOnSet(f, S) + SumFunctionOnSet(g, S)
  <1> DEFINE F(T) == SumFunctionOnSet(f, T)
             G(T) == SumFunctionOnSet(g, T)
             H(T) == SumFunctionOnSet(h, T)
             Bad == {T \in SUBSET S : H(T) # F(T) + G(T)}
  <1>1. SUFFICES ASSUME Bad # {} PROVE FALSE
    OBVIOUS
  <1>2. PICK T \in Bad : \A U \in Bad : ~(U \subseteq T /\ U # T)
    <2>1. Bad \in SUBSET (SUBSET S)
      OBVIOUS
    <2> HIDE DEF Bad
    <2> QED BY <1>1, <2>1, MinimalSubset
  <1>3. H({}) = 0 /\ F({}) = 0 /\ G({}) = 0
    BY SumEmpty
  <1>4. T \in SUBSET S /\ H(T) # F(T) + G(T)
    BY <1>2
  <1> HIDE DEF F, G, H
  <1>5. PICK x \in T : TRUE
    BY <1>3, <1>4
  <1> DEFINE U == T \ {x}
  <1>6. U \in SUBSET S /\ U \notin Bad
    BY <1>2, <1>4, <1>5
  <1>7. H(U) = F(U) + G(U)
    BY <1>6
  <1>8. IsFiniteSet(T) /\ IsFiniteSet(U)
    BY <1>4, <1>6, FS_Subset
  <1>9. F(U) \in Int /\ G(U) \in Int
    BY <1>6, <1>8, SumInt DEF F, G
  <1>10. /\ H(T) = h[x] + H(U)
         /\ F(T) = f[x] + F(U)
         /\ G(T) = g[x] + G(U)
    <2>1. \A s \in T : h[s] \in Int /\ f[s] \in Int /\ g[s] \in Int
      BY <1>4
    <2>2. QED
      BY <1>5, <1>8, <2>1, SumRemove DEF F, G, H
  <1>11. f[x] \in Int /\ g[x] \in Int /\ h[x] = f[x] + g[x]
    BY <1>4, <1>5
  <1>12. QED
    <2> HIDE DEF U, Bad
    <2> QED BY <1>4, <1>7, <1>9, <1>10, <1>11

\* A pointwise larger function has a larger sum.
LEMMA SumMono ==
    ASSUME NEW f, NEW g, NEW S, IsFiniteSet(S),
           \A s \in S : f[s] \in Int /\ g[s] \in Int /\ f[s] <= g[s]
    PROVE  SumFunctionOnSet(f, S) <= SumFunctionOnSet(g, S)
  <1> DEFINE F(T) == SumFunctionOnSet(f, T)
             G(T) == SumFunctionOnSet(g, T)
             Bad == {T \in SUBSET S : ~(F(T) <= G(T))}
  <1>1. SUFFICES ASSUME Bad # {} PROVE FALSE
    OBVIOUS
  <1>2. PICK T \in Bad : \A U \in Bad : ~(U \subseteq T /\ U # T)
    <2>1. Bad \in SUBSET (SUBSET S)
      OBVIOUS
    <2> HIDE DEF Bad
    <2> QED BY <1>1, <2>1, MinimalSubset
  <1>3. F({}) = 0 /\ G({}) = 0
    BY SumEmpty
  <1>4. T \in SUBSET S /\ ~(F(T) <= G(T))
    BY <1>2
  <1> HIDE DEF F, G
  <1>5. PICK x \in T : TRUE
    BY <1>3, <1>4
  <1> DEFINE U == T \ {x}
  <1>6. U \in SUBSET S /\ U \notin Bad
    BY <1>2, <1>4, <1>5
  <1>7. F(U) <= G(U)
    BY <1>6
  <1>8. IsFiniteSet(T) /\ IsFiniteSet(U)
    BY <1>4, <1>6, FS_Subset
  <1>9. F(U) \in Int /\ G(U) \in Int
    BY <1>6, <1>8, SumInt DEF F, G
  <1>10. F(T) = f[x] + F(U) /\ G(T) = g[x] + G(U)
    BY <1>4, <1>5, <1>8, SumRemove DEF F, G
  <1>11. f[x] \in Int /\ g[x] \in Int /\ f[x] <= g[x]
    BY <1>4, <1>5
  <1>12. QED
    <2> HIDE DEF U, Bad
    <2> QED BY <1>4, <1>7, <1>9, <1>10, <1>11

\* The sum only looks at the indices it is taken over.
LEMMA SumCong ==
    ASSUME NEW f, NEW g, NEW S, IsFiniteSet(S),
           \A s \in S : f[s] \in Int /\ f[s] = g[s]
    PROVE  SumFunctionOnSet(f, S) = SumFunctionOnSet(g, S)
  <1>1. /\ SumFunctionOnSet(f, S) <= SumFunctionOnSet(g, S)
        /\ SumFunctionOnSet(g, S) <= SumFunctionOnSet(f, S)
    BY SumMono
  <1>2. SumFunctionOnSet(f, S) \in Int /\ SumFunctionOnSet(g, S) \in Int
    BY SumInt
  <1>3. QED
    BY <1>1, <1>2

\* A sum of zeros is zero.
LEMMA SumZero ==
    ASSUME NEW f, NEW S, IsFiniteSet(S), \A s \in S : f[s] = 0
    PROVE  SumFunctionOnSet(f, S) = 0
  <1>1. SumFunctionOnSet(f, S) = SumFunctionOnSet(f, S) + SumFunctionOnSet(f, S)
    BY SumAdd
  <1>2. SumFunctionOnSet(f, S) \in Int
    BY SumInt
  <1>3. \A n \in Int : n = n + n => n = 0
    OBVIOUS
  <1>4. QED
    BY <1>1, <1>2, <1>3

\* A sum of naturals is a natural.
LEMMA SumNat ==
    ASSUME NEW f, NEW S, IsFiniteSet(S), \A s \in S : f[s] \in Nat
    PROVE  SumFunctionOnSet(f, S) \in Nat
  <1> DEFINE z == [s \in S |-> 0]
  <1>1. SumFunctionOnSet(z, S) = 0
    BY SumZero
  <1>2. SumFunctionOnSet(z, S) <= SumFunctionOnSet(f, S)
    BY SumMono
  <1>3. SumFunctionOnSet(f, S) \in Int
    BY SumInt
  <1>4. QED
    BY <1>1, <1>2, <1>3

\* A sum of naturals is at least each of its terms.
LEMMA SumAtLeast ==
    ASSUME NEW f, NEW S, IsFiniteSet(S), \A s \in S : f[s] \in Nat, NEW y \in S
    PROVE  f[y] <= SumFunctionOnSet(f, S)
  <1>1. SumFunctionOnSet(f, S) = f[y] + SumFunctionOnSet(f, S \ {y})
    BY SumRemove
  <1>2. SumFunctionOnSet(f, S \ {y}) \in Nat
    <2>1. IsFiniteSet(S \ {y})
      BY FS_Subset
    <2>2. QED
      BY <2>1, SumNat
  <1>3. f[y] \in Nat
    OBVIOUS
  <1>4. QED
    BY <1>1, <1>2, <1>3

\* Changing the value at one index changes the sum by the difference.
LEMMA SumChange ==
    ASSUME NEW f, NEW g, NEW S, IsFiniteSet(S), NEW y \in S,
           \A s \in S : f[s] \in Int /\ g[s] \in Int,
           \A s \in S \ {y} : g[s] = f[s]
    PROVE  SumFunctionOnSet(g, S) = SumFunctionOnSet(f, S) - f[y] + g[y]
  <1> DEFINE U == S \ {y}
  <1>1. IsFiniteSet(U)
    BY FS_Subset
  <1>2. /\ SumFunctionOnSet(f, S) = f[y] + SumFunctionOnSet(f, U)
        /\ SumFunctionOnSet(g, S) = g[y] + SumFunctionOnSet(g, U)
    BY SumRemove
  <1>3. SumFunctionOnSet(g, U) = SumFunctionOnSet(f, U)
    BY <1>1, SumCong
  <1>4. SumFunctionOnSet(f, U) \in Int
    BY <1>1, SumInt
  <1>5. f[y] \in Int /\ g[y] \in Int
    OBVIOUS
  <1>6. QED
    BY <1>2, <1>3, <1>4, <1>5

\* Changing the values at two indices changes the sum by both differences.
LEMMA SumChange2 ==
    ASSUME NEW f, NEW g, NEW S, IsFiniteSet(S), NEW y \in S, NEW z \in S, y # z,
           \A s \in S : f[s] \in Int /\ g[s] \in Int,
           \A s \in S \ {y, z} : g[s] = f[s]
    PROVE  SumFunctionOnSet(g, S)
             = SumFunctionOnSet(f, S) - f[y] + g[y] - f[z] + g[z]
  <1> DEFINE h == [s \in S |-> IF s = y THEN g[y] ELSE f[s]]
  <1>1. SumFunctionOnSet(h, S) = SumFunctionOnSet(f, S) - f[y] + g[y]
    <2>1. /\ \A s \in S : h[s] \in Int
          /\ \A s \in S \ {y} : h[s] = f[s]
          /\ h[y] = g[y]
      OBVIOUS
    <2> HIDE DEF h
    <2>2. QED
      BY <2>1, SumChange
  <1>2. SumFunctionOnSet(g, S) = SumFunctionOnSet(h, S) - f[z] + g[z]
    <2>1. /\ \A s \in S : h[s] \in Int
          /\ \A s \in S \ {z} : g[s] = h[s]
          /\ h[z] = f[z]
      OBVIOUS
    <2> HIDE DEF h
    <2>2. QED
      BY <2>1, SumChange
  <1>3. /\ SumFunctionOnSet(f, S) \in Int
        /\ f[y] \in Int /\ g[y] \in Int /\ f[z] \in Int /\ g[z] \in Int
    BY SumInt
  <1>4. QED
    BY <1>1, <1>2, <1>3

\* Adding an index adds its value.
LEMMA SumInsert ==
    ASSUME NEW f, NEW g, NEW S, IsFiniteSet(S), NEW y, y \notin S,
           \A s \in S : f[s] \in Int /\ g[s] = f[s], g[y] \in Int
    PROVE  SumFunctionOnSet(g, S \cup {y}) = SumFunctionOnSet(f, S) + g[y]
  <1>1. IsFiniteSet(S \cup {y}) /\ (S \cup {y}) \ {y} = S
    BY FS_AddElement
  <1>2. \A s \in S \cup {y} : g[s] \in Int
    OBVIOUS
  <1>3. SumFunctionOnSet(g, S \cup {y}) = g[y] + SumFunctionOnSet(g, S)
    BY <1>1, <1>2, SumRemove
  <1>4. SumFunctionOnSet(g, S) = SumFunctionOnSet(f, S)
    BY SumCong
  <1>5. SumFunctionOnSet(f, S) \in Int
    BY SumInt
  <1>6. QED
    BY <1>3, <1>4, <1>5
\* The sum over a set is the sum over a part of it and over the rest.
LEMMA SumSplit ==
    ASSUME NEW f, NEW S, IsFiniteSet(S), \A s \in S : f[s] \in Int,
           NEW T \in SUBSET S
    PROVE  SumFunctionOnSet(f, S) = SumFunctionOnSet(f, T) + SumFunctionOnSet(f, S \ T)
  <1> DEFINE Sum(X) == SumFunctionOnSet(f, X)
             Bad == {X \in SUBSET S : Sum(S) # Sum(X) + Sum(S \ X)}
  <1>1. SUFFICES ASSUME Bad # {} PROVE FALSE
    OBVIOUS
  <1>2. PICK X \in Bad : \A U \in Bad : ~(U \subseteq X /\ U # X)
    <2>1. Bad \in SUBSET (SUBSET S)
      OBVIOUS
    <2> HIDE DEF Bad
    <2>2. QED
      BY <1>1, <2>1, MinimalSubset
  <1>3. Sum(S) \in Int
    BY SumInt
  <1>4. CASE X = {}
    <2>1. Sum({}) = 0 /\ S \ {} = S
      BY SumEmpty
    <2>2. QED
      BY <1>2, <1>3, <1>4, <2>1
  <1>5. CASE X # {}
    <2>1. PICK y \in X : TRUE
      BY <1>5
    <2> DEFINE U == X \ {y}
    <2>2. Sum(S) = Sum(U) + Sum(S \ U)
      BY <1>2, <2>1
    <2>3. IsFiniteSet(X) /\ IsFiniteSet(S \ U) /\ IsFiniteSet(U) /\ IsFiniteSet(S \ X)
      BY FS_Subset
    <2>4. Sum(X) = f[y] + Sum(U)
      BY <2>3, SumRemove
    <2>5. Sum(S \ U) = f[y] + Sum((S \ U) \ {y})
      BY <2>3, SumRemove
    <2>6. (S \ U) \ {y} = S \ X
      BY <2>1
    <2>7. Sum(U) \in Int /\ Sum(S \ X) \in Int /\ f[y] \in Int
      BY <2>3, SumInt
    <2>8. Sum(S) = Sum(X) + Sum(S \ X)
      <3> DEFINE u == Sum(U)
                 r == Sum(S \ X)
                 e == f[y]
      <3>1. u \in Int /\ r \in Int /\ e \in Int
        BY <2>7
      <3>2. Sum(X) = e + u /\ Sum(S) = u + (e + r)
        BY <2>2, <2>4, <2>5, <2>6
      <3> HIDE DEF u, r, e, U, Bad
      <3>3. u + (e + r) = (e + u) + r
        BY <3>1
      <3>4. QED
        BY <3>2, <3>3 DEF r
    <2>9. QED
      BY <1>2, <2>8
  <1>6. QED
    BY <1>4, <1>5

\* A common factor of all values is a factor of the sum.
LEMMA SumScale ==
    ASSUME NEW f, NEW g, NEW S, IsFiniteSet(S), NEW c \in Int,
           \A s \in S : f[s] \in Int /\ g[s] = c * f[s]
    PROVE  SumFunctionOnSet(g, S) = c * SumFunctionOnSet(f, S)
  <1> DEFINE F(T) == SumFunctionOnSet(f, T)
             G(T) == SumFunctionOnSet(g, T)
             Bad == {T \in SUBSET S : G(T) # c * F(T)}
  <1>1. SUFFICES ASSUME Bad # {} PROVE FALSE
    OBVIOUS
  <1>2. PICK T \in Bad : \A U \in Bad : ~(U \subseteq T /\ U # T)
    <2>1. Bad \in SUBSET (SUBSET S)
      OBVIOUS
    <2> HIDE DEF Bad
    <2>2. QED
      BY <1>1, <2>1, MinimalSubset
  <1>3. F({}) = 0 /\ G({}) = 0 /\ c * 0 = 0
    BY SumEmpty
  <1>4. T \in SUBSET S /\ G(T) # c * F(T)
    BY <1>2
  <1> HIDE DEF F, G
  <1>5. PICK x \in T : TRUE
    <2> HIDE DEF Bad
    <2>1. QED
      BY <1>3, <1>4
  <1> DEFINE U == T \ {x}
  <1>6. U \in SUBSET S /\ U \notin Bad
    BY <1>2, <1>4, <1>5
  <1>7. G(U) = c * F(U)
    BY <1>6
  <1>8. IsFiniteSet(T) /\ IsFiniteSet(U)
    BY <1>4, <1>6, FS_Subset
  <1>9. \A s \in S : f[s] \in Int /\ g[s] \in Int
    OBVIOUS
  <1>10. F(U) \in Int
    BY <1>6, <1>8, SumInt DEF F
  <1>11. F(T) = f[x] + F(U) /\ G(T) = g[x] + G(U)
    BY <1>4, <1>5, <1>8, <1>9, SumRemove DEF F, G
  <1>12. f[x] \in Int /\ g[x] = c * f[x]
    BY <1>4, <1>5
  <1>13. c * (f[x] + F(U)) = c * f[x] + c * F(U)
    <2> HIDE DEF U, Bad
    <2>1. QED
      BY <1>10, <1>12
  <1>14. QED
    BY <1>4, <1>7, <1>11, <1>12, <1>13

\* What gives c to each member of A, and nothing to others, sums up to c for
\* each of them.
LEMMA SumConstant ==
    ASSUME NEW f, NEW S, IsFiniteSet(S), NEW A \in SUBSET S, NEW c \in Int,
           \A s \in S : f[s] = IF s \in A THEN c ELSE 0
    PROVE  SumFunctionOnSet(f, S) = c * Cardinality(A)
  <1> DEFINE one == [s \in S |-> IF s \in A THEN 1 ELSE 0]
             F(T) == SumFunctionOnSet(one, T)
             Bad == {T \in SUBSET A : F(T) # Cardinality(T)}
  <1>1. IsFiniteSet(A) /\ IsFiniteSet(S \ A)
    BY FS_Subset
  <1>2. Bad = {}
    <2>1. SUFFICES ASSUME Bad # {} PROVE FALSE
      OBVIOUS
    <2>2. PICK T \in Bad : \A U \in Bad : ~(U \subseteq T /\ U # T)
      <3>1. Bad \in SUBSET (SUBSET A)
        OBVIOUS
      <3> HIDE DEF Bad
      <3>2. QED
        BY <1>1, <2>1, <3>1, MinimalSubset
    <2>3. T \in SUBSET A /\ F(T) # Cardinality(T)
      BY <2>2
    <2>4. F({}) = 0 /\ Cardinality({}) = 0
      BY SumEmpty, FS_EmptySet
    <2>5. PICK x \in T : TRUE
      BY <2>3, <2>4
    <2> DEFINE U == T \ {x}
    <2>6. U \in SUBSET A /\ F(U) = Cardinality(U)
      BY <2>2, <2>3, <2>5
    <2>7. IsFiniteSet(T) /\ IsFiniteSet(U)
      BY <1>1, <2>3, <2>6, FS_Subset
    <2>8. \A s \in T : one[s] \in Int /\ one[s] = 1
      BY <2>3
    <2> HIDE DEF one
    <2>9. F(T) = one[x] + F(U)
      BY <2>5, <2>7, <2>8, SumRemove
    <2>10. Cardinality(U) = Cardinality(T) - 1 /\ Cardinality(T) \in Nat
      BY <2>5, <2>7, FS_RemoveElement, FS_CardinalityType
    <2>11. QED
      BY <2>3, <2>5, <2>6, <2>8, <2>9, <2>10
  <1>3. F(A) = Cardinality(A)
    BY <1>2
  <1>4. (\A s \in S : one[s] \in Int /\ f[s] = c * one[s]) /\ \A s \in S \ A : one[s] = 0
    OBVIOUS
  <1> HIDE DEF one
  <1>5. F(S) = F(A) + F(S \ A)
    BY <1>4, SumSplit
  <1>6. F(S \ A) = 0
    BY <1>1, <1>4, SumZero
  <1>7. Cardinality(A) \in Nat
    BY <1>1, FS_CardinalityType
  <1>8. F(S) = Cardinality(A)
    BY <1>3, <1>5, <1>6, <1>7
  <1>9. SumFunctionOnSet(f, S) = c * F(S)
    BY <1>4, SumScale
  <1>10. QED
    BY <1>8, <1>9

-----------------------------------------------------------------------------
(* Shares *)

LEMMA DivFloor ==
    ASSUME NEW n \in Nat, NEW T \in Nat \ {0}
    PROVE  n \div T \in Nat /\ T * (n \div T) <= n
    OBVIOUS

LEMMA DivAtLeast ==
    ASSUME NEW n \in Nat, NEW T \in Nat \ {0}, NEW q \in Nat, T * q <= n
    PROVE  n \div T >= q
    OBVIOUS

LEMMA Cancel ==
    ASSUME NEW T \in Nat \ {0}, NEW x \in Int, NEW y \in Int, T * x <= T * y
    PROVE  x <= y
  <1>1. SUFFICES ASSUME x - y >= 1 PROVE FALSE
    OBVIOUS
  <1>2. PICK d \in Nat : x = y + 1 + d
    <2>1. x - y - 1 \in Nat /\ x = y + 1 + (x - y - 1)
      BY <1>1
    <2>2. QED
      BY <2>1
  <1>3. T * x = T * y + T + T * d
    BY <1>2
  <1>4. T * d \in Nat /\ T * y \in Int
    OBVIOUS
  <1>5. QED
    BY <1>3, <1>4

LEMMA TimesMono ==
    ASSUME NEW c \in Nat, NEW x \in Int, NEW y \in Int, x <= y
    PROVE  c * x <= c * y
  <1>1. PICK d \in Nat : y = x + d
    <2>1. y - x \in Nat /\ y = x + (y - x)
      OBVIOUS
    <2>2. QED
      BY <2>1
  <1>2. c * y = c * x + c * d /\ c * d \in Nat /\ c * x \in Int
    BY <1>1
  <1>3. QED
    BY <1>2

\* A claim rounds down, and so what it leaves per age does not fall.
LEMMA FairShare ==
    ASSUME NEW R \in Nat, NEW a \in Nat, NEW c \in Nat, NEW T \in Nat \ {0}, NEW r \in Nat,
           r = (R * a) \div T, r <= R, NEW U \in Nat \ {0}, U = T - a
    PROVE  ((R - r) * c) \div U >= (R * c) \div T
  <1>1. R * a \in Nat /\ R * c \in Nat /\ R - r \in Nat
    OBVIOUS
  <1>2. T * r <= R * a
    BY <1>1, DivFloor
  <1> DEFINE q == (R * c) \div T
             S == R - r
  <1>3. q \in Nat /\ T * q <= R * c
    BY <1>1, DivFloor
  <1>4. T * S = T * R - T * r /\ R * U = R * T - R * a /\ T * R = R * T
    <2>1. U = T - a
      OBVIOUS
    <2>2. QED
      BY <2>1
  <1>5. R * U <= T * S
    <2>1. /\ T * R \in Int /\ R * T \in Int /\ T * r \in Int /\ R * a \in Int
          /\ R * U \in Int /\ T * S \in Int
      BY <1>1
    <2>2. QED
      BY <1>2, <1>4, <2>1
  <1>6. S \in Nat
    BY <1>1
  <1> HIDE DEF q, S
  <1>7. U * (T * q) <= U * (R * c)
    <2>1. T * q \in Int /\ R * c \in Int
      BY <1>1, <1>3
    <2>2. QED
      BY <1>3, <2>1, TimesMono
  <1>8. c * (R * U) <= c * (T * S)
    <2>1. R * U \in Int /\ T * S \in Int
      BY <1>6
    <2>2. QED
      BY <1>5, <2>1, TimesMono
  <1>9. U * (T * q) = T * (U * q) /\ U * (R * c) = c * (R * U) /\ c * (T * S) = T * (S * c)
    BY <1>3, <1>6
  <1>10. T * (U * q) <= T * (S * c)
    <2>1. T * (U * q) \in Int /\ c * (R * U) \in Int /\ T * (S * c) \in Int
      BY <1>3, <1>6
    <2>2. QED
      BY <1>7, <1>8, <1>9, <2>1
  <1>11. U * q <= S * c
    <2>1. U * q \in Int /\ S * c \in Int
      BY <1>3, <1>6
    <2>2. QED
      BY <1>10, <2>1, Cancel
  <1>12. (S * c) \div U >= q
    <2>1. S * c \in Nat
      BY <1>6
    <2>2. QED
      BY <1>3, <1>11, <2>1, DivAtLeast
  <1>13. QED
    BY <1>12 DEF q, S
=============================================================================
