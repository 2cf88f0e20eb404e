---------------------------- MODULE EconomyProofs ----------------------------
(***************************************************************************)
(* The invariants of Economy, for any players, items, mails, auctions and  *)
(* scenarios: no money appears or vanishes, every item has one place in    *)
(* the rows, memory agrees with what the rows are about to be, and a trade *)
(* yields what was agreed to.                                              *)
(*                                                                         *)
(* First, facts about the sums and folds Holdings and Economy are built    *)
(* from: induction over numbers and over the subsets of a finite set is    *)
(* had from the well-foundedness of their orders (WFMin), in which no      *)
(* operator has to be instantiated.                                        *)
(*                                                                         *)
(* Then the inductive invariant of EconomyInvariant is shown for the       *)
(* actions that touch one player's things, the sending of a mail and the   *)
(* auction house, for the mailbox, the logout and the exchange of a trade; *)
(* the theorems follow at the end.                                         *)
(***************************************************************************)
EXTENDS EconomyInvariant, FiniteSetTheorems, TLAPS

LEMMA NumberInduction ==
  ASSUME NEW G, 0 \in G, \A n \in Nat : n \in G => n + 1 \in G
  PROVE  Nat \subseteq G
  <1> SUFFICES ASSUME NEW n \in Nat, n \notin G PROVE FALSE
    OBVIOUS
  <1> DEFINE R == OpToRel(<, Nat)
             B == Nat \ G
  <1>1. IsWellFoundedOn(R, Nat)
    BY NatLessThanWellFounded
  <1>2. B \subseteq Nat /\ B # {}
    OBVIOUS
  <1>3. \A i, j \in Nat : i < j => <<i, j>> \in R
    BY DEF OpToRel
  <1> HIDE DEF R
  <1>4. \E x \in B : \A y \in B : <<y, x>> \notin R
    <2> HIDE DEF B
    <2> QED
      BY <1>1, <1>2, WFMin
  <1>5. PICK k \in B : \A y \in B : <<y, k>> \notin R
    BY <1>4
  <1>6. k # 0 /\ k - 1 \in Nat /\ k - 1 < k /\ (k - 1) + 1 = k
    BY <1>5
  <1>7. k - 1 \in G
    BY <1>3, <1>5, <1>6
  <1>8. QED
    BY <1>5, <1>6, <1>7

LEMMA SubsetInduction ==
  ASSUME NEW S, IsFiniteSet(S), NEW G,
         \A T \in SUBSET S : (\A u \in SUBSET T : u # T => u \in G) => T \in G
  PROVE  SUBSET S \subseteq G
  <1> SUFFICES ASSUME NEW A \in SUBSET S, A \notin G PROVE FALSE
    OBVIOUS
  <1> DEFINE R == StrictSubsetOrdering(S)
             B == (SUBSET S) \ G
  <1>0. FiniteSubsetsOf(S) = SUBSET S
    BY FS_FiniteSubsetsOfFinite
  <1>1. IsWellFoundedOn(R, SUBSET S)
    <2>1. IsWellFoundedOn(R, FiniteSubsetsOf(S))
      BY FS_StrictSubsetOrderingWellFounded
    <2>2. QED
      BY <1>0, <2>1
  <1>2. B \subseteq SUBSET S /\ B # {}
    OBVIOUS
  <1>3. \A u, T \in SUBSET S : u \subseteq T /\ u # T => <<u, T>> \in R
    BY DEF StrictSubsetOrdering
  <1> HIDE DEF R
  <1>4. \E x \in B : \A y \in B : <<y, x>> \notin R
    <2> HIDE DEF B
    <2> QED
      BY <1>1, <1>2, WFMin
  <1>5. PICK T \in B : \A y \in B : <<y, T>> \notin R
    BY <1>4
  <1>6. ASSUME NEW u \in SUBSET T, u # T PROVE u \in G
    <2>1. T \in SUBSET S /\ u \in SUBSET S
      BY <1>5
    <2>2. <<u, T>> \in R
      BY <1>3, <1>6, <2>1
    <2>3. u \notin B
      BY <1>5, <2>2
    <2>4. QED
      BY <2>1, <2>3
  <1>7. QED
    BY <1>5, <1>6

LEMMA Smaller ==
  ASSUME NEW s, IsFiniteSet(s), NEW x \in s
  PROVE  /\ IsFiniteSet(s \ {x}) /\ Cardinality(s) \in Nat /\ Cardinality(s \ {x}) \in Nat
         /\ Cardinality(s \ {x}) = Cardinality(s) - 1
  BY FS_RemoveElement, FS_CardinalityType
-----------------------------------------------------------------------------

LEMMA SumExists ==
  ASSUME NEW f, NEW S, IsFiniteSet(S)
  PROVE  \E it : SumOn(f, S, it)
  <1> DEFINE ch(s) == CHOOSE x \in s : TRUE
             Good(g, n) == \A s \in SUBSET S : Cardinality(s) <= n =>
                              g[s] = IF s = {} THEN 0 ELSE f[ch(s)] + g[s \ {ch(s)}]
             G == {n \in Nat : \E g : Good(g, n)}
  <1>1. \A s \in SUBSET S : IsFiniteSet(s) /\ Cardinality(s) \in Nat
    BY FS_Subset, FS_CardinalityType
  <1>2. \A s \in SUBSET S : s # {} => ch(s) \in s
    OBVIOUS
  <1>3. \A s \in SUBSET S : s # {} =>
          s \ {ch(s)} \in SUBSET S /\ Cardinality(s \ {ch(s)}) = Cardinality(s) - 1
    BY <1>1, <1>2, Smaller
  <1>4. \A s \in SUBSET S : Cardinality(s) <= 0 => s = {}
    BY <1>1, FS_EmptySet
  <1> HIDE DEF ch
  <1>5. 0 \in G
    <2>1. Good([s \in SUBSET S |-> 0], 0)
      BY <1>4
    <2>2. QED
      BY <2>1
  <1>6. ASSUME NEW n \in Nat, n \in G PROVE n + 1 \in G
    <2>1. PICK g : Good(g, n)
      BY <1>6
    <2> DEFINE h == [s \in SUBSET S |-> IF Cardinality(s) <= n THEN g[s]
                                        ELSE f[ch(s)] + g[s \ {ch(s)}]]
    <2>2. ASSUME NEW s \in SUBSET S, Cardinality(s) <= n + 1
          PROVE  h[s] = IF s = {} THEN 0 ELSE f[ch(s)] + h[s \ {ch(s)}]
      <3>1. CASE s = {}
        BY <1>1, <2>1, <3>1, FS_EmptySet
      <3>2. CASE s # {}
        <4>1. h[s \ {ch(s)}] = g[s \ {ch(s)}]
          BY <1>1, <1>3, <2>2, <3>2
        <4>2. h[s] = f[ch(s)] + g[s \ {ch(s)}]
          BY <2>1, <3>2
        <4>3. QED
          BY <3>2, <4>1, <4>2
      <3>3. QED
        BY <3>1, <3>2
    <2> HIDE DEF h
    <2>3. Good(h, n + 1)
      BY <2>2
    <2>4. \E k : Good(k, n + 1)
      <3> HIDE DEF Good
      <3> QED
        BY <2>3
    <2>5. QED
      <3> HIDE DEF Good
      <3> QED
        BY <2>4
  <1>7. Nat \subseteq G
    <2> HIDE DEF G
    <2> QED
      BY <1>5, <1>6, NumberInduction
  <1>8. PICK g : Good(g, Cardinality(S))
    BY <1>1, <1>7
  <1>9. \A s \in SUBSET S : g[s] = IF s = {} THEN 0 ELSE f[ch(s)] + g[s \ {ch(s)}]
    BY <1>1, <1>8, FS_Subset
  <1>10. SumOn(f, S, [s \in SUBSET S |-> g[s]])
    <2> DEFINE h == [s \in SUBSET S |-> g[s]]
    <2>1. h = [s \in SUBSET S |-> IF s = {} THEN 0 ELSE f[ch(s)] + h[s \ {ch(s)}]]
      BY <1>3, <1>9
    <2>2. QED
      BY <2>1 DEF SumOn, ch
  <1>11. QED
    <2> DEFINE h == [s \in SUBSET S |-> g[s]]
    <2> HIDE DEF h
    <2>1. SumOn(f, S, h)
      BY <1>10 DEF h
    <2>2. QED
      BY <2>1

LEMMA TotalSum ==
  ASSUME NEW f, NEW S, IsFiniteSet(S)
  PROVE  \E it : SumOn(f, S, it) /\ Total(f, S) = it[S]
  <1>1. \E it : SumOn(f, S, it)
    BY SumExists
  <1> DEFINE It == CHOOSE it : it = [s \in SUBSET S |->
                      IF s = {} THEN 0
                      ELSE LET x == CHOOSE x \in s : TRUE IN f[x] + it[s \ {x}]]
  <1>2. Total(f, S) = It[S]
    BY DEF Total, FoldFunctionOnSet, MapThenFoldSet
  <1>3. SumOn(f, S, It)
    BY <1>1 DEF SumOn
  <1> HIDE DEF It
  <1>4. QED
    BY <1>2, <1>3

(* Two such sums agree on the sets where their functions do.                *)
LEMMA SumsAgree ==
  ASSUME NEW f, NEW g, NEW S, NEW T, NEW it, NEW jt, IsFiniteSet(T), T \subseteq S,
         SumOn(f, S, it), SumOn(g, T, jt), \A x \in T : f[x] = g[x]
  PROVE  \A u \in SUBSET T : it[u] = jt[u]
  <1> DEFINE G == {u \in SUBSET T : it[u] = jt[u]}
             ch(u) == CHOOSE x \in u : TRUE
  <1>1. ASSUME NEW u \in SUBSET T, \A v \in SUBSET u : v # u => v \in G
        PROVE  u \in G
    <2>0. /\ u # {} => ch(u) \in u
          /\ it[u] = IF u = {} THEN 0 ELSE f[ch(u)] + it[u \ {ch(u)}]
          /\ jt[u] = IF u = {} THEN 0 ELSE g[ch(u)] + jt[u \ {ch(u)}]
      BY DEF SumOn
    <2> HIDE DEF ch
    <2>1. CASE u = {}
      BY <2>0, <2>1
    <2>2. CASE u # {}
      <3>1. u \ {ch(u)} \in G
        BY <1>1, <2>0, <2>2
      <3>2. it[u \ {ch(u)}] = jt[u \ {ch(u)}]
        BY <3>1
      <3>3. QED
        BY <2>0, <2>2, <3>2
    <2>3. QED
      BY <2>1, <2>2
  <1>2. SUBSET T \subseteq G
    <2> HIDE DEF G
    <2> QED
      BY <1>1, SubsetInduction
  <1>3. QED
    BY <1>2

LEMMA TotalEqual ==
  ASSUME NEW f, NEW g, NEW S, IsFiniteSet(S), \A x \in S : f[x] = g[x]
  PROVE  Total(f, S) = Total(g, S)
  <1>1. PICK it : SumOn(f, S, it) /\ Total(f, S) = it[S]
    BY TotalSum
  <1>2. PICK jt : SumOn(g, S, jt) /\ Total(g, S) = jt[S]
    BY TotalSum
  <1>3. QED
    BY <1>1, <1>2, SumsAgree

LEMMA TotalEmpty ==
  ASSUME NEW f
  PROVE  Total(f, {}) = 0
  <1>1. PICK it : SumOn(f, {}, it) /\ Total(f, {}) = it[{}]
    BY TotalSum, FS_EmptySet
  <1>2. QED
    BY <1>1 DEF SumOn

LEMMA TotalStep ==
  ASSUME NEW f, NEW S, IsFiniteSet(S), S # {}
  PROVE  \E c \in S : Total(f, S) = f[c] + Total(f, S \ {c})
  <1> DEFINE c == CHOOSE x \in S : TRUE
  <1>1. c \in S
    OBVIOUS
  <1>2. PICK it : SumOn(f, S, it) /\ Total(f, S) = it[S]
    BY TotalSum
  <1>3. IsFiniteSet(S \ {c})
    BY FS_Subset
  <1>4. PICK jt : SumOn(f, S \ {c}, jt) /\ Total(f, S \ {c}) = jt[S \ {c}]
    BY <1>3, TotalSum
  <1>5. it[S] = f[c] + it[S \ {c}]
    BY <1>2 DEF SumOn
  <1> HIDE DEF c
  <1>6. it[S \ {c}] = jt[S \ {c}]
    BY <1>2, <1>3, <1>4, SumsAgree
  <1>7. QED
    BY <1>1, <1>2, <1>4, <1>5, <1>6

LEMMA TotalType ==
  ASSUME NEW f, NEW S, IsFiniteSet(S), \A x \in S : f[x] \in Int
  PROVE  Total(f, S) \in Int
  <1> DEFINE G == {u \in SUBSET S : Total(f, u) \in Int}
  <1>1. ASSUME NEW u \in SUBSET S, \A v \in SUBSET u : v # u => v \in G
        PROVE  u \in G
    <2>1. CASE u = {}
      BY <2>1, TotalEmpty
    <2>2. CASE u # {}
      <3>1. IsFiniteSet(u)
        BY FS_Subset
      <3>2. PICK c \in u : Total(f, u) = f[c] + Total(f, u \ {c})
        BY <2>2, <3>1, TotalStep
      <3>3. u \ {c} \in G
        BY <1>1
      <3>4. QED
        BY <3>2, <3>3
    <2>3. QED
      BY <2>1, <2>2
  <1>2. SUBSET S \subseteq G
    <2> HIDE DEF G
    <2> QED
      BY <1>1, SubsetInduction
  <1>3. QED
    BY <1>2

LEMMA Exchange ==
  ASSUME NEW a \in Int, NEW b \in Int, NEW r \in Int, NEW s, NEW t, NEW v,
         v = b + s, s = a + r, t = b + r
  PROVE  v = a + t
  OBVIOUS

LEMMA Balance ==
  ASSUME NEW a \in Int, NEW b \in Int, NEW r \in Int, NEW d \in Int, NEW e \in Int,
         NEW v, NEW w, NEW s,
         v = a + r, s = r - d, w = b + s, a - b = e - d
  PROVE  w = v - e
  OBVIOUS

LEMMA TotalRemove ==
  ASSUME NEW f, NEW S, IsFiniteSet(S), \A x \in S : f[x] \in Int, NEW y \in S
  PROVE  Total(f, S) = f[y] + Total(f, S \ {y})
  <1> DEFINE G == {u \in SUBSET S : \A x \in u : Total(f, u) = f[x] + Total(f, u \ {x})}
  <1>1. ASSUME NEW u \in SUBSET S, \A v \in SUBSET u : v # u => v \in G
        PROVE  u \in G
    <2> SUFFICES ASSUME NEW x \in u PROVE Total(f, u) = f[x] + Total(f, u \ {x})
      OBVIOUS
    <2>1. \A v \in SUBSET u : IsFiniteSet(v) /\ Total(f, v) \in Int
      BY FS_Subset, TotalType
    <2>2. PICK c \in u : Total(f, u) = f[c] + Total(f, u \ {c})
      BY <2>1, TotalStep
    <2>3. CASE x = c
      BY <2>2, <2>3
    <2>4. CASE x # c
      <3>1. u \ {c} \in G /\ u \ {x} \in G
        BY <1>1
      <3>2. x \in u \ {c} /\ c \in u \ {x} /\ (u \ {c}) \ {x} = (u \ {x}) \ {c}
        BY <2>4
      <3>3. Total(f, u \ {c}) = f[x] + Total(f, (u \ {c}) \ {x})
        BY <3>1, <3>2
      <3>4. Total(f, u \ {x}) = f[c] + Total(f, (u \ {x}) \ {c})
        BY <3>1, <3>2
      <3>5. f[x] \in Int /\ f[c] \in Int /\ Total(f, (u \ {x}) \ {c}) \in Int
        BY <2>1
      <3>6. Total(f, (u \ {c}) \ {x}) = Total(f, (u \ {x}) \ {c})
        BY <3>2
      <3> HIDE DEF G
      <3>7. QED
        BY <2>2, <3>3, <3>4, <3>5, <3>6, Exchange
    <2>5. QED
      BY <2>3, <2>4
  <1>2. SUBSET S \subseteq G
    <2> HIDE DEF G
    <2> QED
      BY <1>1, SubsetInduction
  <1>3. QED
    BY <1>2

LEMMA TotalUpdate ==
  ASSUME NEW f, NEW g, NEW S, IsFiniteSet(S), NEW y \in S,
         \A x \in S : f[x] \in Int, g[y] \in Int, \A x \in S \ {y} : g[x] = f[x]
  PROVE  Total(g, S) = (Total(f, S) - f[y]) + g[y]
  <1>1. \A x \in S : g[x] \in Int
    OBVIOUS
  <1>2. IsFiniteSet(S \ {y})
    BY FS_Subset
  <1>3. Total(f, S) = f[y] + Total(f, S \ {y})
    BY TotalRemove
  <1>4. Total(g, S) = g[y] + Total(g, S \ {y})
    BY <1>1, TotalRemove
  <1>5. Total(f, S \ {y}) = Total(g, S \ {y})
    BY <1>2, TotalEqual
  <1>6. Total(f, S \ {y}) \in Int
    BY <1>2, TotalType
  <1>7. QED
    BY <1>3, <1>4, <1>5, <1>6

(* What a set holds after the entries of D are cleared.                     *)
LEMMA TotalClear ==
  ASSUME NEW f, NEW g, NEW S, IsFiniteSet(S), NEW D, D \subseteq S,
         \A x \in S : f[x] \in Int,
         \A x \in S \ D : g[x] = f[x], \A x \in D : g[x] = 0
  PROVE  Total(g, S) = Total(f, S) - Total(f, D)
  <1> DEFINE G == {u \in SUBSET S : Total(g, u) = Total(f, u) - Total(f, u \cap D)}
  <1>1. ASSUME NEW u \in SUBSET S, \A v \in SUBSET u : v # u => v \in G
        PROVE  u \in G
    <2>1. \A v \in SUBSET u : IsFiniteSet(v)
      BY FS_Subset
    <2>2. CASE u = {}
      BY <2>2, TotalEmpty
    <2>3. CASE u # {}
      <3>0. \A x \in S : g[x] \in Int
        OBVIOUS
      <3>1. PICK c \in u : Total(f, u) = f[c] + Total(f, u \ {c})
        BY <2>1, <2>3, TotalStep
      <3>2. u \ {c} \in G
        BY <1>1
      <3>3. Total(g, u \ {c}) = Total(f, u \ {c}) - Total(f, (u \ {c}) \cap D)
        BY <3>2
      <3>4. Total(g, u) = g[c] + Total(g, u \ {c})
        BY <2>1, <3>0, TotalRemove
      <3>5. /\ f[c] \in Int /\ g[c] \in Int
            /\ Total(f, u \ {c}) \in Int /\ Total(f, (u \ {c}) \cap D) \in Int
            /\ Total(f, u \cap D) \in Int
        BY <2>1, <3>0, TotalType
      <3>6. CASE c \in D
        <4>1. c \in u \cap D /\ (u \cap D) \ {c} = (u \ {c}) \cap D
          BY <3>6
        <4>2. Total(f, u \cap D) = f[c] + Total(f, (u \cap D) \ {c})
          BY <2>1, <4>1, TotalRemove
        <4>3. g[c] = 0
          BY <3>6
        <4> HIDE DEF G
        <4>6. Total(f, (u \cap D) \ {c}) = Total(f, (u \ {c}) \cap D)
          BY <4>1
        <4>7. f[c] - g[c] = Total(f, u \cap D) - Total(f, (u \ {c}) \cap D)
          BY <3>5, <4>2, <4>3, <4>6
        <4>4. Total(g, u) = Total(f, u) - Total(f, u \cap D)
          BY <3>1, <3>3, <3>4, <3>5, <4>7, Balance
        <4>5. QED
          BY <4>4 DEF G
      <3>7. CASE c \notin D
        <4>1. u \cap D = (u \ {c}) \cap D
          BY <3>7
        <4>2. g[c] = f[c]
          BY <3>7
        <4> HIDE DEF G
        <4>5. Total(f, u \cap D) = Total(f, (u \ {c}) \cap D)
          BY <4>1
        <4>6. f[c] - g[c] = Total(f, u \cap D) - Total(f, (u \ {c}) \cap D)
          BY <3>5, <4>2, <4>5
        <4>3. Total(g, u) = Total(f, u) - Total(f, u \cap D)
          BY <3>1, <3>3, <3>4, <3>5, <4>6, Balance
        <4>4. QED
          BY <4>3 DEF G
      <3>8. QED
        BY <3>6, <3>7
    <2>4. QED
      BY <2>2, <2>3
  <1>2. SUBSET S \subseteq G
    <2> HIDE DEF G
    <2> QED
      BY <1>1, SubsetInduction
  <1>3. S \in G /\ S \cap D = D
    BY <1>2
  <1>4. QED
    BY <1>3

LEMMA TotalZero ==
  ASSUME NEW f, NEW S, IsFiniteSet(S), \A x \in S : f[x] = 0
  PROVE  Total(f, S) = 0
  <1>1. Total(f, S) = Total(f, S) - Total(f, S)
    BY TotalClear
  <1>2. Total(f, S) \in Int
    BY TotalType
  <1>3. QED
    BY <1>1, <1>2
-----------------------------------------------------------------------------

LEMMA ChainExists ==
  ASSUME NEW d, NEW q, Len(q) \in Nat
  PROVE  \E rows : Chain(d, q, rows)
  <1> DEFINE Good(g, k) == \A n \in 0..k :
                              g[n] = IF n = 0 THEN d ELSE Execute(g[n - 1], q[n])
             G == {k \in Nat : \E g : Good(g, k)}
  <1>1. 0 \in G
    <2>1. Good([n \in 0..0 |-> d], 0)
      OBVIOUS
    <2>2. \E g : Good(g, 0)
      <3> HIDE DEF Good
      <3> QED
        BY <2>1
    <2> HIDE DEF Good
    <2>3. QED
      BY <2>2
  <1>2. ASSUME NEW k \in Nat, k \in G PROVE k + 1 \in G
    <2>1. PICK g : Good(g, k)
      BY <1>2
    <2> DEFINE h == [n \in 0..(k + 1) |-> IF n <= k THEN g[n] ELSE Execute(g[k], q[k + 1])]
    <2>2. ASSUME NEW n \in 0..(k + 1)
          PROVE  h[n] = IF n = 0 THEN d ELSE Execute(h[n - 1], q[n])
      <3>1. CASE n = 0
        BY <2>1, <3>1
      <3>2. CASE n # 0 /\ n <= k
        <4>1. n \in 0..k /\ n - 1 \in 0..(k + 1) /\ n - 1 <= k
          BY <3>2
        <4>2. h[n] = g[n] /\ h[n - 1] = g[n - 1]
          BY <4>1, <3>2
        <4>3. g[n] = Execute(g[n - 1], q[n])
          BY <2>1, <3>2, <4>1
        <4>4. QED
          BY <3>2, <4>2, <4>3
      <3>3. CASE n = k + 1
        <4>1. n - 1 = k /\ k \in 0..(k + 1) /\ ~(n <= k) /\ n # 0
          BY <3>3
        <4>2. h[n] = Execute(g[k], q[n]) /\ h[n - 1] = g[k]
          BY <3>3, <4>1
        <4>3. QED
          BY <4>1, <4>2
      <3>4. QED
        BY <3>1, <3>2, <3>3
    <2> HIDE DEF h
    <2>3. Good(h, k + 1)
      BY <2>2
    <2>4. \E j : Good(j, k + 1)
      <3> HIDE DEF Good
      <3> QED
        BY <2>3
    <2> HIDE DEF Good
    <2>5. QED
      BY <2>4
  <1>3. Nat \subseteq G
    <2> HIDE DEF G
    <2> QED
      BY <1>1, <1>2, NumberInduction
  <1>4. PICK g : Good(g, Len(q))
    BY <1>3
  <1> DEFINE h == [n \in 0..Len(q) |-> g[n]]
  <1>5. ASSUME NEW n \in 0..Len(q)
        PROVE  h[n] = IF n = 0 THEN d ELSE Execute(h[n - 1], q[n])
    <2>1. n # 0 => n - 1 \in 0..Len(q)
      OBVIOUS
    <2>2. QED
      BY <1>4, <2>1
  <1>6. DOMAIN h = 0..Len(q) /\ h = [n \in DOMAIN h |-> h[n]]
    OBVIOUS
  <1> HIDE DEF h
  <1>7. h = [n \in 0..Len(q) |-> IF n = 0 THEN d ELSE Execute(h[n - 1], q[n])]
    BY <1>5, <1>6
  <1>8. QED
    BY <1>7 DEF Chain

LEMMA RowsChain ==
  ASSUME NEW d, NEW q, Len(q) \in Nat
  PROVE  Chain(d, q, RowsAfter(d, q))
  BY ChainExists DEF RowsAfter, Chain

LEMMA RowsFirst ==
  ASSUME NEW d, NEW q, Len(q) \in Nat
  PROVE  RowsAfter(d, q)[0] = d
  <1>1. 0 \in 0..Len(q)
    OBVIOUS
  <1>2. QED
    BY <1>1, RowsChain DEF Chain

LEMMA RowsNext ==
  ASSUME NEW d, NEW q, Len(q) \in Nat, NEW n \in 1..Len(q)
  PROVE  RowsAfter(d, q)[n] = Execute(RowsAfter(d, q)[n - 1], q[n])
  <1>1. n \in 0..Len(q) /\ n # 0
    OBVIOUS
  <1>2. QED
    BY <1>1, RowsChain DEF Chain

(* What is posted behind changes no earlier rows.                           *)
LEMMA RowsPrefix ==
  ASSUME NEW d, NEW q, NEW r, Len(q) \in Nat, Len(r) \in Nat, Len(q) <= Len(r),
         \A n \in 1..Len(q) : r[n] = q[n]
  PROVE  \A n \in 0..Len(q) : RowsAfter(d, r)[n] = RowsAfter(d, q)[n]
  <1> DEFINE G == {n \in Nat : n <= Len(q) => RowsAfter(d, r)[n] = RowsAfter(d, q)[n]}
  <1>1. 0 \in G
    BY RowsFirst
  <1>2. ASSUME NEW n \in Nat, n \in G PROVE n + 1 \in G
    <2> SUFFICES ASSUME n + 1 <= Len(q)
                 PROVE  RowsAfter(d, r)[n + 1] = RowsAfter(d, q)[n + 1]
      OBVIOUS
    <2>1. /\ n + 1 \in 1..Len(q) /\ n + 1 \in 1..Len(r) /\ (n + 1) - 1 = n
          /\ n <= Len(q)
      OBVIOUS
    <2>2. RowsAfter(d, r)[n] = RowsAfter(d, q)[n]
      BY <1>2, <2>1
    <2>3. RowsAfter(d, q)[n + 1] = Execute(RowsAfter(d, q)[n], q[n + 1])
      BY <2>1, RowsNext
    <2>4. RowsAfter(d, r)[n + 1] = Execute(RowsAfter(d, r)[n], r[n + 1])
      BY <2>1, RowsNext
    <2>5. QED
      BY <2>1, <2>2, <2>3, <2>4
  <1>3. Nat \subseteq G
    <2> HIDE DEF G
    <2> QED
      BY <1>1, <1>2, NumberInduction
  <1>4. QED
    BY <1>3

(* Executing the oldest element shifts the rows by one.                     *)
LEMMA RowsShift ==
  ASSUME NEW d, NEW q, NEW r, Len(q) \in Nat, Len(r) = Len(q) - 1, Len(q) > 0,
         \A n \in 1..Len(r) : r[n] = q[n + 1]
  PROVE  \A n \in 0..Len(r) :
            RowsAfter(Execute(d, q[1]), r)[n] = RowsAfter(d, q)[n + 1]
  <1> DEFINE e == Execute(d, q[1])
             G == {n \in Nat : n <= Len(r) => RowsAfter(e, r)[n] = RowsAfter(d, q)[n + 1]}
  <1>0. Len(r) \in Nat
    OBVIOUS
  <1>1. 0 \in G
    <2>1. 1 \in 1..Len(q)
      OBVIOUS
    <2>2. RowsAfter(d, q)[1] = Execute(RowsAfter(d, q)[0], q[1])
      BY <2>1, RowsNext, 1 - 1 = 0
    <2>3. QED
      BY <1>0, <2>2, RowsFirst
  <1>2. ASSUME NEW n \in Nat, n \in G PROVE n + 1 \in G
    <2> SUFFICES ASSUME n + 1 <= Len(r)
                 PROVE  RowsAfter(e, r)[n + 1] = RowsAfter(d, q)[(n + 1) + 1]
      OBVIOUS
    <2>1. /\ n + 1 \in 1..Len(r) /\ (n + 1) + 1 \in 1..Len(q)
          /\ (n + 1) - 1 = n /\ ((n + 1) + 1) - 1 = n + 1 /\ n <= Len(r)
      OBVIOUS
    <2>2. RowsAfter(e, r)[n] = RowsAfter(d, q)[n + 1]
      BY <1>2, <2>1
    <2> HIDE DEF e
    <2>3. RowsAfter(d, q)[(n + 1) + 1] = Execute(RowsAfter(d, q)[n + 1], q[(n + 1) + 1])
      BY <2>1, RowsNext
    <2>4. RowsAfter(e, r)[n + 1] = Execute(RowsAfter(e, r)[n], r[n + 1])
      BY <1>0, <2>1, RowsNext
    <2>5. QED
      BY <2>1, <2>2, <2>3, <2>4
  <1>3. Nat \subseteq G
    <2> HIDE DEF G
    <2> QED
      BY <1>1, <1>2, NumberInduction
  <1>4. QED
    BY <1>3
-----------------------------------------------------------------------------
(* A finite set of numbers has an element with any smaller number of        *)
(* elements below it: what NewId chooses exists.                            *)
LEMMA GreatestExists ==
  ASSUME NEW S, IsFiniteSet(S), S \subseteq Nat, S # {}
  PROVE  \E m \in S : \A x \in S : x <= m
  <1> DEFINE G == {u \in SUBSET S : u # {} => \E m \in u : \A x \in u : x <= m}
  <1>1. ASSUME NEW u \in SUBSET S, \A v \in SUBSET u : v # u => v \in G
        PROVE  u \in G
    <2> SUFFICES ASSUME u # {} PROVE \E m \in u : \A x \in u : x <= m
      OBVIOUS
    <2>1. PICK c \in u : TRUE
      OBVIOUS
    <2>2. u \ {c} \in G
      BY <1>1
    <2>3. CASE u \ {c} = {}
      <3>1. \A x \in u : x = c
        BY <2>3
      <3>2. \A x \in u : x <= c
        BY <3>1
      <3>3. QED
        BY <3>2
    <2>4. CASE u \ {c} # {}
      <3>1. PICK m \in u \ {c} : \A x \in u \ {c} : x <= m
        BY <2>2, <2>4
      <3>2. c \in Nat /\ m \in Nat /\ \A x \in u : x \in Nat
        OBVIOUS
      <3>3. CASE c <= m
        <4>1. \A x \in u : x <= m
          BY <3>1, <3>3
        <4>2. QED
          BY <4>1
      <3>4. CASE m <= c
        <4>1. \A x \in u : x <= c
          BY <3>1, <3>2, <3>4
        <4>2. QED
          BY <4>1
      <3>5. QED
        BY <3>2, <3>3, <3>4
    <2>5. QED
      BY <2>3, <2>4
  <1>2. SUBSET S \subseteq G
    <2> HIDE DEF G
    <2> QED
      BY <1>1, SubsetInduction
  <1>3. QED
    BY <1>2


LEMMA KthExists ==
  ASSUME NEW S, IsFiniteSet(S), S \subseteq Nat, NEW k \in Nat, k > 0, k <= Cardinality(S)
  PROVE  \E m \in S : Cardinality(Below(S, m)) = k - 1
  <1> DEFINE G == {u \in SUBSET S : k <= Cardinality(u) =>
                                      \E m \in u : Cardinality(Below(u, m)) = k - 1}
  <1>1. ASSUME NEW u \in SUBSET S, \A v \in SUBSET u : v # u => v \in G
        PROVE  u \in G
    <2> SUFFICES ASSUME k <= Cardinality(u)
                 PROVE  \E m \in u : Cardinality(Below(u, m)) = k - 1
      OBVIOUS
    <2>1. IsFiniteSet(u) /\ u \subseteq Nat /\ Cardinality(u) \in Nat
      BY FS_Subset, FS_CardinalityType
    <2>2. u # {}
      BY FS_EmptySet
    <2>3. PICK c \in u : \A x \in u : x <= c
      BY <2>1, <2>2, GreatestExists
    <2>4. /\ Below(u, c) = u \ {c}
          /\ \A m \in u \ {c} : Below(u, m) = Below(u \ {c}, m)
      <3>1. \A x \in u : x \in Nat /\ x <= c
        BY <2>1, <2>3
      <3>2. \A x \in u : x < c <=> x # c
        BY <3>1
      <3>3. \A m \in u : ~(c < m)
        BY <3>1
      <3>4. QED
        BY <3>2, <3>3 DEF Below
    <2>5. Cardinality(u \ {c}) = Cardinality(u) - 1
      BY <2>1, Smaller
    <2>6. CASE k = Cardinality(u)
      BY <2>4, <2>5, <2>6
    <2>7. CASE k < Cardinality(u)
      <3>1. u \ {c} \in G
        BY <1>1
      <3>2. k <= Cardinality(u \ {c})
        BY <2>1, <2>5, <2>7
      <3>3. PICK m \in u \ {c} : Cardinality(Below(u \ {c}, m)) = k - 1
        BY <3>1, <3>2
      <3>4. Cardinality(Below(u, m)) = k - 1
        BY <2>4, <3>3
      <3>5. QED
        BY <3>4
    <2>8. QED
      BY <2>1, <2>6, <2>7
  <1>2. SUBSET S \subseteq G
    <2> HIDE DEF G
    <2> QED
      BY <1>1, SubsetInduction
  <1>3. QED
    BY <1>2
-----------------------------------------------------------------------------
(* Queues.                                                                  *)
LEMMA QueueLength ==
  ASSUME NEW q, IsQueue(q)
  PROVE  Len(q) \in Nat /\ DOMAIN q = 1..Len(q)
  BY DEF IsQueue

LEMMA QueueGrows ==
  ASSUME NEW q, NEW t, IsQueue(q)
  PROVE  /\ IsQueue(Append(q, t)) /\ Len(Append(q, t)) = Len(q) + 1
         /\ \A n \in 1..Len(q) : Append(q, t)[n] = q[n]
         /\ Append(q, t)[Len(q) + 1] = t
  <1>1. PICK T : q \in Seq(T)
    BY DEF IsQueue
  <1>2. q \in Seq(T \cup {t})
    BY <1>1
  <1>3. Append(q, t) \in Seq(T \cup {t})
    BY <1>2
  <1>4. IsQueue(Append(q, t))
    BY <1>3 DEF IsQueue
  <1>5. QED
    BY <1>2, <1>4

LEMMA QueueShrinks ==
  ASSUME NEW q, IsQueue(q), q # << >>
  PROVE  /\ IsQueue(Tail(q)) /\ Len(Tail(q)) = Len(q) - 1 /\ Len(q) > 0
         /\ \A n \in 1..Len(Tail(q)) : Tail(q)[n] = q[n + 1]
         /\ Head(q) = q[1]
  <1>1. PICK T : q \in Seq(T)
    BY DEF IsQueue
  <1>2. Tail(q) \in Seq(T)
    BY <1>1
  <1>3. IsQueue(Tail(q))
    BY <1>2 DEF IsQueue
  <1>4. QED
    BY <1>1, <1>3

LEMMA FinalNext ==
  ASSUME NEW d, NEW q, NEW t, IsQueue(q)
  PROVE  /\ \A n \in 0..Len(q) : RowsAfter(d, Append(q, t))[n] = RowsAfter(d, q)[n]
         /\ RowsAfter(d, Append(q, t))[Len(q) + 1] = Execute(Final(d, q), t)
         /\ Final(d, Append(q, t)) = Execute(Final(d, q), t)
  <1> DEFINE r == Append(q, t)
  <1>1. /\ Len(q) \in Nat /\ Len(r) = Len(q) + 1 /\ r[Len(q) + 1] = t
        /\ \A n \in 1..Len(q) : r[n] = q[n]
    BY QueueLength, QueueGrows
  <1> HIDE DEF r
  <1>2. \A n \in 0..Len(q) : RowsAfter(d, r)[n] = RowsAfter(d, q)[n]
    BY <1>1, RowsPrefix
  <1>3. Len(q) + 1 \in 1..Len(r) /\ (Len(q) + 1) - 1 = Len(q) /\ Len(q) \in 0..Len(q)
    BY <1>1
  <1>4. RowsAfter(d, r)[Len(q) + 1] = Execute(RowsAfter(d, r)[Len(q)], t)
    <2>1. RowsAfter(d, r)[Len(q) + 1]
            = Execute(RowsAfter(d, r)[(Len(q) + 1) - 1], r[Len(q) + 1])
      BY <1>1, <1>3, RowsNext
    <2>2. QED
      BY <1>1, <1>3, <2>1
  <1>5. RowsAfter(d, r)[Len(q) + 1] = Execute(Final(d, q), t)
    BY <1>2, <1>3, <1>4 DEF Final
  <1>6. Final(d, r) = Execute(Final(d, q), t)
    BY <1>1, <1>5 DEF Final
  <1>7. QED
    BY <1>2, <1>5, <1>6 DEF r

LEMMA FinalShift ==
  ASSUME NEW d, NEW q, IsQueue(q), q # << >>
  PROVE  /\ \A n \in 0..Len(Tail(q)) :
               RowsAfter(Execute(d, Head(q)), Tail(q))[n] = RowsAfter(d, q)[n + 1]
         /\ Final(Execute(d, Head(q)), Tail(q)) = Final(d, q)
  <1> DEFINE r == Tail(q)
  <1>1. /\ Len(q) \in Nat /\ Len(r) = Len(q) - 1 /\ Len(q) > 0 /\ Head(q) = q[1]
        /\ \A n \in 1..Len(r) : r[n] = q[n + 1]
    BY QueueLength, QueueShrinks
  <1> HIDE DEF r
  <1>2. \A n \in 0..Len(r) : RowsAfter(Execute(d, q[1]), r)[n] = RowsAfter(d, q)[n + 1]
    BY <1>1, RowsShift
  <1>3. Len(r) \in 0..Len(r) /\ Len(r) + 1 = Len(q)
    BY <1>1
  <1>4. Final(Execute(d, q[1]), r) = Final(d, q)
    BY <1>2, <1>3 DEF Final
  <1>5. QED
    BY <1>1, <1>2, <1>4 DEF r

LEMMA FinalEmpty ==
  ASSUME NEW d
  PROVE  Final(d, << >>) = d /\ IsQueue(<< >>) /\ Len(<< >>) = 0
  <1>1. << >> \in Seq({})
    OBVIOUS
  <1>2. IsQueue(<< >>) /\ Len(<< >>) = 0
    BY <1>1 DEF IsQueue
  <1>3. QED
    BY <1>2, RowsFirst DEF Final

(* What a login writes: nothing.                                            *)
LEMMA LoginWritesNothing ==
  ASSUME NEW d \in Database, NEW p
  PROVE  Execute(d, [Blank EXCEPT !.login = p]) = d
  <1> DEFINE t == [Blank EXCEPT !.login = p]
  <1>1. /\ t.money = None /\ t.net = None /\ t.row = None /\ t.post = None
        /\ t.paid = None /\ t.drop = {} /\ t.attach = None /\ t.lost = {}
        /\ t.lot = None /\ t.fees = 0
    BY DEF Blank
  <1> HIDE DEF t
  <1>2. /\ Override(d.money, None) = d.money /\ Override(d.net, None) = d.net
        /\ Override(d.row, None) = d.row /\ Override(d.lot, None) = d.lot
    BY DEF Override, None, Database
  <1>3. [id \in MailIds |-> MailRow(d, t, id)] = d.mail
    <2>1. \A id \in MailIds : MailRow(d, t, id) = d.mail[id]
      BY <1>1 DEF MailRow, None
    <2>2. d.mail = [id \in MailIds |-> d.mail[id]]
      BY DEF Database
    <2>3. QED
      BY <2>1, <2>2
  <1>4. [i \in Items |-> AttachRow(d, t, i)] = d.attach
    <2>1. \A i \in Items : AttachRow(d, t, i) = d.attach[i]
      BY <1>1 DEF AttachRow, None
    <2>2. d.attach = [i \in Items |-> d.attach[i]]
      BY DEF Database
    <2>3. QED
      BY <2>1, <2>2
  <1>5. d.kept \ t.lost = d.kept /\ d.fees + t.fees = d.fees
    BY <1>1 DEF Database
  <1>6. d = [money |-> d.money, net |-> d.net, row |-> d.row, mail |-> d.mail,
             attach |-> d.attach, kept |-> d.kept, lot |-> d.lot, fees |-> d.fees]
    BY DEF Database
  <1> DEFINE M == [id \in MailIds |-> MailRow(d, t, id)]
             A == [i \in Items |-> AttachRow(d, t, i)]
  <1>7. Execute(d, t) =
          [money |-> Override(d.money, t.money), net |-> Override(d.net, t.net),
           row |-> Override(d.row, t.row), mail |-> M, attach |-> A,
           kept |-> d.kept \ t.lost, lot |-> Override(d.lot, t.lot),
           fees |-> d.fees + t.fees]
    BY DEF Execute
  <1>8. M = d.mail /\ A = d.attach
    BY <1>3, <1>4
  <1> HIDE DEF M, A
  <1>9. Execute(d, t) = d
    BY <1>1, <1>2, <1>5, <1>6, <1>7, <1>8
  <1>10. QED
    BY <1>9 DEF t

(* What a posted transaction has to keep.                                   *)
LEMMA SameSteps ==
  ASSUME NEW c, NEW d, NEW e, NEW p
  PROVE  /\ SamePurse(d, d, p) /\ SameMails(d, d, p)
         /\ SamePurse(c, d, p) /\ SamePurse(d, e, p) => SamePurse(c, e, p)
         /\ SameMails(c, d, p) /\ SameMails(d, e, p) => SameMails(c, e, p)
  BY DEF SamePurse, SameMails

LEMMA PostKeepsRows ==
  ASSUME NEW d, NEW q, NEW t, IsQueue(q), RowsSound(d, q),
         Sound(Execute(Final(d, q), t))
  PROVE  RowsSound(d, Append(q, t))
  <1> SUFFICES ASSUME NEW n \in 0..Len(Append(q, t))
               PROVE  Sound(RowsAfter(d, Append(q, t))[n])
    BY DEF RowsSound
  <1>1. Len(q) \in Nat /\ Len(Append(q, t)) = Len(q) + 1
    BY QueueLength, QueueGrows
  <1>2. CASE n \in 0..Len(q)
    BY <1>2, FinalNext DEF RowsSound
  <1>3. CASE n = Len(q) + 1
    BY <1>3, FinalNext
  <1>4. QED
    BY <1>1, <1>2, <1>3

LEMMA PostKeepsStill ==
  ASSUME NEW d, NEW q, NEW t, NEW p, NEW k \in Nat, IsQueue(q), k <= Len(q)
  PROVE  /\ /\ PurseStill(d, q, p, k)
            /\ SamePurse(Final(d, q), Execute(Final(d, q), t), p)
            => PurseStill(d, Append(q, t), p, k)
         /\ /\ MailStill(d, q, p, k)
            /\ SameMails(Final(d, q), Execute(Final(d, q), t), p)
            => MailStill(d, Append(q, t), p, k)
  <1> DEFINE r == Append(q, t)
             e == Execute(Final(d, q), t)
  <1>1. /\ Len(q) \in Nat /\ Len(r) = Len(q) + 1
        /\ \A n \in 0..Len(q) : RowsAfter(d, r)[n] = RowsAfter(d, q)[n]
        /\ RowsAfter(d, r)[Len(q) + 1] = e /\ Final(d, r) = e
    BY QueueLength, QueueGrows, FinalNext
  <1> HIDE DEF r, e
  <1>2. \A n \in k..Len(r) : (n \in 0..Len(q) /\ n \in k..Len(q)) \/ n = Len(q) + 1
    BY <1>1
  <1>3. ASSUME PurseStill(d, q, p, k), SamePurse(Final(d, q), e, p)
        PROVE  PurseStill(d, r, p, k)
    <2> SUFFICES ASSUME NEW n \in k..Len(r)
                 PROVE  SamePurse(RowsAfter(d, r)[n], Final(d, r), p)
      BY DEF PurseStill
    <2>1. CASE n \in 0..Len(q) /\ n \in k..Len(q)
      <3>1. SamePurse(RowsAfter(d, q)[n], Final(d, q), p)
        BY <1>3, <2>1 DEF PurseStill
      <3>2. SamePurse(RowsAfter(d, q)[n], e, p)
        BY <1>3, <3>1, SameSteps
      <3>3. QED
        BY <1>1, <2>1, <3>2
    <2>2. CASE n = Len(q) + 1
      BY <1>1, <2>2, SameSteps
    <2>3. QED
      BY <1>2, <2>1, <2>2
  <1>4. ASSUME MailStill(d, q, p, k), SameMails(Final(d, q), e, p)
        PROVE  MailStill(d, r, p, k)
    <2> SUFFICES ASSUME NEW n \in k..Len(r)
                 PROVE  SameMails(RowsAfter(d, r)[n], Final(d, r), p)
      BY DEF MailStill
    <2>1. CASE n \in 0..Len(q) /\ n \in k..Len(q)
      <3>1. SameMails(RowsAfter(d, q)[n], Final(d, q), p)
        BY <1>4, <2>1 DEF MailStill
      <3>2. SameMails(RowsAfter(d, q)[n], e, p)
        BY <1>4, <3>1, SameSteps
      <3>3. QED
        BY <1>1, <2>1, <3>2
    <2>2. CASE n = Len(q) + 1
      BY <1>1, <2>2, SameSteps
    <2>3. QED
      BY <1>2, <2>1, <2>2
  <1>5. QED
    BY <1>3, <1>4 DEF r, e

LEMMA PostKeepsLogins ==
  ASSUME NEW d, NEW q, NEW t, NEW on, NEW on2, IsQueue(q), LoginsWait(d, q, on),
         t.login = Nobody, on2 \subseteq on,
         \A p \in Players \ on : /\ SamePurse(Final(d, q), Execute(Final(d, q), t), p)
                                 /\ SameMails(Final(d, q), Execute(Final(d, q), t), p)
  PROVE  LoginsWait(d, Append(q, t), on2)
  <1> DEFINE r == Append(q, t)
  <1>1. /\ Len(q) \in Nat /\ Len(r) = Len(q) + 1 /\ r[Len(q) + 1] = t
        /\ \A n \in 1..Len(q) : r[n] = q[n]
    BY QueueLength, QueueGrows
  <1> HIDE DEF r
  <1> SUFFICES ASSUME NEW k \in 1..Len(r), IsLogin(r[k])
               PROVE  /\ r[k].login \in Players \ on2
                      /\ r[k] = [Blank EXCEPT !.login = r[k].login]
                      /\ PurseStill(d, r, r[k].login, k)
                      /\ MailStill(d, r, r[k].login, k)
                      /\ \A n \in 1..Len(r) : r[n].login = r[k].login => n = k
    BY DEF LoginsWait, r
  <1>2. k # Len(q) + 1
    BY <1>1 DEF IsLogin
  <1>3. k \in 1..Len(q) /\ k \in Nat /\ k <= Len(q) /\ r[k] = q[k]
    BY <1>1, <1>2
  <1>4. /\ q[k].login \in Players \ on
        /\ q[k] = [Blank EXCEPT !.login = q[k].login]
        /\ PurseStill(d, q, q[k].login, k)
        /\ MailStill(d, q, q[k].login, k)
        /\ \A n \in 1..Len(q) : q[n].login = q[k].login => n = k
    BY <1>3 DEF LoginsWait
  <1>5. PurseStill(d, r, q[k].login, k) /\ MailStill(d, r, q[k].login, k)
    BY <1>3, <1>4, PostKeepsStill DEF r
  <1>6. ASSUME NEW n \in 1..Len(r), r[n].login = r[k].login PROVE n = k
    <2>1. n # Len(q) + 1
      BY <1>1, <1>3, <1>4, <1>6, HoldingsConstants
    <2>2. n \in 1..Len(q)
      BY <1>1, <2>1
    <2>3. QED
      BY <1>1, <1>3, <1>4, <1>6, <2>2
  <1>7. QED
    BY <1>3, <1>4, <1>5, <1>6

LEMMA PostKeepsUnread ==
  ASSUME NEW d, NEW q, NEW t, NEW on, NEW on2, NEW bx, NEW bx2, IsQueue(q),
         Unread(d, q, on, bx),
         \A p \in on2 : ~bx2[p].loaded =>
            /\ p \in on /\ ~bx[p].loaded
            /\ SameMails(Final(d, q), Execute(Final(d, q), t), p)
  PROVE  Unread(d, Append(q, t), on2, bx2)
  <1> SUFFICES ASSUME NEW p \in on2, ~bx2[p].loaded
               PROVE  MailStill(d, Append(q, t), p, 0)
    BY DEF Unread
  <1>1. MailStill(d, q, p, 0)
    BY DEF Unread
  <1>2. Len(q) \in Nat /\ 0 \in Nat /\ 0 <= Len(q)
    BY QueueLength
  <1>3. QED
    BY <1>1, <1>2, PostKeepsStill

(* What the worker keeps.                                                   *)
LEMMA WorkKeepsRows ==
  ASSUME NEW d, NEW q, IsQueue(q), q # << >>, RowsSound(d, q)
  PROVE  RowsSound(Execute(d, Head(q)), Tail(q))
  <1> SUFFICES ASSUME NEW n \in 0..Len(Tail(q))
               PROVE  Sound(RowsAfter(Execute(d, Head(q)), Tail(q))[n])
    BY DEF RowsSound
  <1>1. n + 1 \in 0..Len(q)
    BY QueueLength, QueueShrinks
  <1>2. QED
    BY <1>1, FinalShift DEF RowsSound

LEMMA WorkKeepsStill ==
  ASSUME NEW d, NEW q, NEW p, NEW k \in Nat, NEW j \in Nat, j <= k + 1,
         IsQueue(q), q # << >>
  PROVE  /\ PurseStill(d, q, p, j) => PurseStill(Execute(d, Head(q)), Tail(q), p, k)
         /\ MailStill(d, q, p, j) => MailStill(Execute(d, Head(q)), Tail(q), p, k)
  <1> DEFINE r == Tail(q)
             e == Execute(d, Head(q))
  <1>1. /\ Len(q) \in Nat /\ Len(r) = Len(q) - 1 /\ Len(q) > 0
        /\ \A n \in 0..Len(r) : RowsAfter(e, r)[n] = RowsAfter(d, q)[n + 1]
        /\ Final(e, r) = Final(d, q)
    BY QueueLength, QueueShrinks, FinalShift
  <1> HIDE DEF r, e
  <1>2. \A n \in k..Len(r) : n \in 0..Len(r) /\ n + 1 \in j..Len(q)
    BY <1>1
  <1>3. \A n \in k..Len(r) : RowsAfter(e, r)[n] = RowsAfter(d, q)[n + 1]
    BY <1>1, <1>2
  <1>4. PurseStill(d, q, p, j) => PurseStill(e, r, p, k)
    BY <1>1, <1>2, <1>3 DEF PurseStill
  <1>5. MailStill(d, q, p, j) => MailStill(e, r, p, k)
    BY <1>1, <1>2, <1>3 DEF MailStill
  <1>6. QED
    BY <1>4, <1>5 DEF r, e

LEMMA WorkKeepsLogins ==
  ASSUME NEW d, NEW q, NEW on, NEW on2, IsQueue(q), q # << >>, LoginsWait(d, q, on),
         on2 \subseteq on \cup (IF IsLogin(Head(q)) THEN {Head(q).login} ELSE {})
  PROVE  LoginsWait(Execute(d, Head(q)), Tail(q), on2)
  <1> DEFINE r == Tail(q)
             e == Execute(d, Head(q))
  <1>1. /\ Len(q) \in Nat /\ Len(r) = Len(q) - 1 /\ Len(q) > 0
        /\ \A n \in 1..Len(r) : r[n] = q[n + 1]
        /\ Head(q) = q[1]
    BY QueueLength, QueueShrinks
  <1> HIDE DEF r
  <1> SUFFICES ASSUME NEW k \in 1..Len(r), IsLogin(r[k])
               PROVE  /\ r[k].login \in Players \ on2
                      /\ r[k] = [Blank EXCEPT !.login = r[k].login]
                      /\ PurseStill(e, r, r[k].login, k)
                      /\ MailStill(e, r, r[k].login, k)
                      /\ \A n \in 1..Len(r) : r[n].login = r[k].login => n = k
    BY DEF LoginsWait, r
  <1> HIDE DEF e
  <1>2. /\ k \in Nat /\ k + 1 \in Nat /\ k + 1 <= k + 1
        /\ k + 1 \in 1..Len(q) /\ r[k] = q[k + 1] /\ 1 \in 1..Len(q) /\ k + 1 # 1
    BY <1>1
  <1>3. /\ q[k + 1].login \in Players \ on
        /\ q[k + 1] = [Blank EXCEPT !.login = q[k + 1].login]
        /\ PurseStill(d, q, q[k + 1].login, k + 1)
        /\ MailStill(d, q, q[k + 1].login, k + 1)
        /\ \A n \in 1..Len(q) : q[n].login = q[k + 1].login => n = k + 1
    BY <1>2 DEF LoginsWait
  <1>4. PurseStill(e, r, q[k + 1].login, k) /\ MailStill(e, r, q[k + 1].login, k)
    BY <1>2, <1>3, WorkKeepsStill DEF r, e
  <1>5. q[1].login # q[k + 1].login
    BY <1>2, <1>3
  <1>6. q[k + 1].login \notin on2
    BY <1>1, <1>3, <1>5
  <1>7. ASSUME NEW n \in 1..Len(r), r[n].login = r[k].login PROVE n = k
    <2>1. n + 1 \in 1..Len(q) /\ r[n] = q[n + 1]
      BY <1>1
    <2>2. n + 1 = k + 1
      BY <1>2, <1>3, <1>7, <2>1
    <2>3. QED
      BY <2>2
  <1>8. QED
    BY <1>2, <1>3, <1>4, <1>6, <1>7
-----------------------------------------------------------------------------
(* Nothing refers to an id that is free, in any of the rows.                *)
LEMMA NewMailsOnly ==
  ASSUME NEW d, NEW q, IsQueue(q), NEW id \in MailIds, d.mail[id] = NoMail,
         \A k \in 1..Len(q) : id \notin DOMAIN q[k].post
  PROVE  \A n \in 0..Len(q) : RowsAfter(d, q)[n].mail[id] = NoMail
  <1> DEFINE G == {n \in Nat : n <= Len(q) => RowsAfter(d, q)[n].mail[id] = NoMail}
  <1>0. Len(q) \in Nat
    BY QueueLength
  <1>1. 0 \in G
    BY <1>0, RowsFirst
  <1>2. ASSUME NEW n \in Nat, n \in G PROVE n + 1 \in G
    <2> SUFFICES ASSUME n + 1 <= Len(q)
                 PROVE  RowsAfter(d, q)[n + 1].mail[id] = NoMail
      OBVIOUS
    <2>1. n + 1 \in 1..Len(q) /\ (n + 1) - 1 = n /\ n <= Len(q)
      BY <1>0
    <2>2. RowsAfter(d, q)[n].mail[id] = NoMail
      BY <1>2, <2>1
    <2>3. RowsAfter(d, q)[n + 1] = Execute(RowsAfter(d, q)[n], q[n + 1])
      BY <1>0, <2>1, RowsNext
    <2>4. id \notin DOMAIN q[n + 1].post
      BY <2>1
    <2>5. MailRow(RowsAfter(d, q)[n], q[n + 1], id) = NoMail
      BY <2>2, <2>4 DEF MailRow
    <2>6. QED
      BY <2>3, <2>5 DEF Execute
  <1>3. Nat \subseteq G
    <2> HIDE DEF G
    <2> QED
      BY <1>1, <1>2, NumberInduction
  <1>4. QED
    BY <1>0, <1>3

LEMMA NewLotsOnly ==
  ASSUME NEW d, NEW q, IsQueue(q), RowsSound(d, q), NEW a \in Lots, d.lot[a] = NoLot,
         \A k \in 1..Len(q) : a \notin DOMAIN q[k].lot
  PROVE  \A n \in 0..Len(q) : RowsAfter(d, q)[n].lot[a] = NoLot
  <1> DEFINE G == {n \in Nat : n <= Len(q) => RowsAfter(d, q)[n].lot[a] = NoLot}
  <1>0. Len(q) \in Nat
    BY QueueLength
  <1>1. 0 \in G
    BY <1>0, RowsFirst
  <1>2. ASSUME NEW n \in Nat, n \in G PROVE n + 1 \in G
    <2> SUFFICES ASSUME n + 1 <= Len(q)
                 PROVE  RowsAfter(d, q)[n + 1].lot[a] = NoLot
      OBVIOUS
    <2>1. n + 1 \in 1..Len(q) /\ (n + 1) - 1 = n /\ n \in 0..Len(q)
      BY <1>0
    <2>2. RowsAfter(d, q)[n].lot[a] = NoLot
      BY <1>2, <2>1
    <2>3. RowsAfter(d, q)[n + 1] = Execute(RowsAfter(d, q)[n], q[n + 1])
      BY <1>0, <2>1, RowsNext
    <2>4. a \notin DOMAIN q[n + 1].lot
      BY <2>1
    <2>5. DOMAIN RowsAfter(d, q)[n].lot = Lots
      BY <2>1 DEF RowsSound, Sound, Database
    <2>6. Override(RowsAfter(d, q)[n].lot, q[n + 1].lot)[a] = NoLot
      BY <2>2, <2>4, <2>5 DEF Override
    <2>7. QED
      BY <2>3, <2>6 DEF Execute
  <1>3. Nat \subseteq G
    <2> HIDE DEF G
    <2> QED
      BY <1>1, <1>2, NumberInduction
  <1>4. QED
    BY <1>0, <1>3
-----------------------------------------------------------------------------
(* Transactions by their parts.                                            *)
LEMMA BlankTrans ==
  Blank = Trans(None, None, None, None, None, {}, None, {}, None, 0)
  BY DEF Blank, Trans

LEMMA MailedTrans ==
  ASSUME NEW mo, NEW ne, NEW ro, NEW po, NEW pa, NEW dr, NEW at, NEW lo, NEW lt,
         NEW fe, NEW ls
  PROVE  Mailed(Trans(mo, ne, ro, po, pa, dr, at, lo, lt, fe), ls)
           = Trans(mo, ne, ro, Override(po, NewRows(ls)), pa, dr,
                   Override(at, NewAttached(ls)), lo, lt, fe)
  <1> DEFINE t == Trans(mo, ne, ro, po, pa, dr, at, lo, lt, fe)
             A == NewRows(ls)
             B == NewAttached(ls)
  <1>1. Mailed(t, ls) = [t EXCEPT !.post = Override(t.post, A),
                                  !.attach = Override(t.attach, B)]
    BY DEF Mailed, NewRows, NewAttached
  <1> HIDE DEF A, B
  <1>2. Mailed(t, ls) = Trans(mo, ne, ro, Override(po, A), pa, dr, Override(at, B),
                              lo, lt, fe)
    BY <1>1 DEF Trans
  <1>3. QED
    BY <1>2 DEF A, B

LEMMA SavingTrans ==
  ASSUME NEW mo, NEW ne, NEW ro, NEW po, NEW pa, NEW dr, NEW at, NEW lo, NEW lt,
         NEW fe, NEW S, NEW m, NEW n, NEW queued
  PROVE  Saving(Trans(mo, ne, ro, po, pa, dr, at, lo, lt, fe), S, m, n, queued)
           = Trans(Override(mo, [p \in S |-> m[p]]), Override(ne, [p \in S |-> n[p]]),
                   Override(ro, QueuedRows(S, queued)), po, pa, dr, at, lo, lt, fe)
  <1> DEFINE t == Trans(mo, ne, ro, po, pa, dr, at, lo, lt, fe)
             A == [p \in S |-> m[p]]
             B == [p \in S |-> n[p]]
             C == QueuedRows(S, queued)
  <1>1. Saving(t, S, m, n, queued) = [t EXCEPT !.money = Override(t.money, A),
                                               !.net = Override(t.net, B),
                                               !.row = Override(t.row, C)]
    BY DEF Saving, QueuedRows
  <1> HIDE DEF A, B, C
  <1>2. Saving(t, S, m, n, queued) = Trans(Override(mo, A), Override(ne, B),
                                           Override(ro, C), po, pa, dr, at, lo, lt, fe)
    BY <1>1 DEF Trans
  <1>3. QED
    BY <1>2 DEF A, B, C

LEMMA SavingMailTrans ==
  ASSUME NEW mo, NEW ne, NEW ro, NEW po, NEW pa, NEW dr, NEW at, NEW lo, NEW lt,
         NEW fe, NEW p, NEW b
  PROVE  SavingMail(Trans(mo, ne, ro, po, pa, dr, at, lo, lt, fe), p, b)
           = Trans(mo, ne, ro, po,
                   [id \in InState(p, b, "changed") |->
                       [money |-> b[p].mails[id].money, cod |-> b[p].mails[id].cod]],
                   dr \cup InState(p, b, "deleted"),
                   Override(at, [i \in UNION {b[p].mails[id].removed :
                                   id \in InState(p, b, "changed")} |-> Nobody]),
                   lo \cup UNION {b[p].mails[id].items : id \in InState(p, b, "deleted")},
                   lt,
                   fe + Total([id \in InState(p, b, "deleted") |-> b[p].mails[id].money],
                              InState(p, b, "deleted")))
  <1> DEFINE t == Trans(mo, ne, ro, po, pa, dr, at, lo, lt, fe)
             X == InState(p, b, "changed")
             Y == InState(p, b, "deleted")
             A == [id \in X |-> [money |-> b[p].mails[id].money, cod |-> b[p].mails[id].cod]]
             B == [i \in UNION {b[p].mails[id].removed : id \in X} |-> Nobody]
             C == Total([id \in Y |-> b[p].mails[id].money], Y)
             D == UNION {b[p].mails[id].items : id \in Y}
  <1>1. SavingMail(t, p, b) = [t EXCEPT !.paid = A, !.attach = Override(t.attach, B),
                                        !.drop = t.drop \cup Y, !.fees = t.fees + C,
                                        !.lost = t.lost \cup D]
    BY DEF SavingMail
  <1> HIDE DEF A, B, C, D, Y
  <1>2. SavingMail(t, p, b) = Trans(mo, ne, ro, po, A, dr \cup Y, Override(at, B),
                                    lo \cup D, lt, fe + C)
    BY <1>1 DEF Trans
  <1>3. QED
    BY <1>2 DEF A, B, C, D, Y

LEMMA OverrideNone ==
  ASSUME NEW f, f = [x \in DOMAIN f |-> f[x]]
  PROVE  Override(f, None) = f /\ Override(None, f) = f
  BY DEF Override, None

LEMMA ExecuteParts ==
  ASSUME NEW d, NEW mo, NEW ne, NEW ro, NEW po, NEW pa, NEW dr, NEW at, NEW lo,
         NEW lt, NEW fe, NEW e, d \in Database,
         e = Execute(d, Trans(mo, ne, ro, po, pa, dr, at, lo, lt, fe)),
         DOMAIN mo \subseteq Players, DOMAIN ne \subseteq Players,
         DOMAIN ro \subseteq Items, DOMAIN lt \subseteq Lots
  PROVE  Executed(d, e, mo, ne, ro, po, pa, dr, at, lo, lt, fe)
  <1> DEFINE t == Trans(mo, ne, ro, po, pa, dr, at, lo, lt, fe)
  <1>1. /\ t.money = mo /\ t.net = ne /\ t.row = ro /\ t.post = po /\ t.paid = pa
        /\ t.drop = dr /\ t.attach = at /\ t.lost = lo /\ t.lot = lt /\ t.fees = fe
    BY DEF Trans
  <1> HIDE DEF t
  <1>2. e = Execute(d, t)
    BY DEF t
  <1>3. /\ DOMAIN d.money = Players /\ DOMAIN d.net = Players
        /\ DOMAIN d.row = Items /\ DOMAIN d.lot = Lots
    BY DEF Database
  <1>4. /\ e = [money |-> e.money, net |-> e.net, row |-> e.row, mail |-> e.mail,
                attach |-> e.attach, kept |-> e.kept, lot |-> e.lot, fees |-> e.fees]
        /\ e.money = Override(d.money, mo) /\ e.net = Override(d.net, ne)
        /\ e.row = Override(d.row, ro) /\ e.lot = Override(d.lot, lt)
        /\ e.mail = [id \in MailIds |-> MailRow(d, t, id)]
        /\ e.attach = [i \in Items |-> AttachRow(d, t, i)]
        /\ e.kept = d.kept \ lo /\ e.fees = d.fees + fe
    BY <1>1, <1>2 DEF Execute
  <1>5. Players \cup DOMAIN mo = Players /\ Players \cup DOMAIN ne = Players
        /\ Items \cup DOMAIN ro = Items /\ Lots \cup DOMAIN lt = Lots
    OBVIOUS
  <1>6. e.money = [p \in Players |-> IF p \in DOMAIN mo THEN mo[p] ELSE d.money[p]]
    BY <1>3, <1>4, <1>5 DEF Override
  <1>7. e.net = [p \in Players |-> IF p \in DOMAIN ne THEN ne[p] ELSE d.net[p]]
    BY <1>3, <1>4, <1>5 DEF Override
  <1>8. e.row = [i \in Items |-> IF i \in DOMAIN ro THEN ro[i] ELSE d.row[i]]
    BY <1>3, <1>4, <1>5 DEF Override
  <1>9. e.lot = [a \in Lots |-> IF a \in DOMAIN lt THEN lt[a] ELSE d.lot[a]]
    BY <1>3, <1>4, <1>5 DEF Override
  <1>10. e.mail = [id \in MailIds |->
               IF id \in DOMAIN po THEN po[id]
               ELSE IF id \in dr \/ d.mail[id] = NoMail THEN NoMail
               ELSE IF id \in DOMAIN pa
                    THEN [d.mail[id] EXCEPT !.money = pa[id].money, !.cod = pa[id].cod]
                    ELSE d.mail[id]]
    BY <1>1, <1>4 DEF MailRow
  <1>11. e.attach = [i \in Items |->
               IF i \in DOMAIN at THEN at[i]
               ELSE IF d.attach[i] \in dr THEN Nobody ELSE d.attach[i]]
    BY <1>1, <1>4 DEF AttachRow
  <1>12. QED
    BY <1>4, <1>6, <1>7, <1>8, <1>9, <1>10, <1>11 DEF Executed
-----------------------------------------------------------------------------

LEMMA RowTypes ==
  ASSUME NEW d \in Database
  PROVE  /\ \A p \in Players : d.money[p] \in 0..Cap /\ d.money[p] \in Int /\ d.net[p] \in Int
         /\ \A id \in MailIds : /\ d.mail[id] \in Mails \/ d.mail[id] = NoMail
                                /\ d.mail[id].money \in Int /\ d.mail[id].cod \in Nat
         /\ \A a \in Lots : /\ d.lot[a] \in Auctioned \/ d.lot[a] = NoLot
                            /\ d.lot[a].bid \in Nat /\ Worth(d.lot[a]) \in Int
         /\ d.fees \in Int
  <1>1. Cap \in Nat /\ Deposit \in Nat
    BY HoldingsConstants, AuctionConstants
  <1>2. \A p \in Players : d.money[p] \in 0..Cap /\ d.net[p] \in Int
    BY DEF Database
  <1>3. \A id \in MailIds : d.mail[id] \in Mails \/ d.mail[id] = NoMail
    BY DEF Database
  <1>4. \A a \in Lots : d.lot[a] \in Auctioned \/ d.lot[a] = NoLot
    BY DEF Database
  <1>5. \A id \in MailIds : d.mail[id].money \in Int /\ d.mail[id].cod \in Nat
    BY <1>3 DEF Mails, NoMail
  <1>6. \A a \in Lots : d.lot[a].bid \in Nat
    BY <1>4 DEF Auctioned, NoLot
  <1>7. \A a \in Lots : Worth(d.lot[a]) \in Int
    BY <1>1, <1>6 DEF Worth
  <1>8. d.fees \in Int
    BY DEF Database
  <1>9. QED
    BY <1>1, <1>2, <1>3, <1>4, <1>5, <1>6, <1>7, <1>8

LEMMA SumTypes ==
  ASSUME NEW d \in Database
  PROVE  /\ PurseSum(d) \in Int /\ MailSum(d) \in Int /\ LotSum(d) \in Int
         /\ d.fees \in Int
         /\ Wealth(d) = PurseSum(d) + MailSum(d) + LotSum(d) + d.fees
  <1>0. IsFiniteSet(Players) /\ IsFiniteSet(MailIds) /\ IsFiniteSet(Lots)
    BY HoldingsConstants
  <1>1. PurseSum(d) \in Int
    <2> DEFINE f == [p \in Players |-> d.money[p] - d.net[p]]
    <2>1. \A p \in Players : f[p] \in Int
      BY RowTypes
    <2> HIDE DEF f
    <2>2. Total(f, Players) \in Int
      BY <1>0, <2>1, TotalType
    <2>3. QED
      BY <2>2 DEF f, PurseSum
  <1>2. MailSum(d) \in Int
    <2> DEFINE f == [id \in MailIds |-> d.mail[id].money]
    <2>1. \A id \in MailIds : f[id] \in Int
      BY RowTypes
    <2> HIDE DEF f
    <2>2. Total(f, MailIds) \in Int
      BY <1>0, <2>1, TotalType
    <2>3. QED
      BY <2>2 DEF f, MailSum
  <1>3. LotSum(d) \in Int
    <2> DEFINE f == [a \in Lots |-> Worth(d.lot[a])]
    <2>1. \A a \in Lots : f[a] \in Int
      BY RowTypes
    <2> HIDE DEF f
    <2>2. Total(f, Lots) \in Int
      BY <1>0, <2>1, TotalType
    <2>3. QED
      BY <2>2 DEF f, LotSum
  <1>4. [a \in Lots |-> IF d.lot[a] = NoLot THEN 0 ELSE d.lot[a].bid + Deposit]
          = [a \in Lots |-> Worth(d.lot[a])]
    BY DEF Worth
  <1>5. Wealth(d) = PurseSum(d) + MailSum(d) + LotSum(d) + d.fees
    BY <1>4 DEF Wealth, PurseSum, MailSum, LotSum
  <1>6. QED
    BY <1>1, <1>2, <1>3, <1>5, RowTypes

LEMMA PurseMoves ==
  ASSUME NEW d \in Database, NEW e \in Database, NEW p \in Players,
         \A q \in Players \ {p} : e.money[q] = d.money[q] /\ e.net[q] = d.net[q]
  PROVE  PurseSum(e) = (PurseSum(d) - (d.money[p] - d.net[p])) + (e.money[p] - e.net[p])
  <1> DEFINE f == [q \in Players |-> d.money[q] - d.net[q]]
             g == [q \in Players |-> e.money[q] - e.net[q]]
  <1>1. /\ \A q \in Players : f[q] \in Int /\ g[q] \in Int
        /\ \A q \in Players \ {p} : g[q] = f[q]
        /\ f[p] = d.money[p] - d.net[p] /\ g[p] = e.money[p] - e.net[p]
    BY RowTypes
  <1> HIDE DEF f, g
  <1>2. Total(g, Players) = (Total(f, Players) - f[p]) + g[p]
    BY <1>1, HoldingsConstants, TotalUpdate
  <1>3. QED
    BY <1>1, <1>2 DEF f, g, PurseSum

LEMMA LotMoves ==
  ASSUME NEW d \in Database, NEW e \in Database, NEW a \in Lots,
         \A b \in Lots \ {a} : e.lot[b] = d.lot[b]
  PROVE  LotSum(e) = (LotSum(d) - Worth(d.lot[a])) + Worth(e.lot[a])
  <1> DEFINE f == [b \in Lots |-> Worth(d.lot[b])]
             g == [b \in Lots |-> Worth(e.lot[b])]
  <1>1. /\ \A b \in Lots : f[b] \in Int /\ g[b] \in Int
        /\ \A b \in Lots \ {a} : g[b] = f[b]
        /\ f[a] = Worth(d.lot[a]) /\ g[a] = Worth(e.lot[a])
    BY RowTypes
  <1> HIDE DEF f, g
  <1>2. Total(g, Lots) = (Total(f, Lots) - f[a]) + g[a]
    BY <1>1, HoldingsConstants, TotalUpdate
  <1>3. QED
    BY <1>1, <1>2 DEF f, g, LotSum

LEMMA SumsKept ==
  ASSUME NEW d \in Database, NEW e \in Database
  PROVE  /\ (\A q \in Players : e.money[q] = d.money[q] /\ e.net[q] = d.net[q])
               => PurseSum(e) = PurseSum(d)
         /\ (\A b \in Lots : e.lot[b] = d.lot[b]) => LotSum(e) = LotSum(d)
         /\ (\A id \in MailIds : e.mail[id] = d.mail[id]) => MailSum(e) = MailSum(d)
  BY DEF PurseSum, LotSum, MailSum



LEMMA LettersTotal ==
  ASSUME NEW f, NEW g, NEW S, NEW n, NEW nid, NEW w, Filled(f, g, S, n, nid, w)
  PROVE  Total(g, S) = Total(f, S) + Three(w, n)
  <1> USE DEF Filled
  <1> DEFINE Upto(k) == [x \in S |-> IF \E j \in 1..k : nid[j] = x THEN g[x] ELSE f[x]]
             T(k) == Total(Upto(k), S)
  <1>1. T(0) = Total(f, S)
    <2>1. \A x \in S : Upto(0)[x] = f[x]
      OBVIOUS
    <2> HIDE DEF Upto
    <2>2. QED
      BY <2>1, TotalEqual
  <1>2. T(n) = Total(g, S)
    <2>1. \A x \in S : Upto(n)[x] = g[x]
      OBVIOUS
    <2> HIDE DEF Upto
    <2>2. QED
      BY <2>1, TotalEqual
  <1>3. ASSUME NEW k \in 1..n PROVE T(k) = T(k - 1) + g[nid[k]]
    <2>1. \A x \in S : Upto(k)[x] \in Int /\ Upto(k - 1)[x] \in Int
      OBVIOUS
    <2>2. Upto(k)[nid[k]] = g[nid[k]]
      OBVIOUS
    <2>3. Upto(k - 1)[nid[k]] = f[nid[k]]
      <3>1. \A j \in 1..(k - 1) : j \in 1..n /\ j # k
        OBVIOUS
      <3>2. ~ \E j \in 1..(k - 1) : nid[j] = nid[k]
        BY <3>1
      <3>3. QED
        BY <3>2
    <2>4. \A x \in S \ {nid[k]} : Upto(k)[x] = Upto(k - 1)[x]
      <3> SUFFICES ASSUME NEW x \in S \ {nid[k]} PROVE Upto(k)[x] = Upto(k - 1)[x]
        OBVIOUS
      <3>1. (\E j \in 1..k : nid[j] = x) <=> (\E j \in 1..(k - 1) : nid[j] = x)
        <4>1. \A j \in 1..k : j \in 1..(k - 1) \/ j = k
          OBVIOUS
        <4>2. \A j \in 1..(k - 1) : j \in 1..k
          OBVIOUS
        <4>3. QED
          BY <4>1, <4>2
      <3>2. QED
        BY <3>1
    <2> HIDE DEF Upto
    <2>5. T(k) = (T(k - 1) - Upto(k - 1)[nid[k]]) + Upto(k)[nid[k]]
      BY <2>1, <2>4, TotalUpdate
    <2>6. T(k - 1) \in Int
      BY <2>1, TotalType
    <2> HIDE DEF T
    <2>7. f[nid[k]] = 0 /\ g[nid[k]] \in Int
      OBVIOUS
    <2>8. QED
      BY <2>2, <2>3, <2>5, <2>6, <2>7
  <1>4. Total(f, S) \in Int
    BY TotalType
  <1> HIDE DEF T
  <1>5. \A k \in 1..n : g[nid[k]] \in Int
    OBVIOUS
  <1>6. CASE n = 0
    BY <1>1, <1>2, <1>4, <1>6 DEF Three
  <1>7. CASE n = 1
    <2>1. T(1) = T(0) + g[nid[1]]
      BY <1>3, <1>7
    <2>2. QED
      BY <1>1, <1>2, <1>7, <2>1 DEF Three
  <1>8. CASE n = 2
    <2>1. T(1) = T(0) + g[nid[1]]
      BY <1>3, <1>8
    <2>2. T(2) = T(1) + g[nid[2]]
      BY <1>3, <1>8
    <2>3. QED
      BY <1>1, <1>2, <1>4, <1>5, <1>8, <2>1, <2>2 DEF Three
  <1>9. CASE n = 3
    <2>1. T(1) = T(0) + g[nid[1]]
      BY <1>3, <1>9
    <2>2. T(2) = T(1) + g[nid[2]]
      BY <1>3, <1>9
    <2>3. T(3) = T(2) + g[nid[3]]
      BY <1>3, <1>9
    <2>4. QED
      BY <1>1, <1>2, <1>4, <1>5, <1>9, <2>1, <2>2, <2>3 DEF Three
  <1>10. QED
    BY <1>6, <1>7, <1>8, <1>9
-----------------------------------------------------------------------------
(* Letters and their ids.                                                   *)
LEMMA SettledSound ==
  ASSUME EconomyInv
  PROVE  /\ Settled = Final(disk, queue) /\ Sound(Settled) /\ Settled \in Database
         /\ disk \in Database /\ Sound(disk)
         /\ Len(queue) \in Nat /\ IsQueue(queue)
  <1>1. IsQueue(queue) /\ Len(queue) \in Nat
    BY QueueLength DEF EconomyInv
  <1>2. Settled = Final(disk, queue)
    BY DEF Settled, Final
  <1>3. Len(queue) \in 0..Len(queue) /\ 0 \in 0..Len(queue)
    BY <1>1
  <1>4. Sound(Settled)
    BY <1>3 DEF EconomyInv, RowsSound, Settled
  <1>5. Sound(disk)
    BY <1>1, <1>3, RowsFirst DEF EconomyInv, RowsSound
  <1>6. QED
    BY <1>1, <1>2, <1>4, <1>5 DEF Sound

LEMMA FreeIsNew ==
  ASSUME EconomyInv, NEW id \in FreeIds
  PROVE  /\ id \in MailIds /\ Settled.mail[id] = NoMail
         /\ Attached(Settled, id) = {}
         /\ \A p \in Players : id \notin DOMAIN box[p].mails
  <1>1. /\ id \in MailIds /\ disk.mail[id] = NoMail
        /\ \A k \in DOMAIN queue : id \notin DOMAIN queue[k].post
        /\ \A p \in Players : id \notin DOMAIN box[p].mails
    <2>1. id \in MailIds /\ id \notin Taken
      BY DEF FreeIds
    <2>2. disk.mail[id] = NoMail
      BY <2>1 DEF Taken
    <2>3. id \notin UNION {DOMAIN queue[k].post : k \in DOMAIN queue}
      BY <2>1 DEF Taken
    <2>4. id \notin UNION {DOMAIN box[p].mails : p \in Players}
      BY <2>1 DEF Taken
    <2>5. ASSUME NEW k \in DOMAIN queue PROVE id \notin DOMAIN queue[k].post
      <3> DEFINE D(n) == DOMAIN queue[n].post
                 K == DOMAIN queue
      <3>1. id \notin UNION {D(n) : n \in K} /\ k \in K
        BY <2>3
      <3> HIDE DEF D, K
      <3>2. id \notin D(k)
        BY <3>1
      <3>3. QED
        BY <3>2 DEF D
    <2>6. \A p \in Players : id \notin DOMAIN box[p].mails
      BY <2>4
    <2>7. QED
      BY <2>1, <2>2, <2>5, <2>6
  <1>2. IsQueue(queue) /\ DOMAIN queue = 1..Len(queue) /\ Len(queue) \in 0..Len(queue)
    BY SettledSound, QueueLength
  <1>3. Settled.mail[id] = NoMail
    BY <1>1, <1>2, NewMailsOnly DEF Settled
  <1>4. id # Nobody
    BY <1>1, HoldingsConstants
  <1>5. Attached(Settled, id) = {}
    BY <1>3, <1>4, SettledSound DEF Attached, Sound, Proper
  <1>6. QED
    BY <1>1, <1>3, <1>5

LEMMA IdsAreFresh ==
  ASSUME NEW n \in Nat, RoomForMails(n)
  PROVE  /\ \A k \in 1..n : NewId(k) \in FreeIds
         /\ \A j, k \in 1..n : NewId(j) = NewId(k) => j = k
  <1>1. IsFiniteSet(FreeIds) /\ FreeIds \subseteq Nat /\ Cardinality(FreeIds) \in Nat
    <2>1. FreeIds \subseteq MailIds
      BY DEF FreeIds
    <2>2. QED
      BY <2>1, HoldingsConstants, FS_Subset, FS_CardinalityType
  <1>2. ASSUME NEW k \in 1..n
        PROVE  NewId(k) \in FreeIds /\ Cardinality({x \in FreeIds : x < NewId(k)}) = k - 1
    <2>1. k \in Nat /\ k > 0 /\ k <= Cardinality(FreeIds)
      BY <1>1 DEF RoomForMails
    <2>2. \E m \in FreeIds : Cardinality(Below(FreeIds, m)) = k - 1
      BY <1>1, <2>1, KthExists
    <2>3. \E m \in FreeIds : Cardinality({x \in FreeIds : x < m}) = k - 1
      BY <2>2 DEF Below
    <2>4. QED
      BY <2>3 DEF NewId
  <1>3. ASSUME NEW j \in 1..n, NEW k \in 1..n, NewId(j) = NewId(k) PROVE j = k
    <2>1. j - 1 = k - 1
      BY <1>2, <1>3
    <2>2. QED
      BY <2>1
  <1>4. QED
    BY <1>2, <1>3

LEMMA LetterIds ==
  ASSUME EconomyInv, NEW ls, Sendable(ls), RoomForMails(Len(ls))
  PROVE  /\ Len(ls) \in 0..3 /\ DOMAIN ls = 1..Len(ls)
         /\ \A k \in 1..Len(ls) :
               /\ NewId(k) \in Ids(ls) /\ NewId(k) \in MailIds
               /\ LetterOf(ls, NewId(k)) = ls[k] /\ ls[k] \in Letters
         /\ \A j, k \in 1..Len(ls) : NewId(j) = NewId(k) => j = k
         /\ \A id \in Ids(ls) :
               /\ id \in MailIds /\ Settled.mail[id] = NoMail
               /\ Attached(Settled, id) = {}
               /\ \A p \in Players : id \notin DOMAIN box[p].mails
               /\ \E k \in 1..Len(ls) : id = NewId(k)
  <1>1. Len(ls) \in Nat /\ Len(ls) \in 0..3 /\ DOMAIN ls = 1..Len(ls)
        /\ \A k \in 1..Len(ls) : ls[k] \in Letters
    <2>1. ls \in Seq(Letters) /\ Len(ls) <= 3
      BY DEF Sendable
    <2>2. Len(ls) \in Nat /\ DOMAIN ls = 1..Len(ls)
      BY <2>1
    <2>3. \A k \in 1..Len(ls) : ls[k] \in Letters
      BY <2>1
    <2>4. QED
      BY <2>1, <2>2, <2>3
  <1>2. /\ \A k \in 1..Len(ls) : NewId(k) \in FreeIds
        /\ \A j, k \in 1..Len(ls) : NewId(j) = NewId(k) => j = k
    BY <1>1, IdsAreFresh
  <1>3. \A k \in 1..Len(ls) : NewId(k) \in Ids(ls)
    BY <1>1 DEF Ids
  <1>4. \A id \in Ids(ls) : \E k \in 1..Len(ls) : id = NewId(k)
    BY <1>1 DEF Ids
  <1>5. ASSUME NEW k \in 1..Len(ls) PROVE LetterOf(ls, NewId(k)) = ls[k]
    <2>1. (CHOOSE j \in DOMAIN ls : NewId(j) = NewId(k)) = k
      BY <1>1, <1>2
    <2>2. QED
      BY <2>1 DEF LetterOf
  <1>6. \A id \in Ids(ls) : id \in FreeIds
    BY <1>2, <1>4
  <1>7. QED
    BY <1>1, <1>2, <1>3, <1>4, <1>5, <1>6, FreeIsNew
-----------------------------------------------------------------------------
(* Sending letters: what is true of the rows that do not know them is true  *)
(* of those that have them and of the mailboxes they are delivered to.      *)
LEMMA LetterKinds ==
  ASSUME NEW s, NEW bx, NEW ls, Sendable(ls), Fresh(s, bx, ls), NEW id \in Ids(ls)
  PROVE  /\ LetterOf(ls, id) \in Letters /\ Row(LetterOf(ls, id)) \in Mails
         /\ Row(LetterOf(ls, id)) # NoMail
         /\ Row(LetterOf(ls, id)).player => Row(LetterOf(ls, id)).from \in Players
         /\ Row(LetterOf(ls, id)).cod > 0 => Row(LetterOf(ls, id)).player
  <1>1. PICK k \in 1..Len(ls) : id = NewId(k)
    BY DEF Fresh
  <1>2. LetterOf(ls, id) = ls[k] /\ ls[k] \in Letters
    BY <1>1 DEF Fresh
  <1>3. (ls[k].player => ls[k].from \in Players) /\ (ls[k].cod > 0 => ls[k].player)
    BY DEF Sendable
  <1>4. Row(ls[k]) \in Mails /\ Row(ls[k]).to \in Players
    BY <1>2 DEF Row, Letters, Mails
  <1>5. Row(ls[k]) # NoMail
    BY <1>4, HoldingsConstants DEF NoMail
  <1>6. Row(ls[k]).player = ls[k].player /\ Row(ls[k]).from = ls[k].from
        /\ Row(ls[k]).cod = ls[k].cod
    BY DEF Row
  <1>7. QED
    BY <1>2, <1>3, <1>4, <1>5, <1>6

LEMMA LetterItems ==
  ASSUME NEW s, NEW bx, NEW ls, Sendable(ls), Fresh(s, bx, ls), NEW k \in 1..Len(ls),
         NEW i \in ls[k].items
  PROVE  i \in Enclosed(ls) /\ i \in Items /\ NewAttached(ls)[i] = NewId(k)
  <1>1. DOMAIN ls = 1..Len(ls) /\ k \in DOMAIN ls /\ ls[k].items \subseteq Items
    BY DEF Fresh, Letters
  <1>2. i \in UNION {ls[j].items : j \in DOMAIN ls}
    BY <1>1
  <1>3. (CHOOSE j \in DOMAIN ls : i \in ls[j].items) = k
    BY <1>1 DEF Sendable
  <1>4. QED
    BY <1>1, <1>2, <1>3 DEF Enclosed, NewAttached

LEMMA SentAttached ==
  ASSUME NEW s, NEW bx, NEW ls, NEW e, Sendable(ls), Fresh(s, bx, ls), Sent(s, e, ls),
         MailTyped(s)
  PROVE  /\ \A k \in 1..Len(ls) : Attached(e, NewId(k)) = ls[k].items
         /\ \A id \in MailIds \ Ids(ls) : /\ e.mail[id] = s.mail[id]
                                          /\ Attached(e, id) = Attached(s, id)
         /\ \A id \in Ids(ls) : e.mail[id] = Row(LetterOf(ls, id))
         /\ \A i \in Enclosed(ls) : \E k \in 1..Len(ls) : i \in ls[k].items
  <1>1. \A i \in Enclosed(ls) : \E k \in 1..Len(ls) : i \in ls[k].items
    BY DEF Enclosed, Fresh
  <1>2. \A i \in Items : e.attach[i] = IF i \in Enclosed(ls) THEN NewAttached(ls)[i]
                                       ELSE s.attach[i]
    BY DEF Sent
  <1>3. \A id \in MailIds : e.mail[id] = IF id \in Ids(ls) THEN Row(LetterOf(ls, id))
                                         ELSE s.mail[id]
    BY DEF Sent
  <1>4. Ids(ls) \subseteq MailIds
    BY DEF Fresh
  <1>5. ASSUME NEW k \in 1..Len(ls) PROVE Attached(e, NewId(k)) = ls[k].items
    <2>1. \A i \in Items : i \in Enclosed(ls) /\ e.attach[i] = NewId(k) => i \in ls[k].items
      <3> SUFFICES ASSUME NEW i \in Items, i \in Enclosed(ls), e.attach[i] = NewId(k)
                   PROVE  i \in ls[k].items
        OBVIOUS
      <3>1. PICK j \in 1..Len(ls) : i \in ls[j].items
        BY <1>1
      <3>2. e.attach[i] = NewId(j)
        BY <1>2, <3>1, LetterItems
      <3>3. j = k
        BY <3>2 DEF Fresh
      <3>4. QED
        BY <3>1, <3>3
    <2>2. \A i \in Items : i \notin Enclosed(ls) => e.attach[i] # NewId(k)
      <3>1. NewId(k) \in Ids(ls)
        BY DEF Fresh
      <3>2. Attached(s, NewId(k)) = {}
        BY <3>1 DEF Fresh
      <3>3. QED
        BY <1>2, <3>2 DEF Attached
    <2>3. \A i \in ls[k].items : i \in Items /\ e.attach[i] = NewId(k)
      BY <1>2, LetterItems
    <2>4. QED
      BY <2>1, <2>2, <2>3 DEF Attached
  <1>6. ASSUME NEW id \in MailIds \ Ids(ls) PROVE Attached(e, id) = Attached(s, id)
    <2>0. id # Nobody
      BY HoldingsConstants
    <2>1. ASSUME NEW i \in Items, i \in Enclosed(ls) PROVE e.attach[i] # id /\ s.attach[i] # id
      <3>1. PICK j \in 1..Len(ls) : i \in ls[j].items
        BY <1>1, <2>1
      <3>2. e.attach[i] = NewId(j)
        BY <1>2, <3>1, LetterItems
      <3>3. NewId(j) \in Ids(ls)
        BY DEF Fresh
      <3>4. s.attach[i] = Nobody
        BY <2>1 DEF Fresh
      <3>5. QED
        BY <2>0, <3>2, <3>3, <3>4
    <2>2. \A i \in Items : i \notin Enclosed(ls) => e.attach[i] = s.attach[i]
      BY <1>2
    <2>3. QED
      BY <2>1, <2>2 DEF Attached
  <1>7. QED
    BY <1>1, <1>3, <1>4, <1>5, <1>6

LEMMA SentTyped ==
  ASSUME NEW s, NEW bx, NEW ls, NEW e, Sendable(ls), Fresh(s, bx, ls), Sent(s, e, ls),
         MailTyped(s)
  PROVE  MailTyped(e)
  <1>1. /\ \A id \in MailIds \ Ids(ls) : e.mail[id] = s.mail[id]
        /\ \A id \in Ids(ls) : id \in MailIds /\ e.mail[id] = Row(LetterOf(ls, id))
        /\ \A i \in Enclosed(ls) : \E k \in 1..Len(ls) : i \in ls[k].items
    <2>1. \A id \in Ids(ls) : id \in MailIds
      BY DEF Fresh
    <2>2. QED
      BY <2>1, SentAttached
  <1>2. \A id \in MailIds : e.mail[id] \in Mails \cup {NoMail}
    BY <1>1, LetterKinds DEF MailTyped
  <1>3. e.mail \in [MailIds -> Mails \cup {NoMail}]
    BY <1>2 DEF Sent
  <1>4. ASSUME NEW i \in Items
        PROVE  /\ e.attach[i] \in MailIds \cup {Nobody}
               /\ e.attach[i] # Nobody => e.mail[e.attach[i]] # NoMail
    <2>1. CASE i \in Enclosed(ls)
      <3>1. PICK k \in 1..Len(ls) : i \in ls[k].items
        BY <1>1, <2>1
      <3>2. e.attach[i] = NewId(k)
        BY <2>1, <3>1, LetterItems DEF Sent
      <3>3. NewId(k) \in Ids(ls) /\ NewId(k) \in MailIds
        BY DEF Fresh
      <3>4. e.mail[NewId(k)] # NoMail
        BY <1>1, <3>3, LetterKinds
      <3>5. QED
        BY <3>2, <3>3, <3>4
    <2>2. CASE i \notin Enclosed(ls)
      <3>1. e.attach[i] = s.attach[i]
        BY <2>2 DEF Sent
      <3>2. s.attach[i] \in MailIds \cup {Nobody}
        BY DEF MailTyped
      <3>3. ASSUME s.attach[i] # Nobody PROVE e.mail[s.attach[i]] # NoMail
        <4>1. s.mail[s.attach[i]] # NoMail /\ s.attach[i] \in MailIds
          BY <3>2, <3>3 DEF MailTyped
        <4>2. s.attach[i] \notin Ids(ls)
          BY <4>1 DEF Fresh
        <4>3. QED
          BY <1>1, <4>1, <4>2
      <3>4. QED
        BY <3>1, <3>2, <3>3
    <2>3. QED
      BY <2>1, <2>2
  <1>5. e.attach \in [Items -> MailIds \cup {Nobody}]
    BY <1>4 DEF Sent
  <1>6. ASSUME NEW id \in MailIds
        PROVE  /\ e.mail[id].player => e.mail[id].from \in Players
               /\ e.mail[id].cod > 0 => e.mail[id].player
    <2>1. CASE id \in Ids(ls)
      BY <1>1, <2>1, LetterKinds
    <2>2. CASE id \notin Ids(ls)
      BY <1>1, <2>2 DEF MailTyped
    <2>3. QED
      BY <2>1, <2>2
  <1>7. QED
    BY <1>3, <1>4, <1>5, <1>6 DEF MailTyped

LEMMA SentSum ==
  ASSUME NEW s, NEW bx, NEW ls, NEW e, Sendable(ls), Fresh(s, bx, ls), Sent(s, e, ls),
         MailTyped(s)
  PROVE  MailSum(e) = MailSum(s) + Three([k \in 1..Len(ls) |-> ls[k].money], Len(ls))
  <1> DEFINE f == [id \in MailIds |-> s.mail[id].money]
             g == [id \in MailIds |-> e.mail[id].money]
             nid == [k \in 1..Len(ls) |-> NewId(k)]
             w == [k \in 1..Len(ls) |-> ls[k].money]
  <1>1. Len(ls) \in 0..3 /\ IsFiniteSet(MailIds)
    BY HoldingsConstants DEF Fresh
  <1>2. /\ \A k \in 1..Len(ls) : nid[k] \in MailIds
        /\ \A j, k \in 1..Len(ls) : nid[j] = nid[k] => j = k
    BY DEF Fresh
  <1>3. ASSUME NEW x \in MailIds PROVE f[x] \in Int /\ g[x] \in Int
    <2>1. s.mail[x] \in Mails \/ s.mail[x] = NoMail
      BY DEF MailTyped
    <2>2. e.mail[x] \in Mails \/ e.mail[x] = NoMail
      BY SentTyped DEF MailTyped
    <2>3. QED
      BY <2>1, <2>2 DEF Mails, NoMail
  <1>4. ASSUME NEW k \in 1..Len(ls)
        PROVE  f[nid[k]] = 0 /\ g[nid[k]] = ls[k].money
    <2>1. NewId(k) \in Ids(ls) /\ NewId(k) \in MailIds /\ LetterOf(ls, NewId(k)) = ls[k]
      BY DEF Fresh
    <2>2. s.mail[NewId(k)] = NoMail
      BY <2>1 DEF Fresh
    <2>3. e.mail[NewId(k)] = Row(ls[k])
      BY <2>1 DEF Sent
    <2>4. QED
      BY <2>1, <2>2, <2>3 DEF NoMail, Row
  <1>5. ASSUME NEW x \in MailIds, \A k \in 1..Len(ls) : nid[k] # x
        PROVE  g[x] = f[x]
    <2>1. x \notin Ids(ls)
      BY <1>5 DEF Fresh
    <2>2. QED
      BY <2>1 DEF Sent
  <1>6. \A k \in 1..Len(ls) : g[nid[k]] = w[k]
    BY <1>4
  <1> HIDE DEF f, g, nid
  <1>7. Filled(f, g, MailIds, Len(ls), nid, w)
    <2> HIDE DEF w
    <2>1. \A k \in 1..Len(ls) : f[nid[k]] = 0
      BY <1>4
    <2>2. \A x \in MailIds : f[x] \in Int /\ g[x] \in Int
      BY <1>3
    <2>3. \A x \in MailIds : (\A k \in 1..Len(ls) : nid[k] # x) => g[x] = f[x]
      BY <1>5
    <2>4. QED
      BY <1>1, <1>2, <1>6, <2>1, <2>2, <2>3 DEF Filled
  <1>8. Total(g, MailIds) = Total(f, MailIds) + Three(w, Len(ls))
    <2> HIDE DEF w
    <2>1. QED
      BY <1>7, LettersTotal
  <1>9. QED
    BY <1>8 DEF f, g, w, MailSum

LEMMA SentSame ==
  ASSUME NEW s, NEW bx, NEW ls, NEW e, Sendable(ls), Fresh(s, bx, ls), Sent(s, e, ls),
         MailTyped(s), NEW p \in Players
  PROVE  SameMails(s, e, p)
  <1>1. \A id \in Ids(ls) : s.mail[id].to # p
    BY HoldingsConstants DEF Fresh, NoMail
  <1>2. QED
    BY <1>1, SentAttached DEF SameMails

LEMMA SentDelivered ==
  ASSUME NEW s, NEW bx, NEW ls, NEW e, Sendable(ls), Fresh(s, bx, ls), Sent(s, e, ls),
         MailTyped(s), NEW p \in Players, NEW gn, BoxOK(s, bx[p], p, gn),
         bx[p].loaded => p \in online
  PROVE  BoxOK(e, Delivered(bx, ls)[p], p, gn)
  <1> DEFINE b == bx[p]
             c == Delivered(bx, ls)[p]
  <1>1. /\ \A id \in DOMAIN b.mails : id \in MailIds \ Ids(ls)
        /\ \A id \in MailIds \ Ids(ls) : /\ e.mail[id] = s.mail[id]
                                         /\ Attached(e, id) = Attached(s, id)
    <2>1. \A id \in DOMAIN b.mails : id \in MailIds
      BY DEF BoxOK, BoxShape
    <2>2. \A id \in DOMAIN b.mails : id \notin Ids(ls)
      BY DEF Fresh
    <2>3. QED
      BY <2>1, <2>2, SentAttached
  <1>2. \A id \in DOMAIN b.mails : /\ e.mail[id].to = p
                                   /\ b.mails[id] = Shown(e, id, b.mails[id].state)
    <2>1. \A id \in DOMAIN b.mails : /\ s.mail[id].to = p
                                     /\ b.mails[id] = Shown(s, id, b.mails[id].state)
      BY DEF BoxOK, BoxShows
    <2>2. \A id \in DOMAIN b.mails : \A st : Shown(e, id, st) = Shown(s, id, st)
      BY <1>1 DEF Shown
    <2>3. QED
      BY <1>1, <2>1, <2>2
  <1>3. CASE ~(p \in online /\ b.loaded)
    <2>1. c = b
      BY <1>3 DEF Delivered
    <2>2. ~b.loaded
      BY <1>3
    <2>3. BoxShows(e, b, p)
      BY <1>2 DEF BoxShows
    <2>4. QED
      BY <2>1, <2>2, <2>3 DEF BoxOK
  <1>4. CASE p \in online /\ b.loaded
    <2> DEFINE N == [id \in {x \in Ids(ls) : LetterOf(ls, x).to = p} |->
                        Copy(LetterOf(ls, id))]
    <2>1. c = [b EXCEPT !.mails = Override(b.mails, N)]
      BY <1>4 DEF Delivered
    <2>2. DOMAIN N = {x \in Ids(ls) : LetterOf(ls, x).to = p}
          /\ \A id \in DOMAIN N : N[id] = Copy(LetterOf(ls, id))
      OBVIOUS
    <2> HIDE DEF N
    <2>3. BoxShape(b) /\ BoxGone(b, gn) /\ BoxFull(s, b, p)
      BY <1>4 DEF BoxOK
    <2>4. /\ c = [loaded |-> b.loaded, mails |-> Override(b.mails, N),
                  missed |-> b.missed]
      <3>1. b = [loaded |-> b.loaded, mails |-> b.mails, missed |-> b.missed]
        BY <2>3 DEF BoxShape
      <3> HIDE DEF b
      <3>2. QED
        BY <2>1, <3>1
    <2> HIDE DEF b, c
    <2>5. /\ c.loaded = b.loaded /\ c.missed = b.missed
          /\ c.mails = Override(b.mails, N)
          /\ c = [loaded |-> c.loaded, mails |-> c.mails, missed |-> c.missed]
      BY <2>4
    <2>6. /\ DOMAIN c.mails = DOMAIN b.mails \cup DOMAIN N
          /\ \A id \in DOMAIN N : c.mails[id] = N[id]
          /\ \A id \in DOMAIN b.mails : id \notin DOMAIN N => c.mails[id] = b.mails[id]
          /\ c.mails = [id \in DOMAIN c.mails |-> c.mails[id]]
      BY <2>5 DEF Override
    <2>7. \A id \in DOMAIN b.mails : id \notin DOMAIN N
      BY <1>1, <2>2
    <2>8. ASSUME NEW id \in DOMAIN N
          PROVE  /\ id \in MailIds /\ e.mail[id].to = p
                 /\ c.mails[id] = Shown(e, id, "same") /\ c.mails[id].state = "same"
      <3>1. id \in Ids(ls) /\ LetterOf(ls, id).to = p
        BY <2>2
      <3>2. PICK k \in 1..Len(ls) : id = NewId(k)
        BY <3>1 DEF Fresh
      <3>3. /\ LetterOf(ls, id) = ls[k] /\ id \in MailIds
            /\ Attached(e, id) = ls[k].items
            /\ e.mail[id] = Row(ls[k])
        <4>1. /\ id \in MailIds /\ LetterOf(ls, id) = ls[k]
          BY <3>1, <3>2 DEF Fresh
        <4>2. e.mail[id] = Row(LetterOf(ls, id)) /\ Attached(e, NewId(k)) = ls[k].items
          BY <3>1, SentAttached
        <4>3. QED
          BY <3>2, <4>1, <4>2
      <3>4. c.mails[id] = Copy(ls[k])
        BY <2>2, <2>6, <3>3
      <3>5. Copy(ls[k]) = Shown(e, id, "same") /\ Copy(ls[k]).state = "same"
            /\ Row(ls[k]).to = ls[k].to
        BY <3>3 DEF Copy, Shown, Row
      <3>6. QED
        BY <3>1, <3>3, <3>4, <3>5
    <2>9. ASSUME NEW id \in DOMAIN b.mails
          PROVE  /\ id \in MailIds /\ e.mail[id].to = p
                 /\ c.mails[id] = Shown(e, id, c.mails[id].state)
                 /\ c.mails[id].state \in {"same", "deleted"}
                 /\ c.mails[id].state = "deleted" => c.mails[id].items \subseteq gn
      BY <1>1, <1>2, <2>3, <2>6, <2>7 DEF BoxShape, BoxGone, b
    <2>10. BoxShape(c) /\ BoxShows(e, c, p) /\ BoxGone(c, gn)
      <3>1. c.loaded \in BOOLEAN
        BY <2>3, <2>5 DEF BoxShape
      <3>2. BoxShape(c)
        BY <2>5, <2>6, <2>8, <2>9, <3>1 DEF BoxShape
      <3>3. BoxShows(e, c, p)
        BY <2>6, <2>8, <2>9 DEF BoxShows
      <3>4. BoxGone(c, gn)
        BY <2>6, <2>8, <2>9 DEF BoxGone
      <3>5. QED
        BY <3>2, <3>3, <3>4
    <2>11. BoxFull(e, c, p)
      <3> SUFFICES ASSUME NEW id \in MailIds, e.mail[id].to = p
                   PROVE  id \in DOMAIN c.mails \cup c.missed
        BY DEF BoxFull
      <3>1. CASE id \in Ids(ls)
        <4>1. LetterOf(ls, id).to = p
          <5>1. e.mail[id] = Row(LetterOf(ls, id))
            BY <3>1, SentAttached
          <5>2. QED
            BY <5>1 DEF Row
        <4>2. QED
          BY <2>2, <2>6, <3>1, <4>1
      <3>2. CASE id \notin Ids(ls)
        <4>1. s.mail[id].to = p
          BY <1>1, <3>2
        <4>2. QED
          BY <2>3, <2>5, <2>6, <4>1 DEF BoxFull
      <3>3. QED
        BY <3>1, <3>2
    <2>12. QED
      BY <1>4, <2>5, <2>10, <2>11 DEF BoxOK, b, c
  <1>5. QED
    BY <1>3, <1>4
-----------------------------------------------------------------------------
(* One transaction of one handler.                                          *)
LEMMA LettersStep ==
  ASSUME EconomyInv, NEW ls, NEW e, NEW gn, Sendable(ls), RoomForMails(Len(ls)),
         \A i \in Enclosed(ls) : Settled.attach[i] = Nobody,
         Sent(Settled, e, ls), gone \subseteq gn, Items \ e.kept \subseteq gn
  PROVE  /\ MailTyped(e)
         /\ MailSum(e) = MailSum(Settled)
                         + Three([k \in 1..Len(ls) |-> ls[k].money], Len(ls))
         /\ \A p \in Players : SameMails(Settled, e, p)
         /\ \A p \in Players : Delivered(box, ls)[p].loaded = box[p].loaded
         /\ BoxesOK(e, Delivered(box, ls), online, gn)
         /\ Fresh(Settled, box, ls)
  <1>1. Fresh(Settled, box, ls)
    BY LetterIds DEF Fresh
  <1>2. MailTyped(Settled)
    BY SettledSound DEF MailTyped, Sound, Proper, Database
  <1>3. BoxesOK(Settled, box, online, gone)
    BY DEF EconomyInv
  <1>4. ASSUME NEW p \in Players
        PROVE  /\ BoxOK(e, Delivered(box, ls)[p], p, gone)
               /\ Delivered(box, ls)[p].loaded = box[p].loaded
               /\ p \notin online => Delivered(box, ls)[p] = NoBox
    <2>1. BoxOK(Settled, box[p], p, gone) /\ (p \notin online => box[p] = NoBox)
      BY <1>3 DEF BoxesOK
    <2>2. box[p].loaded => p \in online
      BY <2>1 DEF NoBox
    <2>3. BoxOK(e, Delivered(box, ls)[p], p, gone)
      BY <1>1, <1>2, <2>1, <2>2, SentDelivered
    <2>4. p \notin online => Delivered(box, ls)[p] = NoBox
      BY <2>1 DEF Delivered
    <2>5. Delivered(box, ls)[p].loaded = box[p].loaded
      <3>1. box[p] = [loaded |-> box[p].loaded, mails |-> box[p].mails,
                      missed |-> box[p].missed]
        BY <2>1 DEF BoxOK, BoxShape
      <3>2. QED
        BY <3>1 DEF Delivered
    <2>6. QED
      BY <2>3, <2>4, <2>5
  <1>5. \A p \in Players : BoxOK(e, Delivered(box, ls)[p], p, gn)
    BY <1>4 DEF BoxOK, BoxGone
  <1>6. Delivered(box, ls) = [p \in Players |-> Delivered(box, ls)[p]]
    BY DEF Delivered
  <1>7. BoxesOK(e, Delivered(box, ls), online, gn)
    BY <1>4, <1>5, <1>6 DEF BoxesOK
  <1>8. MailTyped(e)
    BY <1>1, <1>2, SentTyped
  <1>9. \A p \in Players : SameMails(Settled, e, p)
    BY <1>1, <1>2, SentSame
  <1>10. MailSum(e) = MailSum(Settled)
                      + Three([k \in 1..Len(ls) |-> ls[k].money], Len(ls))
    BY <1>1, <1>2, SentSum
  <1>11. QED
    BY <1>1, <1>4, <1>7, <1>8, <1>9, <1>10

LEMMA SoundParts ==
  ASSUME NEW s, Sound(s), NEW e,
         e = [money |-> e.money, net |-> e.net, row |-> e.row, mail |-> e.mail,
              attach |-> e.attach, kept |-> e.kept, lot |-> e.lot, fees |-> e.fees],
         e.money \in [Players -> 0..Cap], e.net \in [Players -> Int],
         e.row \in [Items -> Players \cup {Nobody}], MailTyped(e),
         e.kept \in SUBSET Items, e.lot \in [Lots -> Auctioned \cup {NoLot}],
         e.fees \in Int, \A a \in Lots : e.lot[a].bidder = Nobody => e.lot[a].bid = 0,
         OnePlace(e), BagsFit(e),
         PurseSum(e) + MailSum(e) + LotSum(e) + e.fees
           = PurseSum(s) + MailSum(s) + LotSum(s) + s.fees
  PROVE  Sound(e)
  <1>1. e \in Database
    BY DEF Database, MailTyped
  <1>2. Proper(e)
    BY DEF Proper, MailTyped
  <1>3. s \in Database /\ Conserved(s)
    BY DEF Sound
  <1>4. Wealth(e) = Wealth(s)
    BY <1>1, <1>3, SumTypes
  <1>5. Conserved(e)
    BY <1>3, <1>4 DEF Conserved
  <1>6. QED
    BY <1>1, <1>2, <1>5 DEF Sound


LEMMA OneSaves ==
  ASSUME EconomyInv, NEW p \in online, NEW v \in 0..Cap, NEW e, Saves(e, p, v)
  PROVE  /\ e.money \in [Players -> 0..Cap] /\ e.net \in [Players -> Int]
         /\ e.row \in [Items -> Players \cup {Nobody}]
         /\ BagsFit(e)
         /\ PursesAgree(e, online, [money EXCEPT ![p] = v], net,
                        [items EXCEPT ![p] = Bag(e, p)])
         /\ MemoryTyped(online, [money EXCEPT ![p] = v], net,
                        [items EXCEPT ![p] = Bag(e, p)])
         /\ \A q \in Players \ online : SamePurse(Settled, e, q)
         /\ PurseSum(e) = PurseSum(Settled) + (v - money[p])
  <1> USE DEF Saves
  <1>1. /\ MemoryTyped(online, money, net, items) /\ Settled \in Database
        /\ PursesAgree(Settled, online, money, net, items) /\ BagsFit(Settled)
    BY SettledSound DEF EconomyInv, Sound
  <1>2. /\ online \subseteq Players /\ p \in Players
        /\ money \in [Players -> 0..Cap] /\ net \in [Players -> Int]
        /\ items \in [Players -> SUBSET Items]
        /\ \A q \in Players \ online : items[q] = {}
    BY <1>1 DEF MemoryTyped
  <1>3. /\ Settled.money \in [Players -> 0..Cap] /\ Settled.net \in [Players -> Int]
        /\ Settled.row \in [Items -> Players \cup {Nobody}]
    BY <1>1 DEF Database
  <1>4. e.money \in [Players -> 0..Cap] /\ e.net \in [Players -> Int]
    BY <1>2, <1>3
  <1>5. e.row \in [Items -> Players \cup {Nobody}]
    <2>1. \A i \in Items : e.row[i] \in Players \cup {Nobody}
      BY <1>2, <1>3
    <2>2. QED
      BY <2>1
  <1>6. ASSUME NEW q \in Players, q # p PROVE Bag(e, q) = Bag(Settled, q)
    <2>1. q # Nobody
      BY HoldingsConstants
    <2>2. \A i \in Items : e.row[i] = q <=> Settled.row[i] = q
      BY <1>6, <2>1
    <2>3. QED
      BY <2>2 DEF Bag
  <1>7. BagsFit(e)
    BY <1>1, <1>6 DEF BagsFit
  <1>8. PursesAgree(e, online, [money EXCEPT ![p] = v], net,
                    [items EXCEPT ![p] = Bag(e, p)])
    <2> DEFINE mo == [money EXCEPT ![p] = v]
               it == [items EXCEPT ![p] = Bag(e, p)]
    <2> SUFFICES ASSUME NEW q \in online
                 PROVE  e.money[q] - e.net[q] = mo[q] - net[q] /\ it[q] = Bag(e, q)
      BY DEF PursesAgree
    <2>1. CASE q = p
      BY <1>2, <2>1
    <2>2. CASE q # p
      <3>1. e.money[q] = Settled.money[q] /\ e.net[q] = Settled.net[q]
            /\ mo[q] = money[q] /\ it[q] = items[q] /\ q \in Players
        BY <1>2, <2>2
      <3>2. /\ Settled.money[q] - Settled.net[q] = money[q] - net[q]
            /\ items[q] = Bag(Settled, q)
        BY <1>1 DEF PursesAgree
      <3>3. QED
        BY <1>6, <2>2, <3>1, <3>2
    <2>3. QED
      BY <2>1, <2>2
  <1>9. MemoryTyped(online, [money EXCEPT ![p] = v], net,
                    [items EXCEPT ![p] = Bag(e, p)])
    <2>1. Bag(e, p) \in SUBSET Items
      BY DEF Bag
    <2>2. QED
      BY <1>2, <2>1 DEF MemoryTyped
  <1>10. \A q \in Players \ online : SamePurse(Settled, e, q)
    BY <1>6 DEF SamePurse
  <1>11. PurseSum(e) = PurseSum(Settled) + (v - money[p])
    <2> DEFINE f == [q \in Players |-> Settled.money[q] - Settled.net[q]]
               g == [q \in Players |-> e.money[q] - e.net[q]]
    <2>1. /\ \A q \in Players : f[q] \in Int /\ g[q] \in Int
          /\ \A q \in Players \ {p} : g[q] = f[q]
      BY <1>3, <1>4, HoldingsConstants
    <2>2. f[p] = money[p] - net[p] /\ g[p] = v - net[p]
      BY <1>1, <1>2 DEF PursesAgree
    <2>3. money[p] \in Int /\ net[p] \in Int /\ v \in Int
      BY <1>2, HoldingsConstants
    <2> HIDE DEF f, g
    <2>4. Total(g, Players) = (Total(f, Players) - f[p]) + g[p]
      BY <1>2, <2>1, HoldingsConstants, TotalUpdate
    <2>5. Total(f, Players) \in Int
      BY <2>1, HoldingsConstants, TotalType
    <2>6. Total(g, Players) = Total(f, Players) + (v - money[p])
      BY <2>2, <2>3, <2>4, <2>5
    <2>7. QED
      BY <2>6 DEF f, g, PurseSum
  <1>12. QED
    BY <1>4, <1>5, <1>7, <1>8, <1>9, <1>10, <1>11

LEMMA HouseSame ==
  ASSUME NEW s, NEW e, NEW au, NEW ai, NEW du, HouseOK(s, au, ai, du),
         \A a \in Lots : /\ e.lot[a] = s.lot[a]
                         /\ s.lot[a].item \in s.kept <=> s.lot[a].item \in e.kept
  PROVE  HouseOK(e, au, ai, du)
  <1>1. LoadedAuctions(e) = LoadedAuctions(s)
    BY DEF LoadedAuctions
  <1>2. QED
    BY <1>1 DEF HouseOK

LEMMA PlacedSame ==
  ASSUME NEW s, NEW e, NEW i \in Items, Placed(s, i), e.row[i] = s.row[i],
         e.attach[i] = s.attach[i], i \in e.kept <=> i \in s.kept,
         LotsOf(e, i) = LotsOf(s, i)
  PROVE  Placed(e, i)
  BY DEF Placed

(* A transaction that does all this keeps the invariant.                    *)
LEMMA PostStep ==
  ASSUME EconomyInv, NEW t, NEW e, e = Execute(Settled, t), t.login = Nobody,
         disk' = disk, queue' = Append(queue, t), RoomFor(1),
         Sound(e), online' \subseteq online,
         \A p \in Players \ online : SamePurse(Settled, e, p) /\ SameMails(Settled, e, p),
         \A p \in online' : ~box'[p].loaded =>
             ~box[p].loaded /\ SameMails(Settled, e, p),
         MemoryTyped(online', money', net', items'),
         PursesAgree(e, online', money', net', items'),
         BoxesOK(e, box', online', gone'),
         HouseOK(e, auctions', aitems', due'),
         TradesOK(trade', online')
  PROVE  EconomyInv'
  <1>1. /\ IsQueue(queue) /\ Len(queue) \in Nat /\ Settled = Final(disk, queue)
        /\ RowsSound(disk, queue) /\ LoginsWait(disk, queue, online)
        /\ Unread(disk, queue, online, box)
    BY SettledSound DEF EconomyInv
  <1>2. IsQueue(queue') /\ Len(queue') = Len(queue) + 1
    BY <1>1, QueueGrows
  <1>3. Len(queue') <= MaxPending
    BY <1>2 DEF RoomFor
  <1>4. Final(disk', queue') = e
    BY <1>1, FinalNext
  <1>5. Settled' = e
    BY <1>4 DEF Settled, Final
  <1>6. RowsSound(disk', queue')
    BY <1>1, PostKeepsRows
  <1>7. LoginsWait(disk', queue', online')
    BY <1>1, PostKeepsLogins
  <1>8. Unread(disk', queue', online', box')
    BY <1>1, PostKeepsUnread
  <1>9. QED
    BY <1>2, <1>3, <1>5, <1>6, <1>7, <1>8 DEF EconomyInv
-----------------------------------------------------------------------------
(* The first rows.                                                          *)
LEMMA FirstSound ==
  ASSUME NEW s \in Starts
  PROVE  Sound(FirstRows(s))
  <1> DEFINE d == FirstRows(s)
  <1>1. /\ s.money \in [Players -> 0..Cap] /\ s.owner \in [Items -> Players]
        /\ \A p \in Players : Cardinality({i \in Items : s.owner[i] = p}) <= Space[p]
    BY EconomyConstants
  <1>2. /\ d.money = s.money /\ d.net = [p \in Players |-> 0] /\ d.row = s.owner
        /\ d.mail = [id \in MailIds |-> NoMail] /\ d.attach = [i \in Items |-> Nobody]
        /\ d.kept = Items /\ d.lot = [a \in Lots |-> NoLot] /\ d.fees = 0
        /\ d = [money |-> d.money, net |-> d.net, row |-> d.row, mail |-> d.mail,
                attach |-> d.attach, kept |-> d.kept, lot |-> d.lot, fees |-> d.fees]
    BY DEF FirstRows
  <1> HIDE DEF d
  <1>3. d \in Database
    <2>1. d.net \in [Players -> Int] /\ d.row \in [Items -> Players \cup {Nobody}]
      BY <1>1, <1>2
    <2>2. /\ d.mail \in [MailIds -> Mails \cup {NoMail}]
          /\ d.attach \in [Items -> MailIds \cup {Nobody}]
          /\ d.lot \in [Lots -> Auctioned \cup {NoLot}]
      BY <1>2
    <2>3. QED
      BY <1>1, <1>2, <2>1, <2>2 DEF Database
  <1>4. Proper(d)
    BY <1>2 DEF Proper, NoMail, NoLot
  <1>5. OnePlace(d)
    <2> SUFFICES ASSUME NEW i \in Items PROVE Placed(d, i)
      BY DEF OnePlace
    <2>1. LotsOf(d, i) = {}
      BY <1>2, HoldingsConstants DEF LotsOf, NoLot
    <2>2. QED
      BY <1>1, <1>2, <2>1 DEF Placed
  <1>6. BagsFit(d)
    BY <1>1, <1>2 DEF BagsFit, Bag
  <1>7. Wealth(d) = Total(s.money, Players)
    <2> DEFINE f == [p \in Players |-> d.money[p] - d.net[p]]
               g == [id \in MailIds |-> d.mail[id].money]
               h == [a \in Lots |-> Worth(d.lot[a])]
    <2>1. \A p \in Players : f[p] = s.money[p]
      BY <1>1, <1>2, HoldingsConstants
    <2>2. \A id \in MailIds : g[id] = 0
      BY <1>2 DEF NoMail
    <2>3. \A a \in Lots : h[a] = 0
      BY <1>2 DEF Worth
    <2>4. PurseSum(d) = Total(f, Players) /\ MailSum(d) = Total(g, MailIds)
          /\ LotSum(d) = Total(h, Lots)
      BY DEF PurseSum, MailSum, LotSum
    <2> HIDE DEF f, g, h
    <2>51. IsFiniteSet(Players) /\ IsFiniteSet(MailIds) /\ IsFiniteSet(Lots)
      BY HoldingsConstants
    <2>52. Total(f, Players) = Total(s.money, Players)
      BY <2>1, <2>51, TotalEqual
    <2>53. Total(g, MailIds) = 0
      BY <2>2, <2>51, TotalZero
    <2>54. Total(h, Lots) = 0
      BY <2>3, <2>51, TotalZero
    <2>5. Total(f, Players) = Total(s.money, Players) /\ Total(g, MailIds) = 0
          /\ Total(h, Lots) = 0
      BY <2>52, <2>53, <2>54
    <2>6. Wealth(d) = PurseSum(d) + MailSum(d) + LotSum(d) + d.fees /\ PurseSum(d) \in Int
      BY <1>3, SumTypes
    <2>7. QED
      BY <1>2, <2>4, <2>5, <2>6
  <1>8. Conserved(d)
    BY <1>7, ScenariosShareTotal DEF Conserved
  <1>9. QED
    BY <1>3, <1>4, <1>5, <1>6, <1>8 DEF Sound, d

LEMMA InitInv == Init => EconomyInv
  <1> SUFFICES ASSUME Init PROVE EconomyInv
    OBVIOUS
  <1>1. PICK s \in Starts :
          /\ disk = FirstRows(s)
          /\ online = s.online /\ queue = << >>
          /\ money = [p \in Players |-> IF p \in online THEN s.money[p] ELSE 0]
          /\ net = [p \in Players |-> 0]
          /\ items = [p \in Players |-> {i \in Items : p \in online /\ s.owner[i] = p}]
          /\ box = [p \in Players |-> NoBox] /\ gone = {}
          /\ auctions = [a \in Lots |-> NoLot] /\ aitems = {} /\ due = {}
          /\ trade = [p \in Players |-> NoTrade]
    BY DEF Init
  <1>2. /\ s.money \in [Players -> 0..Cap] /\ s.online \subseteq Players
        /\ disk.money = s.money /\ disk.net = [p \in Players |-> 0] /\ disk.row = s.owner
        /\ disk.mail = [id \in MailIds |-> NoMail]
        /\ disk.kept = Items /\ disk.lot = [a \in Lots |-> NoLot]
    BY <1>1, EconomyConstants DEF FirstRows
  <1>3. IsQueue(queue) /\ Len(queue) = 0 /\ Len(queue) <= MaxPending
    BY <1>1, FinalEmpty, HoldingsConstants
  <1>4. Settled = disk /\ Final(disk, queue) = disk /\ RowsAfter(disk, queue)[0] = disk
    BY <1>1, <1>3, FinalEmpty, RowsFirst DEF Settled
  <1>5. RowsSound(disk, queue)
    BY <1>1, <1>3, <1>4, FirstSound DEF RowsSound
  <1>6. MemoryTyped(online, money, net, items)
    <2>1. Cap \in Nat
      BY HoldingsConstants
    <2>2. money \in [Players -> 0..Cap]
      BY <1>1, <1>2, <2>1
    <2>3. net \in [Players -> Int] /\ items \in [Players -> SUBSET Items]
      BY <1>1
    <2>4. QED
      BY <1>1, <1>2, <2>2, <2>3 DEF MemoryTyped
  <1>7. PursesAgree(Settled, online, money, net, items)
    <2> SUFFICES ASSUME NEW p \in online
                 PROVE  /\ disk.money[p] - disk.net[p] = money[p] - net[p]
                        /\ items[p] = Bag(disk, p)
      BY <1>4 DEF PursesAgree
    <2>1. p \in Players
      BY <1>1, <1>2
    <2>2. QED
      BY <1>1, <1>2, <2>1 DEF Bag
  <1>8. BoxesOK(Settled, box, online, gone)
    <2>1. \A p \in Players : BoxOK(disk, NoBox, p, gone)
      BY DEF BoxOK, BoxShape, BoxShows, BoxGone, NoBox, None
    <2>2. QED
      BY <1>1, <1>2, <1>4, <2>1 DEF BoxesOK
  <1>9. LoginsWait(disk, queue, online)
    BY <1>3 DEF LoginsWait
  <1>10. Unread(disk, queue, online, box)
    <2> SUFFICES ASSUME NEW p \in online PROVE MailStill(disk, queue, p, 0)
      BY DEF Unread
    <2>1. \A n \in 0..0 : n = 0
      OBVIOUS
    <2>2. QED
      BY <1>3, <1>4, <2>1, SameSteps DEF MailStill
  <1>11. HouseOK(Settled, auctions, aitems, due)
    BY <1>1, <1>2, <1>4 DEF HouseOK, LoadedAuctions
  <1>12. TradesOK(trade, online)
    <2>1. NoOffer \in Offers
      BY DEF NoOffer, Offers, Slots, Distinct
    <2>2. NoTrade \in Trades
      BY <2>1 DEF NoTrade, Trades
    <2>3. QED
      BY <1>1, <2>2 DEF TradesOK
  <1>13. QED
    BY <1>3, <1>5, <1>6, <1>7, <1>8, <1>9, <1>10, <1>11, <1>12 DEF EconomyInv
-----------------------------------------------------------------------------

LEMMA TradePair ==
  ASSUME NEW tr, NEW on, TradesOK(tr, on), on \subseteq Players, NEW p \in Players,
         tr[p] # NoTrade
  PROVE  /\ p \in on /\ tr[p].with \in on \ {p} /\ tr[p].with \in Players
         /\ tr[tr[p].with].with = p /\ tr[tr[p].with] # NoTrade
         /\ StandsBy(tr, p) /\ StandsBy(tr, tr[p].with)
         /\ tr[p] \in Trades /\ tr[tr[p].with] \in Trades
  <1>1. p \in on /\ tr[p].with \in on \ {p} /\ tr[tr[p].with].with = p /\ StandsBy(tr, p)
    BY DEF TradesOK, StandsBy
  <1>2. tr[p].with \in Players
    BY <1>1
  <1>3. tr[tr[p].with] # NoTrade
    BY <1>1, HoldingsConstants DEF NoTrade
  <1>4. StandsBy(tr, tr[p].with)
    BY <1>2, <1>3 DEF TradesOK, StandsBy
  <1>5. QED
    BY <1>1, <1>2, <1>3, <1>4 DEF TradesOK

LEMMA TradeUpdate ==
  ASSUME NEW tr, NEW on, TradesOK(tr, on), on \subseteq Players, NEW p \in Players,
         tr[p] # NoTrade, NEW q, q = tr[p].with, NEW tr2, tr2 \in [Players -> Trades],
         \A x \in Players \ {p, q} : tr2[x] = tr[x],
         tr2[p].with = q, tr2[q].with = p, StandsBy(tr2, p), StandsBy(tr2, q)
  PROVE  TradesOK(tr2, on)
  <1>1. /\ p \in on /\ q \in on \ {p} /\ q \in Players /\ tr[q].with = p
    BY TradePair
  <1> SUFFICES ASSUME NEW x \in Players, tr2[x] # NoTrade
               PROVE  /\ x \in on /\ tr2[x].with \in on \ {x}
                      /\ tr2[tr2[x].with].with = x
                      /\ StandsBy(tr2, x)
    BY DEF TradesOK, StandsBy
  <1>2. CASE x \in {p, q}
    BY <1>1, <1>2
  <1>3. CASE x \notin {p, q}
    <2>1. tr2[x] = tr[x] /\ tr[x] # NoTrade
      BY <1>3
    <2>2. /\ x \in on /\ tr[x].with \in on \ {x} /\ tr[x].with \in Players
          /\ tr[tr[x].with].with = x /\ StandsBy(tr, x)
      BY <2>1, TradePair
    <2>3. tr[x].with \notin {p, q}
      BY <1>1, <1>3, <2>2
    <2>4. tr2[tr[x].with] = tr[tr[x].with]
      BY <2>2, <2>3
    <2>5. QED
      BY <2>1, <2>2, <2>4 DEF StandsBy
  <1>4. QED
    BY <1>2, <1>3

LEMMA TradesEnd ==
  ASSUME NEW tr, NEW on, TradesOK(tr, on), on \subseteq Players, NEW p \in Players,
         tr[p] # NoTrade
  PROVE  /\ TradesOK(Ended(tr, {p, tr[p].with}), on)
         /\ TradesOK(Ended(tr, {p, tr[p].with}), on \ {p})
  <1> DEFINE q == tr[p].with
             tr2 == Ended(tr, {p, q})
  <1>1. /\ p \in on /\ q \in on \ {p} /\ q \in Players /\ tr[q].with = p
    BY TradePair
  <1>2. /\ tr2 = [x \in Players |-> tr2[x]] /\ tr2[p] = NoTrade /\ tr2[q] = NoTrade
        /\ \A x \in Players \ {p, q} : tr2[x] = tr[x]
    BY <1>1 DEF Ended
  <1>3. NoTrade \in Trades
    BY DEF NoTrade, Trades, NoOffer, Offers, Slots, Distinct
  <1> HIDE DEF tr2
  <1>31. tr \in [Players -> Trades]
    BY DEF TradesOK
  <1>32. \A x \in Players : tr2[x] \in Trades
    BY <1>1, <1>2, <1>3, <1>31
  <1>4. tr2 \in [Players -> Trades]
    BY <1>2, <1>32
  <1>5. ASSUME NEW x \in Players, tr2[x] # NoTrade
        PROVE  /\ x \in on \ {p} /\ tr2[x].with \in on \ {p, x}
               /\ tr2[tr2[x].with].with = x
               /\ StandsBy(tr2, x)
    <2>1. x \notin {p, q} /\ tr2[x] = tr[x] /\ tr[x] # NoTrade
      BY <1>2, <1>5
    <2>2. /\ x \in on /\ tr[x].with \in on \ {x} /\ tr[x].with \in Players
          /\ tr[tr[x].with].with = x /\ StandsBy(tr, x)
      BY <2>1, TradePair
    <2>3. tr[x].with \notin {p, q}
      BY <1>1, <2>1, <2>2
    <2>4. tr2[tr[x].with] = tr[tr[x].with]
      BY <1>2, <2>2, <2>3
    <2>5. QED
      BY <2>1, <2>2, <2>3, <2>4 DEF StandsBy
  <1>6. QED
    BY <1>4, <1>5 DEF TradesOK, StandsBy, tr2

LEMMA TradesLeft ==
  ASSUME NEW tr, NEW on, TradesOK(tr, on), on \subseteq Players, NEW p \in Players,
         tr[p] = NoTrade
  PROVE  TradesOK(tr, on \ {p})
  <1> SUFFICES ASSUME NEW x \in Players, tr[x] # NoTrade
               PROVE  x \in on \ {p} /\ tr[x].with \in on \ {p, x}
    BY DEF TradesOK
  <1>1. x \in on /\ tr[x].with \in on \ {x} /\ tr[tr[x].with].with = x
    BY TradePair
  <1>2. tr[x].with # p
    BY <1>1, HoldingsConstants DEF NoTrade
  <1>3. QED
    BY <1>1, <1>2

(* Steps of which only trades know.                                         *)
LEMMA OnlyTrades ==
  ASSUME EconomyInv, UNCHANGED <<holdings, mailbox, house>>, TradesOK(trade', online)
  PROVE  EconomyInv'
  <1>1. /\ online' = online /\ money' = money /\ net' = net /\ items' = items
        /\ disk' = disk /\ queue' = queue /\ box' = box /\ gone' = gone
        /\ auctions' = auctions /\ aitems' = aitems /\ due' = due
    BY DEF holdings, mailbox, house
  <1>2. Settled' = Settled
    BY <1>1 DEF Settled
  <1>3. QED
    BY <1>1, <1>2 DEF EconomyInv

LEMMA InitiateStep ==
  ASSUME EconomyInv, NEW p \in online, NEW q \in Players, InitiateTrade(p, q)
  PROVE  TradesOK(trade', online)
  <1>1. /\ online \subseteq Players /\ TradesOK(trade, online) /\ p \in Players
        /\ p # q /\ q \in online /\ trade[p] = NoTrade /\ trade[q] = NoTrade
        /\ trade' = [trade EXCEPT ![p] = NewTrade(q), ![q] = NewTrade(p)]
        /\ trade \in [Players -> Trades]
    BY DEF EconomyInv, MemoryTyped, InitiateTrade, Trading, TradesOK
  <1>2. NoOffer \in Offers
    BY DEF NoOffer, Offers, Slots, Distinct
  <1>3. \A x \in Players : NewTrade(x) \in Trades /\ NewTrade(x).with = x
                           /\ ~NewTrade(x).accepted
    BY <1>2 DEF NewTrade, NoTrade, Trades
  <1>4. /\ trade' \in [Players -> Trades] /\ trade'[p] = NewTrade(q)
        /\ trade'[q] = NewTrade(p) /\ \A x \in Players \ {p, q} : trade'[x] = trade[x]
    <2>1. NewTrade(p) \in Trades /\ NewTrade(q) \in Trades
      BY <1>1, <1>3
    <2> HIDE DEF NewTrade, Trades
    <2>2. QED
      BY <1>1, <2>1
  <1>5. ASSUME NEW x \in Players, trade'[x] # NoTrade
        PROVE  /\ x \in online /\ trade'[x].with \in online \ {x}
               /\ trade'[trade'[x].with].with = x
               /\ StandsBy(trade', x)
    <2>1. CASE x \in {p, q}
      BY <1>1, <1>3, <1>4, <2>1 DEF StandsBy
    <2>2. CASE x \notin {p, q}
      <3>1. trade'[x] = trade[x] /\ trade[x] # NoTrade
        BY <1>4, <1>5, <2>2
      <3>2. /\ x \in online /\ trade[x].with \in online \ {x} /\ trade[x].with \in Players
            /\ trade[trade[x].with].with = x /\ trade[trade[x].with] # NoTrade
            /\ StandsBy(trade, x)
        BY <1>1, <3>1, TradePair
      <3>3. trade'[trade[x].with] = trade[trade[x].with]
        BY <1>1, <1>4, <3>2
      <3>4. QED
        BY <3>1, <3>2, <3>3 DEF StandsBy
    <2>3. QED
      BY <2>1, <2>2
  <1>6. QED
    BY <1>4, <1>5 DEF TradesOK, StandsBy


LEMMA TradeRecord ==
  ASSUME NEW r \in Trades
  PROVE  r = [with |-> r.with, offer |-> r.offer, accepted |-> r.accepted,
              agreed |-> r.agreed, refused |-> r.refused]
  BY DEF Trades

LEMMA StoppedEnd ==
  ASSUME NEW r \in Trades
  PROVE  /\ Stopped(r) \in Trades /\ Stopped(r).with = r.with
         /\ Stopped(r).offer = r.offer /\ ~Stopped(r).accepted
         /\ r = NoTrade => Stopped(r) = NoTrade
  <1>1. Stopped(r) \in Trades
    BY DEF Trades, Stopped
  <1>2. /\ Stopped(r).with = r.with /\ Stopped(r).offer = r.offer
        /\ Stopped(r).accepted = FALSE /\ Stopped(r).refused = FALSE
        /\ Stopped(r).agreed = r.agreed
    BY DEF Trades, Stopped
  <1>3. Stopped(r) = [with |-> r.with, offer |-> r.offer, accepted |-> FALSE,
                      agreed |-> r.agreed, refused |-> FALSE]
    BY <1>1, <1>2, TradeRecord
  <1>4. r = NoTrade => Stopped(r) = NoTrade
    BY <1>3 DEF NoTrade
  <1>5. QED
    BY <1>1, <1>2, <1>4

LEMMA OfferingEnd ==
  ASSUME NEW r \in Trades, NEW o \in Offers
  PROVE  Offering(r, o) \in Trades /\ Offering(r, o).with = r.with
  BY DEF Trades, Offering


LEMMA UnacceptedParts ==
  ASSUME NEW t, NEW S
  PROVE  /\ IsMap(Unaccepted(t, S))
         /\ \A x \in Players : x \in S => Unaccepted(t, S)[x] = Stopped(t[x])
         /\ \A x \in Players : x \notin S => Unaccepted(t, S)[x] = t[x]
  BY DEF Unaccepted, Stopped, IsMap

(* An offer may change when both accepts are taken back.                    *)
LEMMA OfferStep ==
  ASSUME NEW tr, NEW on, TradesOK(tr, on), on \subseteq Players, NEW p \in Players,
         tr[p] # NoTrade, NEW o \in Offers, NEW t, t = [tr EXCEPT ![p] = Offering(tr[p], o)]
  PROVE  TradesOK(Unaccepted(t, {p, tr[p].with}), on)
  <1> DEFINE q == tr[p].with
             tr2 == Unaccepted(t, {p, q})
  <1>1. /\ p \in on /\ q \in on \ {p} /\ q \in Players /\ tr[q].with = p
        /\ tr[p] \in Trades /\ tr[q] \in Trades
    BY TradePair
  <1>2. tr \in [Players -> Trades]
    BY DEF TradesOK
  <1>3. t[p] = Offering(tr[p], o) /\ \A x \in Players \ {p} : t[x] = tr[x]
    BY <1>2
  <1>4. /\ tr2 = [x \in Players |-> tr2[x]]
        /\ tr2[p] = Stopped(t[p]) /\ tr2[q] = Stopped(t[q])
        /\ \A x \in Players \ {p, q} : tr2[x] = t[x]
    <2>1. p \in Players /\ q \in Players /\ p \in {p, q} /\ q \in {p, q}
      BY <1>1
    <2> DEFINE S == {p, q}
    <2>2. tr2 = Unaccepted(t, S)
      OBVIOUS
    <2>3. IsMap(tr2)
      BY UnacceptedParts
    <2> HIDE DEF tr2, q, S
    <2>4. /\ \A x \in Players : x \in S => Unaccepted(t, S)[x] = Stopped(t[x])
          /\ \A x \in Players : x \notin S => Unaccepted(t, S)[x] = t[x]
      <3>1. \A x \in Players : x \in S => Unaccepted(t, S)[x] = Stopped(t[x])
        BY UnacceptedParts
      <3>2. \A x \in Players : x \notin S => Unaccepted(t, S)[x] = t[x]
        BY UnacceptedParts
      <3> QED
        BY <3>1, <3>2
    <2>5. /\ tr2[p] = Stopped(t[p]) /\ tr2[q] = Stopped(t[q])
          /\ \A x \in Players \ {p, q} : tr2[x] = t[x]
      BY <2>1, <2>2, <2>4 DEF S
    <2>6. QED
      BY <2>3, <2>5 DEF IsMap
  <1> HIDE DEF tr2
  <1>5. t[p] \in Trades /\ t[p].with = q /\ t[q] \in Trades /\ t[q].with = p
    BY <1>1, <1>3, OfferingEnd
  <1>6. tr2[p] \in Trades /\ tr2[p].with = q /\ ~tr2[p].accepted
    BY <1>4, <1>5, StoppedEnd
  <1>7. tr2[q] \in Trades /\ tr2[q].with = p /\ ~tr2[q].accepted
    BY <1>4, <1>5, StoppedEnd
  <1>8. \A x \in Players \ {p, q} : tr2[x] = tr[x]
    BY <1>3, <1>4
  <1>9. tr2 \in [Players -> Trades]
    <2>1. \A x \in Players : tr2[x] \in Trades
      BY <1>2, <1>6, <1>7, <1>8
    <2>2. QED
      BY <1>4, <2>1
  <1>10. StandsBy(tr2, p) /\ StandsBy(tr2, q)
    BY <1>6, <1>7 DEF StandsBy
  <1>11. TradesOK(tr2, on)
    BY <1>1, <1>6, <1>7, <1>8, <1>9, <1>10, TradeUpdate
  <1>12. QED
    BY <1>11 DEF tr2

(* An accept may be taken back at any time.                                 *)
LEMMA UnacceptStep ==
  ASSUME NEW tr, NEW on, TradesOK(tr, on), on \subseteq Players, NEW S
  PROVE  TradesOK(Unaccepted(tr, S), on)
  <1> DEFINE tr2 == Unaccepted(tr, S)
  <1>1. /\ tr2 = [x \in Players |-> tr2[x]]
        /\ \A x \in Players : tr2[x] = tr[x] \/ tr2[x] = Stopped(tr[x])
    BY DEF Unaccepted, Stopped
  <1> HIDE DEF tr2
  <1>2. \A x \in Players : tr[x] \in Trades
    BY DEF TradesOK
  <1>3. ASSUME NEW x \in Players
        PROVE  /\ tr2[x] \in Trades /\ tr2[x].with = tr[x].with
               /\ tr2[x].offer = tr[x].offer
               /\ tr2[x].accepted => tr2[x] = tr[x]
               /\ tr[x] = NoTrade => tr2[x] = NoTrade
    <2>1. CASE tr2[x] = tr[x]
      BY <1>2, <2>1
    <2>2. CASE tr2[x] = Stopped(tr[x])
      BY <1>2, <2>2, StoppedEnd
    <2>3. QED
      BY <1>1, <2>1, <2>2
  <1>4. tr2 \in [Players -> Trades]
    BY <1>1, <1>3
  <1>5. ASSUME NEW x \in Players, tr2[x] # NoTrade
        PROVE  /\ x \in on /\ tr2[x].with \in on \ {x}
               /\ tr2[tr2[x].with].with = x
               /\ StandsBy(tr2, x)
    <2>1. /\ x \in on /\ tr[x].with \in on \ {x} /\ tr[x].with \in Players
          /\ tr[tr[x].with].with = x /\ StandsBy(tr, x)
      BY <1>3, <1>5, TradePair
    <2>2. /\ tr2[x].with = tr[x].with
          /\ tr2[tr[x].with].with = tr[tr[x].with].with
          /\ tr2[tr[x].with].offer = tr[tr[x].with].offer
          /\ tr2[x].accepted => tr2[x] = tr[x]
      BY <1>3, <2>1
    <2>3. QED
      BY <2>1, <2>2 DEF StandsBy
  <1>6. QED
    BY <1>4, <1>5 DEF TradesOK, StandsBy, tr2

LEMMA TradingOnes ==
  ASSUME EconomyInv, NEW p \in online, Trading(p)
  PROVE  /\ TradesOK(trade, online) /\ online \subseteq Players /\ p \in Players
         /\ trade \in [Players -> Trades] /\ trade[p] # NoTrade /\ trade[p] \in Trades
         /\ Partner(p) = trade[p].with /\ Partner(p) \in Players /\ Partner(p) # p
         /\ trade[Partner(p)].with = p /\ trade[Partner(p)] \in Trades
         /\ Partner(p) \in online
         /\ StandsBy(trade, p) /\ StandsBy(trade, Partner(p))
  <1>1. TradesOK(trade, online) /\ online \subseteq Players /\ p \in Players
    BY DEF EconomyInv, MemoryTyped
  <1>2. trade[p] # NoTrade /\ Partner(p) = trade[p].with /\ trade \in [Players -> Trades]
    BY <1>1 DEF Trading, Partner, TradesOK
  <1>3. QED
    BY <1>1, <1>2, TradePair


LEMMA AcceptingEnd ==
  ASSUME NEW r \in Trades, NEW o \in Offers
  PROVE  /\ Accepting(r, o) \in Trades /\ Accepting(r, o).with = r.with
         /\ Accepting(r, o).offer = r.offer /\ Accepting(r, o).agreed = o
  BY DEF Trades, Accepting

LEMMA AcceptStep ==
  ASSUME EconomyInv, NEW p \in online, Trading(p)
  PROVE  TradesOK(Accepted(p), online)
  <1> DEFINE q == Partner(p)
             tr2 == Accepted(p)
  <1>1. /\ TradesOK(trade, online) /\ online \subseteq Players /\ p \in Players
        /\ trade \in [Players -> Trades] /\ trade[p] # NoTrade /\ trade[p] \in Trades
        /\ q = trade[p].with /\ q \in Players /\ q # p /\ trade[q].with = p
        /\ trade[q] \in Trades /\ StandsBy(trade, q)
    BY TradingOnes
  <1>2. tr2 = [trade EXCEPT ![p] = Accepting(trade[p], trade[q].offer)]
    BY DEF Accepted, Accepting
  <1> HIDE DEF tr2, q
  <1>3. trade[q].offer \in Offers
    BY <1>1 DEF Trades
  <1>4. /\ tr2 = [x \in Players |-> tr2[x]]
        /\ tr2[p] = Accepting(trade[p], trade[q].offer)
        /\ \A x \in Players \ {p} : tr2[x] = trade[x]
    BY <1>1, <1>2
  <1>5. /\ tr2[p] \in Trades /\ tr2[p].with = q /\ tr2[p].offer = trade[p].offer
        /\ tr2[p].agreed = trade[q].offer
    BY <1>1, <1>3, <1>4, AcceptingEnd
  <1>6. tr2 \in [Players -> Trades]
    <2>1. \A x \in Players : tr2[x] \in Trades
      BY <1>1, <1>4, <1>5
    <2>2. QED
      BY <1>4, <2>1
  <1>7. tr2[q] = trade[q]
    BY <1>1, <1>4
  <1>8. StandsBy(tr2, p)
    BY <1>5, <1>7 DEF StandsBy
  <1>9. StandsBy(tr2, q)
    BY <1>1, <1>5, <1>7 DEF StandsBy
  <1>10. TradesOK(tr2, online)
    <2>1. \A x \in Players \ {p, q} : tr2[x] = trade[x]
      BY <1>4
    <2>2. QED
      BY <1>1, <1>5, <1>6, <1>7, <1>8, <1>9, <2>1, TradeUpdate
  <1>11. QED
    BY <1>10 DEF tr2

LEMMA GoldStep ==
  ASSUME EconomyInv, NEW p \in online, NEW m \in Gold, SetTradeGold(p, m)
  PROVE  TradesOK(trade', online)
  <1> DEFINE q == Partner(p)
             o == [trade[p].offer EXCEPT !.gold = m]
             t == [trade EXCEPT ![p] = Offering(trade[p], o)]
             r == [trade[q] EXCEPT !.refused = TRUE]
  <1>0. Trading(p)
    BY DEF SetTradeGold
  <1>1. /\ TradesOK(trade, online) /\ online \subseteq Players /\ p \in Players
        /\ trade \in [Players -> Trades] /\ trade[p] # NoTrade /\ trade[p] \in Trades
        /\ q = trade[p].with /\ q \in Players /\ q # p /\ trade[q].with = p
        /\ trade[q] \in Trades /\ StandsBy(trade, q) /\ StandsBy(trade, p)
    BY <1>0, TradingOnes
  <1>2. trade' = IF money[p] >= m THEN Unaccepted(t, {p, q})
                 ELSE [t EXCEPT ![q] = [t[q] EXCEPT !.refused = TRUE]]
    BY DEF SetTradeGold, Offering
  <1>3. o \in Offers /\ o.slots = trade[p].offer.slots
    <2>1. m \in Nat /\ trade[p].offer \in Offers
      BY <1>1, EconomyConstants DEF Trades
    <2>2. QED
      BY <2>1 DEF Offers
  <1>4. r \in Trades /\ r.with = p /\ r.offer = trade[q].offer /\ r.agreed = trade[q].agreed
        /\ r.refused = TRUE /\ r.accepted = trade[q].accepted
    BY <1>1 DEF Trades
  <1> HIDE DEF q, o, r
  <1>5. Offering(trade[p], o) \in Trades /\ Offering(trade[p], o).with = q
    BY <1>1, <1>3, OfferingEnd
  <1>51. /\ Offering(trade[p], o).offer = o
         /\ Offering(trade[p], o).accepted = trade[p].accepted
         /\ Offering(trade[p], o).refused = trade[p].refused
         /\ Offering(trade[p], o).agreed = trade[p].agreed
    BY <1>1 DEF Offering, Trades
  <1>6. CASE money[p] >= m
    <2>1. TradesOK(Unaccepted(t, {p, q}), online)
      BY <1>1, <1>3, OfferStep
    <2>2. QED
      BY <1>2, <1>6, <2>1
  <1>7. CASE ~(money[p] >= m)
    <2>1. t[q] = trade[q]
      BY <1>1
    <2>2. trade' = [t EXCEPT ![q] = r]
      BY <1>2, <1>7, <2>1 DEF r
    <2>3. trade' = [x \in Players |-> IF x = q THEN r
                                     ELSE IF x = p THEN Offering(trade[p], o) ELSE trade[x]]
      BY <1>1, <2>2
    <2> HIDE DEF t
    <2>4. /\ trade'[p] = Offering(trade[p], o) /\ trade'[q] = r
          /\ \A x \in Players \ {p, q} : trade'[x] = trade[x]
      BY <1>1, <2>3
    <2>5. trade' \in [Players -> Trades]
      BY <1>1, <1>4, <1>5, <2>3
    <2>6. StandsBy(trade', p)
      BY <1>1, <1>4, <1>5, <1>51, <2>4 DEF StandsBy
    <2>7. StandsBy(trade', q)
      BY <1>1, <1>3, <1>4, <1>51, <2>4 DEF StandsBy
    <2>8. QED
      BY <1>1, <1>4, <1>5, <2>4, <2>5, <2>6, <2>7, TradeUpdate
  <1>8. QED
    BY <1>6, <1>7

LEMMA ItemStep ==
  ASSUME EconomyInv, NEW p \in online, NEW s \in TradeSlots, NEW i \in items[p] \cup {Nobody},
         SetTradeItem(p, s, i) \/ (i = Nobody /\ ClearTradeItem(p, s))
  PROVE  TradesOK(trade', online)
  <1> DEFINE q == Partner(p)
             o == [trade[p].offer EXCEPT !.slots[s] = i]
             t == [trade EXCEPT ![p] = Offering(trade[p], o)]
  <1>0. Trading(p)
    BY DEF SetTradeItem, ClearTradeItem
  <1>1. /\ TradesOK(trade, online) /\ online \subseteq Players /\ p \in Players
        /\ trade \in [Players -> Trades] /\ trade[p] # NoTrade /\ trade[p] \in Trades
        /\ q = trade[p].with
    BY <1>0, TradingOnes
  <1>2. trade' = Unaccepted(t, {p, q})
    BY DEF SetTradeItem, ClearTradeItem, Offering
  <1>3. o \in Offers
    <2>1. i \in Items \cup {Nobody} /\ trade[p].offer \in Offers
      <3>1. items \in [Players -> SUBSET Items]
        BY DEF EconomyInv, MemoryTyped
      <3>2. QED
        BY <1>1, <3>1 DEF Trades
    <2>2. [trade[p].offer.slots EXCEPT ![s] = i] \in Slots
      <3> DEFINE old == trade[p].offer.slots
                 new == [old EXCEPT ![s] = i]
      <3>1. old \in [TradeSlots -> Items \cup {Nobody}] /\ Distinct(old)
        BY <2>1 DEF Offers, Slots
      <3>2. i # Nobody => \A k \in TradeSlots : old[k] # i
        BY DEF SetTradeItem
      <3> HIDE DEF old
      <3>3. new \in [TradeSlots -> Items \cup {Nobody}]
        BY <2>1, <3>1
      <3>4. new[s] = i /\ \A k \in TradeSlots \ {s} : new[k] = old[k]
        BY <3>1
      <3> HIDE DEF new
      <3>5. Distinct(new)
        BY <3>1, <3>2, <3>4 DEF Distinct
      <3> QED
        BY <3>3, <3>5 DEF Slots, new, old
    <2> DEFINE sl == [trade[p].offer.slots EXCEPT ![s] = i]
    <2>3. o = [trade[p].offer EXCEPT !.slots = sl]
      OBVIOUS
    <2> HIDE DEF sl, o
    <2>4. QED
      BY <2>1, <2>2, <2>3 DEF Offers, sl
  <1> HIDE DEF o, q
  <1>4. TradesOK(Unaccepted(t, {p, q}), online)
    BY <1>1, <1>3, OfferStep
  <1>5. QED
    BY <1>2, <1>4

LEMMA TradeInv ==
  ASSUME EconomyInv, NEW p \in online, TradeStep(p, Gold), ~ExecuteTrade(p),
         UNCHANGED <<mailbox, house>>
  PROVE  EconomyInv'
  <1>0. TradesOK(trade, online) /\ online \subseteq Players
    BY DEF EconomyInv, MemoryTyped
  <1>1. CASE \E q \in Players : InitiateTrade(p, q)
    <2>1. UNCHANGED holdings
      BY <1>1 DEF InitiateTrade
    <2>2. QED
      BY <1>1, <2>1, InitiateStep, OnlyTrades
  <1>2. CASE \E m \in Gold : SetTradeGold(p, m)
    <2>1. UNCHANGED holdings
      BY <1>2 DEF SetTradeGold
    <2>2. QED
      BY <1>2, <2>1, GoldStep, OnlyTrades
  <1>3. CASE \E s \in TradeSlots, i \in items[p] : SetTradeItem(p, s, i)
    <2>1. UNCHANGED holdings
      BY <1>3 DEF SetTradeItem
    <2>2. TradesOK(trade', online)
      BY <1>3, ItemStep
    <2>3. QED
      BY <2>1, <2>2, OnlyTrades
  <1>4. CASE \E s \in TradeSlots : ClearTradeItem(p, s)
    <2>1. UNCHANGED holdings
      BY <1>4 DEF ClearTradeItem
    <2>2. TradesOK(trade', online)
      BY <1>4, ItemStep
    <2>3. QED
      BY <2>1, <2>2, OnlyTrades
  <1>5. CASE UnacceptTrade(p)
    <2>1. UNCHANGED holdings /\ trade' = Unaccepted(trade, {p})
      BY <1>5 DEF UnacceptTrade
    <2>2. QED
      BY <1>0, <2>1, UnacceptStep, OnlyTrades
  <1>6. CASE CancelTrade(p)
    <2>1. UNCHANGED holdings /\ trade' = Ended(trade, {p, trade[p].with})
          /\ trade[p] # NoTrade /\ p \in Players
      BY <1>0, <1>6 DEF CancelTrade, Partner, Trading
    <2>2. QED
      BY <1>0, <2>1, TradesEnd, OnlyTrades
  <1>7. CASE \E near \in BOOLEAN : AcceptRefused(p, near)
    <2>1. PICK near \in BOOLEAN : AcceptRefused(p, near)
      BY <1>7
    <2>2. /\ UNCHANGED holdings /\ Trading(p)
          /\ trade' = Unaccepted(Accepted(p), Refused(p, near))
      BY <2>1 DEF AcceptRefused
    <2>3. TradesOK(Accepted(p), online)
      BY <2>2, AcceptStep
    <2>4. TradesOK(trade', online)
      BY <1>0, <2>2, <2>3, UnacceptStep
    <2>5. QED
      BY <2>2, <2>4, OnlyTrades
  <1>8. CASE \E tradable \in BOOLEAN : AcceptStands(p, tradable)
    <2>1. UNCHANGED holdings /\ Trading(p) /\ trade' = Accepted(p)
      BY <1>8 DEF AcceptStands
    <2>2. QED
      BY <2>1, AcceptStep, OnlyTrades
  <1>9. CASE AcceptNoRoom(p)
    <2>1. UNCHANGED holdings /\ Trading(p)
          /\ trade' = Unaccepted(Accepted(p), {p, Partner(p)})
      BY <1>9 DEF AcceptNoRoom
    <2>2. TradesOK(Accepted(p), online)
      BY <2>1, AcceptStep
    <2>3. TradesOK(trade', online)
      BY <1>0, <2>1, <2>2, UnacceptStep
    <2>4. QED
      BY <2>1, <2>3, OnlyTrades
  <1>10. QED
    BY <1>1, <1>2, <1>3, <1>4, <1>5, <1>6, <1>7, <1>8, <1>9 DEF TradeStep

-----------------------------------------------------------------------------
(* Steps that post nothing.                                                 *)
LEMMA FromWorldInv ==
  ASSUME EconomyInv, NEW p \in online, NEW c \in Int, money[p] + c \in 0..Cap,
         money' = [money EXCEPT ![p] = money[p] + c],
         net' = [net EXCEPT ![p] = net[p] + c],
         UNCHANGED <<online, items, disk, queue, mailbox, house, trade>>
  PROVE  EconomyInv'
  <1>1. /\ online' = online /\ items' = items /\ disk' = disk /\ queue' = queue
        /\ box' = box /\ gone' = gone /\ trade' = trade
        /\ auctions' = auctions /\ aitems' = aitems /\ due' = due
    BY DEF mailbox, house
  <1>2. Settled' = Settled
    BY <1>1 DEF Settled
  <1>3. /\ online \subseteq Players /\ money \in [Players -> 0..Cap]
        /\ net \in [Players -> Int] /\ p \in Players /\ Cap \in Nat
        /\ money[p] \in 0..Cap /\ net[p] \in Int
    BY HoldingsConstants DEF EconomyInv, MemoryTyped
  <1>5. /\ money[p] + c \in 0..Cap
        /\ money' = [money EXCEPT ![p] = money[p] + c]
        /\ net' = [net EXCEPT ![p] = net[p] + c]
    OBVIOUS
  <1>6. MemoryTyped(online', money', net', items')
    <2>1. money' \in [Players -> 0..Cap] /\ net' \in [Players -> Int]
      BY <1>3, <1>5
    <2>2. QED
      BY <1>1, <2>1 DEF EconomyInv, MemoryTyped
  <1>7. PursesAgree(Settled, online, money', net', items)
    <2> SUFFICES ASSUME NEW q \in online
                 PROVE  /\ Settled.money[q] - Settled.net[q] = money'[q] - net'[q]
                        /\ items[q] = Bag(Settled, q)
      BY DEF PursesAgree
    <2>1. /\ Settled.money[q] - Settled.net[q] = money[q] - net[q]
          /\ items[q] = Bag(Settled, q)
      BY DEF EconomyInv, PursesAgree
    <2>2. money'[q] - net'[q] = money[q] - net[q]
      <3>1. q \in Players /\ money[q] \in Int /\ net[q] \in Int
        BY <1>3
      <3>2. CASE q = p
        BY <1>3, <1>5, <3>1, <3>2
      <3>3. CASE q # p
        BY <1>3, <1>5, <3>1, <3>3
      <3>4. QED
        BY <3>2, <3>3
    <2>3. QED
      BY <2>1, <2>2
  <1>8. QED
    BY <1>1, <1>2, <1>6, <1>7 DEF EconomyInv

LEMMA WorldInv ==
  ASSUME EconomyInv, NEW p \in online, Earn(p) \/ Spend(p),
         UNCHANGED <<mailbox, house, trade>>
  PROVE  EconomyInv'
  <1>1. /\ online \subseteq Players /\ money \in [Players -> 0..Cap]
        /\ net \in [Players -> Int] /\ p \in Players /\ Cap \in Nat
        /\ money[p] \in 0..Cap /\ net[p] \in Int
    BY HoldingsConstants DEF EconomyInv, MemoryTyped
  <1>2. UNCHANGED <<online, items, disk, queue, mailbox, house, trade>>
    BY DEF Earn, Spend
  <1>3. CASE Earn(p)
    <2>1. money[p] + 1 \in 0..Cap /\ 1 \in Int
      BY <1>1, <1>3 DEF Earn
    <2>2. money' = [money EXCEPT ![p] = money[p] + 1] /\ net' = [net EXCEPT ![p] = net[p] + 1]
      BY <1>3 DEF Earn
    <2> QED
      BY <1>2, <2>1, <2>2, FromWorldInv
  <1>4. CASE Spend(p)
    <2> DEFINE c == -1
    <2>1. money[p] + c \in 0..Cap /\ c \in Int
      BY <1>1, <1>4 DEF Spend
    <2>2. money[p] - 1 = money[p] + c /\ net[p] - 1 = net[p] + c
      BY <1>1
    <2>3. money' = [money EXCEPT ![p] = money[p] - 1] /\ net' = [net EXCEPT ![p] = net[p] - 1]
      BY <1>4 DEF Spend
    <2> HIDE DEF c
    <2>4. money' = [money EXCEPT ![p] = money[p] + c] /\ net' = [net EXCEPT ![p] = net[p] + c]
      BY <2>2, <2>3
    <2> QED
      BY <1>2, <2>1, <2>4, FromWorldInv
  <1> QED
    BY <1>3, <1>4

LEMMA SweepInv ==
  ASSUME EconomyInv, UNCHANGED <<trade>>,
         \/ \E S \in SUBSET Lots : SweepBegin(S)
         \/ \E a \in Lots : SweepSkip(a)
  PROVE  EconomyInv'
  <1>1. UNCHANGED <<holdings, mailbox, auctions, aitems>> /\ due' \subseteq Lots
    BY DEF SweepBegin, SweepSkip, EconomyInv, HouseOK
  <1>2. /\ online' = online /\ money' = money /\ net' = net /\ items' = items
        /\ disk' = disk /\ queue' = queue /\ box' = box /\ gone' = gone
        /\ auctions' = auctions /\ aitems' = aitems
    BY <1>1 DEF holdings, mailbox
  <1>3. Settled' = Settled
    BY <1>2 DEF Settled
  <1>4. HouseOK(Settled', auctions', aitems', due')
    BY <1>1, <1>2, <1>3 DEF EconomyInv, HouseOK
  <1>5. QED
    BY <1>2, <1>3, <1>4 DEF EconomyInv

LEMMA ShownParts ==
  ASSUME NEW s, NEW id, NEW st, NEW u
  PROVE  /\ Shown(s, id, st).state = st /\ Shown(s, id, st).items = Attached(s, id)
         /\ Shown(s, id, st).removed = {} /\ Shown(s, id, st).from = s.mail[id].from
         /\ Shown(s, id, st).player = s.mail[id].player
         /\ Shown(s, id, st).money = s.mail[id].money
         /\ Shown(s, id, st).cod = s.mail[id].cod
         /\ [Shown(s, id, st) EXCEPT !.state = u] = Shown(s, id, u)
  BY DEF Shown

LEMMA AttachedKept ==
  ASSUME NEW d, Sound(d), NEW id \in MailIds
  PROVE  Attached(d, id) = {i \in d.kept : d.attach[i] = id} /\ Attached(d, id) \subseteq d.kept
  <1>1. d.kept \subseteq Items
    BY DEF Sound, Database
  <1>2. ASSUME NEW i \in Items, d.attach[i] = id PROVE i \in d.kept
    BY <1>2, HoldingsConstants DEF Sound, OnePlace, Placed
  <1>3. QED
    BY <1>1, <1>2 DEF Attached

LEMMA OnlyBoxes ==
  ASSUME EconomyInv, UNCHANGED <<holdings, house, trade>>,
         BoxesOK(Settled, box', online, gone'),
         \A p \in online : ~box'[p].loaded => ~box[p].loaded
  PROVE  EconomyInv'
  <1>1. /\ online' = online /\ money' = money /\ net' = net /\ items' = items
        /\ disk' = disk /\ queue' = queue /\ trade' = trade
        /\ auctions' = auctions /\ aitems' = aitems /\ due' = due
    BY DEF holdings, house
  <1>2. Settled' = Settled
    BY <1>1 DEF Settled
  <1>3. Unread(disk, queue, online, box')
    BY DEF EconomyInv, Unread
  <1>4. QED
    BY <1>1, <1>2, <1>3 DEF EconomyInv

LEMMA ListInv ==
  ASSUME EconomyInv, NEW p \in online, ListMails(p), UNCHANGED <<house, trade>>
  PROVE  EconomyInv'
  <1> DEFINE mails == [id \in {x \in MailIds : disk.mail[x].to = p} |-> ReadMail(p, id)]
             missed == {x \in MailIds : Settled.mail[x].to = p /\ disk.mail[x].to # p}
             b == [loaded |-> TRUE, mails |-> mails, missed |-> missed]
  <1>1. /\ ~box[p].loaded /\ box' = [box EXCEPT ![p] = b]
        /\ UNCHANGED <<holdings, gone>>
    BY DEF ListMails
  <1>2. p \in Players /\ BoxesOK(Settled, box, online, gone)
    BY DEF EconomyInv, MemoryTyped
  <1>3. ASSUME NEW id \in MailIds, disk.mail[id].to = p
        PROVE  /\ Settled.mail[id] = disk.mail[id] /\ Attached(Settled, id) = Attached(disk, id)
    <2>1. MailStill(disk, queue, p, 0)
      BY <1>1 DEF EconomyInv, Unread
    <2>2. Len(queue) \in Nat /\ Settled = Final(disk, queue)
      BY SettledSound
    <2>3. SameMails(RowsAfter(disk, queue)[0], Settled, p)
      BY <2>1, <2>2 DEF MailStill
    <2>4. SameMails(disk, Settled, p)
      BY <2>2, <2>3, RowsFirst
    <2>5. QED
      BY <1>3, <2>4 DEF SameMails
  <1>4. /\ DOMAIN mails = {x \in MailIds : disk.mail[x].to = p}
        /\ \A id \in DOMAIN mails : mails[id] = Shown(Settled, id, "same")
    <2>1. DOMAIN mails = {x \in MailIds : disk.mail[x].to = p}
      OBVIOUS
    <2>2. ASSUME NEW id \in DOMAIN mails PROVE mails[id] = Shown(Settled, id, "same")
      <3>1. id \in MailIds /\ disk.mail[id].to = p
        OBVIOUS
      <3>2. mails[id] = ReadMail(p, id)
        OBVIOUS
      <3> HIDE DEF mails
      <3>3. {i \in disk.kept : disk.attach[i] = id} = Attached(Settled, id)
        BY <1>3, <3>1, AttachedKept, SettledSound
      <3>4. Settled.mail[id] = disk.mail[id]
        BY <1>3, <3>1
      <3>5. QED
        BY <3>2, <3>3, <3>4 DEF ReadMail, Shown
    <2>3. QED
      BY <2>1, <2>2
  <1>5. mails = [id \in DOMAIN mails |-> mails[id]]
    OBVIOUS
  <1>6. b.loaded = TRUE /\ b.mails = mails /\ b.missed = missed
        /\ b = [loaded |-> b.loaded, mails |-> b.mails, missed |-> b.missed]
    OBVIOUS
  <1> HIDE DEF mails, b
  <1>61. \A id \in DOMAIN mails : mails[id].state = "same"
    BY <1>4, ShownParts
  <1>7. BoxShape(b)
    BY <1>4, <1>5, <1>6, <1>61 DEF BoxShape
  <1>8. BoxShows(Settled, b, p)
    BY <1>3, <1>4, <1>6, <1>61 DEF BoxShows
  <1>9. BoxFull(Settled, b, p)
    BY <1>4, <1>6 DEF BoxFull
  <1>10. BoxGone(b, gone)
    BY <1>6, <1>61 DEF BoxGone
  <1>11. BoxOK(Settled, b, p, gone)
    BY <1>6, <1>7, <1>8, <1>9, <1>10 DEF BoxOK
  <1>12. box'[p] = b /\ \A q \in Players \ {p} : box'[q] = box[q]
    BY <1>1, <1>2 DEF BoxesOK
  <1>13. BoxesOK(Settled, box', online, gone')
    <2>1. box' = [q \in Players |-> box'[q]]
      BY <1>1, <1>2 DEF BoxesOK
    <2>2. \A q \in Players : BoxOK(Settled, box'[q], q, gone)
      BY <1>2, <1>11, <1>12 DEF BoxesOK
    <2>3. \A q \in Players \ online : box'[q] = NoBox
      BY <1>2, <1>12 DEF BoxesOK
    <2>4. QED
      BY <1>1, <1>2, <2>1, <2>2, <2>3 DEF BoxesOK
  <1>14. \A q \in online : ~box'[q].loaded => ~box[q].loaded
    <2>1. \A q \in online : q \in Players
      BY DEF EconomyInv, MemoryTyped
    <2>2. QED
      BY <1>6, <1>12, <2>1
  <1>15. QED
    BY <1>1, <1>13, <1>14, OnlyBoxes

LEMMA DeleteInv ==
  ASSUME EconomyInv, NEW p \in online, NEW id \in DOMAIN box[p].mails, DeleteMail(p, id),
         UNCHANGED <<house, trade>>
  PROVE  EconomyInv'
  <1> DEFINE m == [box[p].mails[id] EXCEPT !.state = "deleted"]
             ms == [box[p].mails EXCEPT ![id] = m]
             b == [box[p] EXCEPT !.mails = ms]
  <1>1. /\ box' = [box EXCEPT ![p] = b] /\ gone' = gone \cup box[p].mails[id].items
        /\ UNCHANGED holdings
    BY DEF DeleteMail
  <1>2. /\ p \in Players /\ BoxesOK(Settled, box, online, gone)
        /\ BoxOK(Settled, box[p], p, gone)
    BY DEF EconomyInv, MemoryTyped, BoxesOK
  <1>3. box[p].mails[id] = Shown(Settled, id, box[p].mails[id].state)
    BY <1>2 DEF BoxOK, BoxShows
  <1>4. m = Shown(Settled, id, "deleted") /\ m.items = box[p].mails[id].items
        /\ m.state = "deleted"
    <2> DEFINE st == box[p].mails[id].state
    <2>1. box[p].mails[id] = Shown(Settled, id, st)
      BY <1>3
    <2>2. m = [Shown(Settled, id, st) EXCEPT !.state = "deleted"]
      BY <2>1
    <2> HIDE DEF m, st
    <2>3. m = Shown(Settled, id, "deleted")
      BY <2>2, ShownParts
    <2>4. QED
      BY <2>1, <2>3, ShownParts
  <1> HIDE DEF m
  <1>5. /\ DOMAIN ms = DOMAIN box[p].mails /\ ms[id] = m
        /\ \A x \in DOMAIN ms \ {id} : ms[x] = box[p].mails[x]
        /\ ms = [x \in DOMAIN ms |-> ms[x]]
    OBVIOUS
  <1>51. /\ box[p] = [loaded |-> box[p].loaded, mails |-> box[p].mails, missed |-> box[p].missed]
    BY <1>2 DEF BoxOK, BoxShape
  <1>6. /\ b.loaded = box[p].loaded /\ b.mails = ms /\ b.missed = box[p].missed
        /\ b = [loaded |-> b.loaded, mails |-> b.mails, missed |-> b.missed]
    BY <1>51
  <1> HIDE DEF ms, b
  <1>7. BoxShape(b)
    BY <1>2, <1>4, <1>5, <1>6 DEF BoxOK, BoxShape
  <1>8. BoxShows(Settled, b, p)
    <2> SUFFICES ASSUME NEW x \in DOMAIN ms
                 PROVE  /\ Settled.mail[x].to = p /\ ms[x] = Shown(Settled, x, ms[x].state)
      BY <1>6 DEF BoxShows
    <2>1. /\ Settled.mail[x].to = p
          /\ box[p].mails[x] = Shown(Settled, x, box[p].mails[x].state)
      BY <1>2, <1>5 DEF BoxOK, BoxShows
    <2>2. QED
      BY <1>4, <1>5, <2>1
  <1>9. box[p].loaded
    BY <1>2 DEF BoxOK, NoBox, None
  <1>10. BoxFull(Settled, b, p)
    BY <1>2, <1>5, <1>6, <1>9 DEF BoxOK, BoxFull
  <1>11. BoxGone(b, gone')
    <2> SUFFICES ASSUME NEW x \in DOMAIN ms, ms[x].state = "deleted"
                 PROVE  ms[x].items \subseteq gone'
      BY <1>6 DEF BoxGone
    <2>1. CASE x = id
      BY <1>1, <1>4, <1>5, <2>1
    <2>2. CASE x # id
      BY <1>1, <1>2, <1>5, <2>2 DEF BoxOK, BoxGone
    <2>3. QED
      BY <2>1, <2>2
  <1>12. BoxOK(Settled, b, p, gone')
    BY <1>6, <1>7, <1>8, <1>9, <1>10, <1>11 DEF BoxOK
  <1>13. box'[p] = b /\ \A q \in Players \ {p} : box'[q] = box[q]
    BY <1>1, <1>2 DEF BoxesOK
  <1>14. BoxesOK(Settled, box', online, gone')
    <2>1. box' = [q \in Players |-> box'[q]]
      BY <1>1, <1>2 DEF BoxesOK
    <2>2. \A q \in Players : BoxOK(Settled, box'[q], q, gone')
      <3> SUFFICES ASSUME NEW q \in Players PROVE BoxOK(Settled, box'[q], q, gone')
        OBVIOUS
      <3>1. CASE q = p
        BY <1>12, <1>13, <3>1
      <3>2. CASE q # p
        <4>1. box'[q] = box[q] /\ BoxOK(Settled, box[q], q, gone) /\ gone \subseteq gone'
          BY <1>1, <1>2, <1>13, <3>2 DEF BoxesOK
        <4>2. BoxGone(box[q], gone')
          BY <4>1 DEF BoxOK, BoxGone
        <4>3. QED
          BY <4>1, <4>2 DEF BoxOK
      <3>3. QED
        BY <3>1, <3>2
    <2>3. \A q \in Players \ online : box'[q] = NoBox
      BY <1>2, <1>13 DEF BoxesOK
    <2>4. Items \ Settled.kept \subseteq gone'
      BY <1>1, <1>2 DEF BoxesOK
    <2>5. QED
      BY <2>1, <2>2, <2>3, <2>4 DEF BoxesOK
  <1>15. \A q \in online : ~box'[q].loaded => ~box[q].loaded
    <2>1. \A q \in online : q \in Players
      BY DEF EconomyInv, MemoryTyped
    <2>2. QED
      BY <1>6, <1>9, <1>13, <2>1
  <1>16. QED
    BY <1>1, <1>14, <1>15, OnlyBoxes

(* Logins, the worker and the crash.                                        *)
LEMMA LoginInv ==
  ASSUME EconomyInv, NEW p \in Players, RequestLogin(p),
         UNCHANGED <<mailbox, house, trade>>
  PROVE  EconomyInv'
  <1> DEFINE t == [Blank EXCEPT !.login = p]
             q == queue'
  <1>1. /\ p \notin online /\ \A k \in DOMAIN queue : queue[k].login # p
        /\ q = Append(queue, t) /\ RoomFor(1)
        /\ online' = online /\ money' = money /\ net' = net /\ items' = items
        /\ disk' = disk /\ box' = box /\ gone' = gone /\ trade' = trade
        /\ auctions' = auctions /\ aitems' = aitems /\ due' = due
    BY DEF RequestLogin, Post, mailbox, house
  <1>2. /\ Settled = Final(disk, queue) /\ Settled \in Database /\ Sound(Settled)
        /\ Len(queue) \in Nat /\ IsQueue(queue) /\ DOMAIN queue = 1..Len(queue)
    BY SettledSound, QueueLength
  <1>3. Execute(Settled, t) = Settled
    BY <1>2, LoginWritesNothing
  <1>4. IsLogin(t) /\ t.login = p
    BY HoldingsConstants DEF IsLogin, Blank
  <1> HIDE DEF t, q
  <1>5. /\ IsQueue(q) /\ Len(q) = Len(queue) + 1 /\ q[Len(queue) + 1] = t
        /\ \A n \in 1..Len(queue) : q[n] = queue[n]
    BY <1>1, <1>2, QueueGrows
  <1>6. Len(q) <= MaxPending
    BY <1>1, <1>5 DEF RoomFor
  <1>7. Final(disk, q) = Settled /\ RowsAfter(disk, q)[Len(queue) + 1] = Settled
    BY <1>1, <1>2, <1>3, FinalNext
  <1>8. Settled' = Settled
    BY <1>1, <1>7 DEF Settled, Final, q
  <1>9. RowsSound(disk, q)
    BY <1>1, <1>2, <1>3, PostKeepsRows DEF EconomyInv
  <1>10. ASSUME NEW r \in Players, NEW k \in Nat, k <= Len(queue)
         PROVE  /\ PurseStill(disk, queue, r, k) => PurseStill(disk, q, r, k)
                /\ MailStill(disk, queue, r, k) => MailStill(disk, q, r, k)
    <2>1. SamePurse(Settled, Settled, r) /\ SameMails(Settled, Settled, r)
      BY SameSteps
    <2>2. QED
      BY <1>1, <1>2, <1>3, <1>10, <2>1, PostKeepsStill
  <1>11. LoginsWait(disk, q, online)
    <2> SUFFICES ASSUME NEW k \in 1..Len(q), IsLogin(q[k])
                 PROVE  /\ q[k].login \in Players \ online
                        /\ q[k] = [Blank EXCEPT !.login = q[k].login]
                        /\ PurseStill(disk, q, q[k].login, k)
                        /\ MailStill(disk, q, q[k].login, k)
                        /\ \A n \in 1..Len(q) : q[n].login = q[k].login => n = k
      BY DEF LoginsWait
    <2>1. CASE k \in 1..Len(queue)
      <3>1. q[k] = queue[k] /\ k \in Nat /\ k <= Len(queue)
        BY <1>2, <1>5, <2>1
      <3>2. /\ q[k].login \in Players \ online
            /\ q[k] = [Blank EXCEPT !.login = q[k].login]
            /\ PurseStill(disk, queue, q[k].login, k)
            /\ MailStill(disk, queue, q[k].login, k)
            /\ \A n \in 1..Len(queue) : queue[n].login = q[k].login => n = k
        BY <2>1, <3>1 DEF EconomyInv, LoginsWait
      <3>3. PurseStill(disk, q, q[k].login, k) /\ MailStill(disk, q, q[k].login, k)
        BY <1>10, <3>1, <3>2
      <3>4. q[k].login # p
        BY <1>1, <1>2, <2>1, <3>1
      <3>5. ASSUME NEW n \in 1..Len(q), q[n].login = q[k].login PROVE n = k
        <4>1. n # Len(queue) + 1
          BY <1>4, <1>5, <3>4, <3>5
        <4>2. n \in 1..Len(queue)
          BY <1>2, <1>5, <4>1
        <4>3. QED
          BY <1>5, <3>2, <3>5, <4>2
      <3>6. QED
        BY <3>2, <3>3, <3>5
    <2>2. CASE k = Len(queue) + 1
      <3>1. q[k] = t /\ q[k].login = p
        BY <1>4, <1>5, <2>2
      <3>2. \A n \in k..Len(q) : n = Len(queue) + 1
        BY <1>2, <1>5, <2>2
      <3>3. PurseStill(disk, q, p, k) /\ MailStill(disk, q, p, k)
        BY <1>7, <3>2, SameSteps DEF PurseStill, MailStill
      <3>4. ASSUME NEW n \in 1..Len(q), q[n].login = p PROVE n = k
        <4>1. n \notin 1..Len(queue)
          BY <1>1, <1>2, <1>5, <3>4
        <4>2. QED
          BY <1>2, <1>5, <2>2, <4>1
      <3>5. q[k] = [Blank EXCEPT !.login = q[k].login]
        BY <3>1 DEF t
      <3>6. QED
        BY <1>1, <3>1, <3>3, <3>4, <3>5
    <2>3. QED
      BY <1>2, <1>5, <2>1, <2>2
  <1>12. Unread(disk, q, online, box)
    <2> SUFFICES ASSUME NEW r \in online, ~box[r].loaded PROVE MailStill(disk, q, r, 0)
      BY DEF Unread
    <2>1. MailStill(disk, queue, r, 0) /\ r \in Players
      BY DEF EconomyInv, Unread, MemoryTyped
    <2>2. 0 \in Nat /\ 0 <= Len(queue)
      BY <1>2
    <2>3. QED
      BY <1>10, <2>1, <2>2
  <1>13. QED
    BY <1>1, <1>5, <1>6, <1>8, <1>9, <1>11, <1>12 DEF EconomyInv, q

LEMMA WorkTransactionInv ==
  ASSUME EconomyInv, WorkTransaction, UNCHANGED <<mailbox, house, trade>>
  PROVE  EconomyInv'
  <1>1. /\ queue # << >> /\ ~IsLogin(Head(queue))
        /\ disk' = Execute(disk, Head(queue)) /\ queue' = Tail(queue)
        /\ online' = online /\ money' = money /\ net' = net /\ items' = items
        /\ box' = box /\ gone' = gone /\ trade' = trade
        /\ auctions' = auctions /\ aitems' = aitems /\ due' = due
    BY DEF WorkTransaction, mailbox, house
  <1>2. /\ IsQueue(queue) /\ Len(queue) \in Nat
        /\ RowsSound(disk, queue) /\ LoginsWait(disk, queue, online)
        /\ Unread(disk, queue, online, box)
    BY SettledSound DEF EconomyInv
  <1>3. /\ IsQueue(queue') /\ Len(queue') = Len(queue) - 1
    BY <1>1, <1>2, QueueShrinks
  <1>4. Len(queue') <= MaxPending
    BY <1>2, <1>3, HoldingsConstants DEF EconomyInv
  <1>5. Final(disk', queue') = Final(disk, queue)
    BY <1>1, <1>2, FinalShift
  <1>6. Settled' = Settled
    BY <1>5 DEF Settled, Final
  <1>7. RowsSound(disk', queue')
    BY <1>1, <1>2, WorkKeepsRows
  <1>8. LoginsWait(disk', queue', online)
    <2>1. online \subseteq online \cup (IF IsLogin(Head(queue)) THEN {Head(queue).login} ELSE {})
      OBVIOUS
    <2>2. QED
      BY <1>1, <1>2, <2>1, WorkKeepsLogins
  <1>9. Unread(disk', queue', online, box)
    <2> SUFFICES ASSUME NEW p \in online, ~box[p].loaded
                 PROVE  MailStill(disk', queue', p, 0)
      BY DEF Unread
    <2>1. MailStill(disk, queue, p, 0) /\ 0 \in Nat /\ 0 <= 0 + 1
      BY <1>2 DEF Unread
    <2>2. QED
      BY <1>1, <1>2, <2>1, WorkKeepsStill
  <1>10. QED
    BY <1>1, <1>3, <1>4, <1>6, <1>7, <1>8, <1>9 DEF EconomyInv

LEMMA BagKept ==
  ASSUME NEW d, Sound(d), NEW p \in Players
  PROVE  Bag(d, p) = {i \in d.kept : d.row[i] = p} /\ Bag(d, p) \subseteq d.kept
  <1>1. d.kept \subseteq Items
    BY DEF Sound, Database
  <1>2. ASSUME NEW i \in Items, d.row[i] = p PROVE i \in d.kept
    BY <1>2, HoldingsConstants DEF Sound, OnePlace, Placed
  <1>3. QED
    BY <1>1, <1>2 DEF Bag

LEMMA WorkLoginInv ==
  ASSUME EconomyInv, WorkLogin, UNCHANGED <<mailbox, house, trade>>
  PROVE  EconomyInv'
  <1> DEFINE p == Head(queue).login
  <1>1. /\ queue # << >> /\ IsLogin(Head(queue))
        /\ online' = online \cup {p}
        /\ money' = [money EXCEPT ![p] = disk.money[p]]
        /\ net' = [net EXCEPT ![p] = disk.net[p]]
        /\ items' = [items EXCEPT ![p] = {i \in disk.kept : disk.row[i] = p}]
        /\ queue' = Tail(queue) /\ disk' = disk
        /\ box' = box /\ gone' = gone /\ trade' = trade
        /\ auctions' = auctions /\ aitems' = aitems /\ due' = due
    <2>1. /\ queue # << >> /\ IsLogin(Head(queue)) /\ queue' = Tail(queue) /\ disk' = disk
          /\ box' = box /\ gone' = gone /\ trade' = trade
          /\ auctions' = auctions /\ aitems' = aitems /\ due' = due
      BY DEF WorkLogin, mailbox, house
    <2>2. PICK r \in {Head(queue).login} :
            /\ online' = online \cup {r}
            /\ money' = [money EXCEPT ![r] = disk.money[r]]
            /\ net' = [net EXCEPT ![r] = disk.net[r]]
            /\ items' = [items EXCEPT ![r] = {i \in disk.kept : disk.row[i] = r}]
      BY DEF WorkLogin
    <2>3. r = p
      OBVIOUS
    <2>4. QED
      BY <2>1, <2>2, <2>3
  <1>2. /\ IsQueue(queue) /\ Len(queue) \in Nat /\ Settled = Final(disk, queue)
        /\ disk \in Database /\ Sound(disk)
        /\ RowsSound(disk, queue) /\ LoginsWait(disk, queue, online)
        /\ Unread(disk, queue, online, box)
    BY SettledSound DEF EconomyInv
  <1>3. /\ IsQueue(queue') /\ Len(queue') = Len(queue) - 1 /\ Len(queue) > 0
        /\ Head(queue) = queue[1]
    BY <1>1, <1>2, QueueShrinks
  <1>4. Len(queue') <= MaxPending
    BY <1>2, <1>3, HoldingsConstants DEF EconomyInv
  <1>5. /\ p \in Players \ online
        /\ Head(queue) = [Blank EXCEPT !.login = p]
        /\ PurseStill(disk, queue, p, 1)
        /\ MailStill(disk, queue, p, 1)
    <2>1. 1 \in 1..Len(queue) /\ IsLogin(queue[1])
      BY <1>1, <1>2, <1>3
    <2>2. QED
      BY <1>2, <1>3, <2>1 DEF LoginsWait
  <1>6. Execute(disk, Head(queue)) = disk
    BY <1>2, <1>5, LoginWritesNothing
  <1>7. Final(disk', queue') = Final(disk, queue)
    BY <1>1, <1>2, <1>6, FinalShift
  <1>8. Settled' = Settled
    BY <1>7 DEF Settled, Final
  <1>9. RowsSound(disk', queue')
    BY <1>1, <1>2, <1>6, WorkKeepsRows
  <1>10. LoginsWait(disk', queue', online')
    <2>1. online' \subseteq online \cup (IF IsLogin(Head(queue)) THEN {Head(queue).login} ELSE {})
      BY <1>1
    <2>2. LoginsWait(Execute(disk, Head(queue)), Tail(queue), online')
      BY <1>1, <1>2, <2>1, WorkKeepsLogins
    <2>3. QED
      BY <1>1, <1>6, <2>2
  <1> HIDE DEF p
  <1>11. Unread(disk', queue', online', box)
    <2> SUFFICES ASSUME NEW r \in online', ~box[r].loaded
                 PROVE  MailStill(disk', queue', r, 0)
      BY DEF Unread
    <2>1. PICK j \in {0, 1} : MailStill(disk, queue, r, j)
      <3>1. CASE r = p
        BY <1>5, <3>1
      <3>2. CASE r # p
        <4>1. r \in online
          BY <1>1, <3>2
        <4>2. QED
          BY <1>2, <4>1 DEF Unread
      <3>3. QED
        BY <3>1, <3>2
    <2>2. j \in Nat /\ j <= 0 + 1 /\ 0 \in Nat
      OBVIOUS
    <2>3. MailStill(Execute(disk, Head(queue)), Tail(queue), r, 0)
      BY <1>1, <1>2, <2>1, <2>2, WorkKeepsStill
    <2>4. QED
      BY <1>1, <1>6, <2>3
  <1>12. SamePurse(disk, Settled, p)
    <2>1. 1 \in 1..Len(queue)
      BY <1>2, <1>3
    <2>2. RowsAfter(disk, queue)[1] = Execute(RowsAfter(disk, queue)[1 - 1], queue[1])
      BY <1>2, <2>1, RowsNext
    <2>3. RowsAfter(disk, queue)[1 - 1] = disk
      BY <1>2, RowsFirst
    <2>4. RowsAfter(disk, queue)[1] = disk
      BY <1>3, <1>6, <2>2, <2>3
    <2>5. QED
      BY <1>2, <1>5, <2>1, <2>4 DEF PurseStill
  <1>13. {i \in disk.kept : disk.row[i] = p} = Bag(disk, p)
    BY <1>2, <1>5, BagKept
  <1>14. /\ money' \in [Players -> 0..Cap] /\ net' \in [Players -> Int]
         /\ items' \in [Players -> SUBSET Items] /\ online' \subseteq Players
         /\ \A q \in Players \ online' : items'[q] = {}
    <2>1. /\ money \in [Players -> 0..Cap] /\ net \in [Players -> Int]
          /\ items \in [Players -> SUBSET Items] /\ online \subseteq Players
          /\ \A q \in Players \ online : items[q] = {}
      BY DEF EconomyInv, MemoryTyped
    <2>2. disk.money[p] \in 0..Cap /\ disk.net[p] \in Int
      BY <1>2, <1>5, RowTypes
    <2>3. Bag(disk, p) \in SUBSET Items
      BY DEF Bag
    <2>4. QED
      BY <1>1, <1>5, <1>13, <2>1, <2>2, <2>3
  <1>15. PursesAgree(Settled, online', money', net', items')
    <2> SUFFICES ASSUME NEW r \in online'
                 PROVE  /\ Settled.money[r] - Settled.net[r] = money'[r] - net'[r]
                        /\ items'[r] = Bag(Settled, r)
      BY DEF PursesAgree
    <2>0. /\ money \in [Players -> 0..Cap] /\ net \in [Players -> Int]
          /\ items \in [Players -> SUBSET Items] /\ online \subseteq Players
      BY DEF EconomyInv, MemoryTyped
    <2>1. CASE r = p
      <3>1. money'[p] = disk.money[p] /\ net'[p] = disk.net[p] /\ items'[p] = Bag(disk, p)
        BY <1>1, <1>5, <1>13, <2>0
      <3>2. QED
        BY <1>12, <2>1, <3>1 DEF SamePurse
    <2>2. CASE r # p
      <3>1. r \in online /\ r \in Players
        BY <1>1, <2>0, <2>2
      <3>2. money'[r] = money[r] /\ net'[r] = net[r] /\ items'[r] = items[r]
        BY <1>1, <2>0, <2>2, <3>1
      <3>3. QED
        BY <3>1, <3>2 DEF EconomyInv, PursesAgree
    <2>3. QED
      BY <2>1, <2>2
  <1>16. BoxesOK(Settled, box, online', gone)
    BY <1>1 DEF EconomyInv, BoxesOK
  <1>17. TradesOK(trade, online')
    BY <1>1 DEF EconomyInv, TradesOK
  <1>18. QED
    BY <1>1, <1>3, <1>4, <1>8, <1>9, <1>10, <1>11, <1>14, <1>15, <1>16, <1>17
       DEF EconomyInv, MemoryTyped

(* No transaction brings an item back.                                      *)
LEMMA KeptShrinks ==
  ASSUME NEW d, NEW q, IsQueue(q)
  PROVE  Final(d, q).kept \subseteq d.kept
  <1> DEFINE G == {n \in Nat : n <= Len(q) => RowsAfter(d, q)[n].kept \subseteq d.kept}
  <1>0. Len(q) \in Nat
    BY QueueLength
  <1>1. 0 \in G
    BY <1>0, RowsFirst
  <1>2. ASSUME NEW n \in Nat, n \in G PROVE n + 1 \in G
    <2> SUFFICES ASSUME n + 1 <= Len(q)
                 PROVE  RowsAfter(d, q)[n + 1].kept \subseteq d.kept
      OBVIOUS
    <2>1. n + 1 \in 1..Len(q) /\ (n + 1) - 1 = n /\ n <= Len(q)
      BY <1>0
    <2>2. RowsAfter(d, q)[n + 1] = Execute(RowsAfter(d, q)[n], q[n + 1])
      BY <1>0, <2>1, RowsNext
    <2>3. RowsAfter(d, q)[n].kept \subseteq d.kept
      BY <1>2, <2>1
    <2>4. QED
      BY <2>2, <2>3 DEF Execute
  <1> HIDE DEF G
  <1>3. Nat \subseteq G
    BY <1>1, <1>2, NumberInduction
  <1>4. QED
    BY <1>0, <1>3 DEF G, Final

LEMMA CrashInv ==
  ASSUME EconomyInv, Crash
  PROVE  EconomyInv'
  <1>1. /\ Leave(Players) /\ queue' = << >> /\ disk' = disk /\ gone' = gone
        /\ box' = [p \in Players |-> NoBox] /\ trade' = [p \in Players |-> NoTrade]
        /\ auctions' = LoadedAuctions(disk) /\ aitems' = LoadedItems(disk) /\ due' = {}
    BY DEF Crash
  <1>2. /\ online \subseteq Players /\ Cap \in Nat /\ MaxPending \in Nat
    BY HoldingsConstants DEF EconomyInv, MemoryTyped
  <1>3. /\ online' = {}
        /\ money' = [p \in Players |-> 0] /\ net' = [p \in Players |-> 0]
        /\ items' = [p \in Players |-> {}]
    BY <1>1, <1>2 DEF Leave
  <1>4. /\ IsQueue(queue') /\ Len(queue') = 0 /\ Final(disk', queue') = disk
    BY <1>1, FinalEmpty
  <1>5. Settled' = disk
    BY <1>4 DEF Settled, Final
  <1>6. /\ Sound(disk) /\ Settled = Final(disk, queue) /\ IsQueue(queue)
    BY SettledSound
  <1>7. RowsSound(disk', queue')
    BY <1>1, <1>4, <1>6, RowsFirst DEF RowsSound
  <1>8. MemoryTyped(online', money', net', items')
    BY <1>2, <1>3 DEF MemoryTyped
  <1>9. PursesAgree(disk, online', money', net', items')
    BY <1>3 DEF PursesAgree
  <1>10. BoxesOK(disk, box', online', gone')
    <2>1. \A p \in Players : BoxOK(disk, NoBox, p, gone)
      BY DEF BoxOK, BoxShape, BoxShows, BoxGone, NoBox, None
    <2>2. Items \ disk.kept \subseteq gone
      BY <1>6, KeptShrinks DEF EconomyInv, BoxesOK
    <2>3. QED
      BY <1>1, <2>1, <2>2 DEF BoxesOK
  <1>11. LoginsWait(disk', queue', online')
    BY <1>4 DEF LoginsWait
  <1>12. Unread(disk', queue', online', box')
    BY <1>3 DEF Unread
  <1>13. HouseOK(disk, auctions', aitems', due')
    <2>1. disk.kept \subseteq Items
      BY <1>6 DEF Sound, Database
    <2>2. ASSUME NEW a \in Lots, auctions'[a] # NoLot PROVE auctions'[a].item \in aitems'
      BY <1>1, <2>2 DEF LoadedAuctions, LoadedItems
    <2>3. QED
      BY <1>1, <2>1, <2>2 DEF HouseOK, LoadedItems
  <1>14. TradesOK(trade', online')
    <2>1. NoTrade \in Trades
      BY DEF NoTrade, Trades, NoOffer, Offers, Slots, Distinct
    <2>2. QED
      BY <1>1, <2>1 DEF TradesOK
  <1>15. QED
    BY <1>2, <1>4, <1>5, <1>7, <1>8, <1>9, <1>10, <1>11, <1>12, <1>13, <1>14 DEF EconomyInv

-----------------------------------------------------------------------------

LEMMA NoLetters ==
  /\ NewRows(<< >>) = None /\ NewAttached(<< >>) = None /\ Sendable(<< >>)
  /\ Len(<< >>) = 0 /\ Cash(<< >>) = 0 /\ Enclosed(<< >>) = {} /\ Ids(<< >>) = {}
  <1>1. << >> \in Seq(Letters) /\ Len(<< >>) = 0 /\ DOMAIN << >> = {}
    OBVIOUS
  <1>2. Ids(<< >>) = {} /\ Enclosed(<< >>) = {}
    BY <1>1 DEF Ids, Enclosed
  <1>3. UNION {<< >>[k].items : k \in DOMAIN << >>} = {}
    BY <1>1
  <1>4. NewRows(<< >>) = None
    BY <1>2 DEF NewRows, None
  <1>5. NewAttached(<< >>) = None
    BY <1>3 DEF NewAttached, None
  <1>6. Sendable(<< >>)
    BY <1>1 DEF Sendable
  <1>7. Cash(<< >>) = 0
    BY <1>1 DEF Cash, Three
  <1>8. QED
    BY <1>1, <1>2, <1>4, <1>5, <1>6, <1>7

LEMMA OneMailed ==
  ASSUME NEW mo, NEW ne, NEW ro, NEW pa, NEW dr, NEW lo, NEW lt, NEW fe, NEW ls
  PROVE  Mailed(Trans(mo, ne, ro, None, pa, dr, None, lo, lt, fe), ls)
           = Trans(mo, ne, ro, NewRows(ls), pa, dr, NewAttached(ls), lo, lt, fe)
  <1>1. NewRows(ls) = [x \in DOMAIN NewRows(ls) |-> NewRows(ls)[x]]
    BY DEF NewRows
  <1>2. NewAttached(ls) = [x \in DOMAIN NewAttached(ls) |-> NewAttached(ls)[x]]
    BY DEF NewAttached
  <1>3. Override(None, NewRows(ls)) = NewRows(ls)
    BY <1>1, OverrideNone
  <1>4. Override(None, NewAttached(ls)) = NewAttached(ls)
    BY <1>2, OverrideNone
  <1>5. Mailed(Trans(mo, ne, ro, None, pa, dr, None, lo, lt, fe), ls)
          = Trans(mo, ne, ro, Override(None, NewRows(ls)), pa, dr,
                  Override(None, NewAttached(ls)), lo, lt, fe)
    BY MailedTrans
  <1>6. QED
    BY <1>3, <1>4, <1>5


LEMMA OneSaving ==
  ASSUME NEW ro, NEW po, NEW pa, NEW dr, NEW at, NEW lo, NEW lt, NEW fe,
         NEW p \in Players, NEW m, NEW n, ro = [x \in DOMAIN ro |-> ro[x]]
  PROVE  Saving(Trans(None, None, ro, po, pa, dr, at, lo, lt, fe), {p}, m, n, NothingQueued)
           = Trans(At(p, m), At(p, n), ro, po, pa, dr, at, lo, lt, fe)
  <1> DEFINE M == At(p, m)
             N == At(p, n)
             Q == QueuedRows({p}, NothingQueued)
  <1>1. Override(None, M) = M
    <2>1. M = [x \in DOMAIN M |-> M[x]]
      BY DEF At
    <2> HIDE DEF M
    <2>2. QED
      BY <2>1, OverrideNone
  <1>2. Override(None, N) = N
    <2>1. N = [x \in DOMAIN N |-> N[x]]
      BY DEF At
    <2> HIDE DEF N
    <2>2. QED
      BY <2>1, OverrideNone
  <1>3. Override(ro, Q) = ro
    <2>1. UNION {NothingQueued[q] : q \in {p}} = {}
      BY DEF NothingQueued
    <2>2. Q = None
      BY <2>1 DEF QueuedRows, None
    <2>3. QED
      BY <2>2, OverrideNone
  <1>4. Saving(Trans(None, None, ro, po, pa, dr, at, lo, lt, fe), {p}, m, n, NothingQueued)
          = Trans(Override(None, M), Override(None, N), Override(ro, Q), po, pa, dr, at,
                  lo, lt, fe)
    BY SavingTrans DEF At
  <1> HIDE DEF M, N, Q
  <1>5. QED
    BY <1>1, <1>2, <1>3, <1>4 DEF M, N

LEMMA NoDeliveryTo ==
  ASSUME NEW bx, bx = [p \in Players |-> bx[p]], \A p \in Players : BoxShape(bx[p])
  PROVE  Delivered(bx, << >>) = bx
  <1>1. ASSUME NEW p \in Players PROVE Delivered(bx, << >>)[p] = bx[p]
    <2> DEFINE b == bx[p]
               A == [id \in {x \in Ids(<< >>) : LetterOf(<< >>, x).to = p} |->
                        Copy(LetterOf(<< >>, id))]
    <2>1. BoxShape(b)
      OBVIOUS
    <2>2. A = None
      <3>1. {x \in Ids(<< >>) : LetterOf(<< >>, x).to = p} = {}
        BY NoLetters
      <3>2. QED
        BY <3>1 DEF None
    <2>3. Delivered(bx, << >>)[p] = IF p \in online /\ b.loaded
                                     THEN [b EXCEPT !.mails = Override(b.mails, A)] ELSE b
      BY DEF Delivered
    <2> HIDE DEF A, b
    <2>4. Override(b.mails, None) = b.mails
      BY <2>1, OverrideNone DEF BoxShape
    <2>5. b = [loaded |-> b.loaded, mails |-> b.mails, missed |-> b.missed]
      BY <2>1 DEF BoxShape
    <2>6. [b EXCEPT !.mails = b.mails] = b
      BY <2>5
    <2>7. QED
      BY <2>2, <2>3, <2>4, <2>6 DEF b
  <1>2. Delivered(bx, << >>) = [p \in Players |-> Delivered(bx, << >>)[p]]
    BY DEF Delivered
  <1> QED
    BY <1>1, <1>2

LEMMA NoDelivery ==
  ASSUME EconomyInv
  PROVE  Delivered(box, << >>) = box
  <1>1. box = [p \in Players |-> box[p]] /\ \A p \in Players : BoxShape(box[p])
    BY DEF EconomyInv, BoxesOK, BoxOK
  <1> QED
    BY <1>1, NoDeliveryTo


LEMMA SentRows ==
  ASSUME NEW d, NEW e, NEW ls, NEW mo, NEW ne, NEW ro, NEW lo, NEW lt, NEW fe,
         Executed(d, e, mo, ne, ro, NewRows(ls), None, {}, NewAttached(ls), lo, lt, fe)
  PROVE  Sent(d, e, ls)
  <1>1. DOMAIN NewRows(ls) = Ids(ls) /\ \A id \in Ids(ls) : NewRows(ls)[id] = Row(LetterOf(ls, id))
    BY DEF NewRows
  <1>2. DOMAIN NewAttached(ls) = Enclosed(ls)
    BY DEF NewAttached, Enclosed
  <1>21. DOMAIN None = {}
    BY DEF None
  <1>3. e.mail = [id \in MailIds |-> IF id \in Ids(ls) THEN Row(LetterOf(ls, id))
                                    ELSE d.mail[id]]
    <2> DEFINE f(id) == IF id \in DOMAIN NewRows(ls) THEN NewRows(ls)[id]
               ELSE IF id \in {} \/ d.mail[id] = NoMail THEN NoMail
               ELSE IF id \in DOMAIN None
                    THEN [d.mail[id] EXCEPT !.money = None[id].money, !.cod = None[id].cod]
                    ELSE d.mail[id]
    <2>1. e.mail = [id \in MailIds |-> f(id)]
      BY DEF Executed
    <2>2. \A id \in MailIds : f(id) = IF id \in Ids(ls) THEN Row(LetterOf(ls, id))
                                      ELSE d.mail[id]
      BY <1>1, <1>21
    <2> HIDE DEF f
    <2>3. QED
      BY <2>1, <2>2
  <1>4. e.attach = [i \in Items |-> IF i \in Enclosed(ls) THEN NewAttached(ls)[i]
                                    ELSE d.attach[i]]
    BY <1>2 DEF Executed
  <1>5. QED
    BY <1>3, <1>4 DEF Sent


LEMMA OneRows ==
  ASSUME NEW d \in Database, NEW p \in Players, NEW m, NEW n, NEW R, R \subseteq Items,
         NEW ls, NEW L, DOMAIN L \subseteq Lots, NEW fe, NEW t, NEW e,
         t = OneTrans(p, m, n, R, ls, L, fe), e = Execute(d, t)
  PROVE  OneRow(d, e, p, m[p], n[p], R, ls, L, fe) /\ t.login = Nobody
  <1> USE DEF OneTrans
  <1> DEFINE ro == [i \in R |-> Nobody]
             M == At(p, m)
             N == At(p, n)
  <1>0. ro = [i \in DOMAIN ro |-> ro[i]] /\ DOMAIN ro = R /\ \A i \in R : ro[i] = Nobody
    OBVIOUS
  <1>1. DOMAIN M = {p} /\ DOMAIN N = {p} /\ M[p] = m[p] /\ N[p] = n[p]
    BY DEF At
  <1>2. t = Trans(M, N, ro, NewRows(ls), None, {}, NewAttached(ls), {}, L, fe)
    <2> HIDE DEF ro
    <2>1. Mailed(Trans(None, None, ro, None, None, {}, None, {}, L, fe), ls)
            = Trans(None, None, ro, NewRows(ls), None, {}, NewAttached(ls), {}, L, fe)
      BY OneMailed
    <2>2. t = Saving(Trans(None, None, ro, NewRows(ls), None, {}, NewAttached(ls), {}, L, fe),
                     {p}, m, n, NothingQueued)
      BY <2>1 DEF ro
    <2>3. QED
      BY <1>0, <2>2, OneSaving
  <1> HIDE DEF ro, M, N
  <1>3. /\ e = [money |-> e.money, net |-> e.net, row |-> e.row, mail |-> e.mail,
                 attach |-> e.attach, kept |-> e.kept, lot |-> e.lot, fees |-> e.fees]
        /\ e.money = [q \in Players |-> IF q \in DOMAIN M THEN M[q] ELSE d.money[q]]
        /\ e.net = [q \in Players |-> IF q \in DOMAIN N THEN N[q] ELSE d.net[q]]
        /\ e.row = [i \in Items |-> IF i \in DOMAIN ro THEN ro[i] ELSE d.row[i]]
        /\ Sent(d, e, ls)
        /\ e.kept = d.kept \ {}
        /\ e.lot = [a \in Lots |-> IF a \in DOMAIN L THEN L[a] ELSE d.lot[a]]
        /\ e.fees = d.fees + fe
    <2>1. e = Execute(d, Trans(M, N, ro, NewRows(ls), None, {}, NewAttached(ls), {}, L, fe))
      BY <1>2
    <2>2. DOMAIN M \subseteq Players /\ DOMAIN N \subseteq Players /\ DOMAIN ro \subseteq Items
      BY <1>0, <1>1
    <2>3. Executed(d, e, M, N, ro, NewRows(ls), None, {}, NewAttached(ls), {}, L, fe)
      BY <2>1, <2>2, ExecuteParts
    <2>4. Sent(d, e, ls)
      BY <2>3, SentRows
    <2>5. QED
      BY <2>3, <2>4 DEF Executed
  <1>4. e.money = [q \in Players |-> IF q = p THEN m[p] ELSE d.money[q]]
    BY <1>1, <1>3
  <1>5. e.net = [q \in Players |-> IF q = p THEN n[p] ELSE d.net[q]]
    BY <1>1, <1>3
  <1>6. e.row = [i \in Items |-> IF i \in R THEN Nobody ELSE d.row[i]]
    BY <1>0, <1>3
  <1>7. t.login = Nobody
    BY <1>2 DEF Trans
  <1>8. QED
    BY <1>3, <1>4, <1>5, <1>6, <1>7 DEF OneRow

LEMMA CashType ==
  ASSUME NEW ls, Sendable(ls)
  PROVE  Cash(ls) \in Int
  <1> DEFINE w == [k \in 1..Len(ls) |-> ls[k].money]
  <1>1. ls \in Seq(Letters) /\ Len(ls) <= 3
    BY DEF Sendable
  <1>2. Len(ls) \in Nat /\ \A k \in 1..Len(ls) : ls[k] \in Letters
    BY <1>1
  <1>3. \A k \in 1..Len(ls) : ls[k].money \in Int
    BY <1>2 DEF Letters
  <1>4. \A k \in 1..Len(ls) : w[k] \in Int
    BY <1>3
  <1>5. Cash(ls) = Three(w, Len(ls))
    BY DEF Cash
  <1> HIDE DEF w
  <1>6. /\ Len(ls) >= 1 => w[1] \in Int
        /\ Len(ls) >= 2 => w[2] \in Int
        /\ Len(ls) >= 3 => w[3] \in Int
    BY <1>2, <1>4
  <1>7. Three(w, Len(ls)) \in Int
    <2>1. CASE Len(ls) = 0
      BY <2>1 DEF Three
    <2>2. CASE Len(ls) = 1
      BY <1>6, <2>2 DEF Three
    <2>3. CASE Len(ls) = 2
      <3>1. w[1] \in Int /\ w[2] \in Int
        BY <1>6, <2>3
      <3>2. w[1] + w[2] \in Int
        BY <3>1
      <3>3. QED
        BY <3>2, <2>3 DEF Three
    <2>4. CASE Len(ls) = 3
      <3>1. w[1] \in Int /\ w[2] \in Int /\ w[3] \in Int
        BY <1>6, <2>4
      <3>2. (w[1] + w[2]) + w[3] \in Int
        BY <3>1
      <3>3. QED
        BY <3>2, <2>4 DEF Three
    <2>5. Len(ls) <= 3 /\ Len(ls) \in Nat
      BY <1>1, <1>2
    <2>6. Len(ls) = 0 \/ Len(ls) = 1 \/ Len(ls) = 2 \/ Len(ls) = 3
      <3>1. \A n \in Nat : n <= 3 => n = 0 \/ n = 1 \/ n = 2 \/ n = 3
        OBVIOUS
      <3>2. QED
        BY <2>5, <3>1, Zenon
    <2>7. QED
      BY <2>1, <2>2, <2>3, <2>4, <2>6
  <1>8. QED
    BY <1>5, <1>7



LEMMA FourSums ==
  ASSUME NEW a, NEW b, NEW c, NEW f, NEW a2, NEW b2, NEW c2, NEW f2,
         NEW v, NEW m, NEW w, NEW fe, FourMove(a, b, c, f, a2, b2, c2, f2, v, m, w, fe)
  PROVE  a2 + b2 + c2 + f2 = a + b + c + f
  BY DEF FourMove

LEMMA OneStep ==
  ASSUME EconomyInv, NEW p \in online, NEW v \in 0..Cap, NEW R, R \subseteq items[p],
         NEW ls, Sendable(ls), NEW L, LotsTyped(L), NEW fe \in Int, NEW t, NEW e,
         t.login = Nobody, e = Execute(Settled, t), queue' = Append(queue, t),
         OneRow(Settled, e, p, v, net[p], R, ls, L, fe), OneMemory(p, v, R, ls),
         \A i \in Enclosed(ls) : Settled.attach[i] = Nobody,
         OnePlace(e), HouseOK(e, auctions', aitems', due'),
         (v - money[p]) + Cash(ls) + (LotSum(e) - LotSum(Settled)) + fe = 0
  PROVE  EconomyInv'
  <1> USE DEF OneMemory
  <1>1. /\ Settled \in Database /\ Sound(Settled)
        /\ MemoryTyped(online, money, net, items)
        /\ PursesAgree(Settled, online, money, net, items) /\ BagsFit(Settled)
        /\ BoxesOK(Settled, box, online, gone) /\ TradesOK(trade, online)
    BY SettledSound DEF EconomyInv, Sound
  <1>2. /\ p \in Players /\ items[p] = Bag(Settled, p) /\ items[p] \subseteq Items
        /\ online \subseteq Players /\ money[p] \in Int
    BY <1>1, HoldingsConstants DEF MemoryTyped, PursesAgree
  <1>3. /\ e.money = [q \in Players |-> IF q = p THEN v ELSE Settled.money[q]]
        /\ e.net = [q \in Players |-> IF q = p THEN net[p] ELSE Settled.net[q]]
        /\ e.row = [i \in Items |-> IF i \in R THEN Nobody ELSE Settled.row[i]]
        /\ e.kept = Settled.kept /\ Sent(Settled, e, ls)
        /\ e.lot = [a \in Lots |-> IF a \in DOMAIN L THEN L[a] ELSE Settled.lot[a]]
        /\ e.fees = Settled.fees + fe
        /\ e = [money |-> e.money, net |-> e.net, row |-> e.row, mail |-> e.mail,
                attach |-> e.attach, kept |-> e.kept, lot |-> e.lot, fees |-> e.fees]
    BY DEF OneRow
  <1>4. Bag(e, p) = items[p] \ R
    <2>1. \A i \in Items : e.row[i] = p <=> (Settled.row[i] = p /\ i \notin R)
      BY <1>2, <1>3, HoldingsConstants
    <2>2. QED
      BY <1>2, <2>1 DEF Bag
  <1>5. Cardinality(Bag(e, p)) <= Space[p]
    <2>1. IsFiniteSet(items[p])
      BY <1>2, HoldingsConstants, FS_Subset
    <2>2. /\ IsFiniteSet(Bag(e, p)) /\ Cardinality(Bag(e, p)) <= Cardinality(items[p])
          /\ Cardinality(Bag(e, p)) \in Nat /\ Cardinality(items[p]) \in Nat
      BY <1>4, <2>1, FS_Subset, FS_CardinalityType
    <2>3. Cardinality(items[p]) <= Space[p] /\ Space[p] \in Nat
      BY <1>1, <1>2, HoldingsConstants DEF BagsFit
    <2>4. QED
      BY <2>2, <2>3
  <1>6. \A i \in Items : \/ e.row[i] = Settled.row[i]
                         \/ {e.row[i], Settled.row[i]} \subseteq {p, Nobody}
    <2> SUFFICES ASSUME NEW i \in Items, e.row[i] # Settled.row[i]
                 PROVE  e.row[i] = Nobody /\ Settled.row[i] = p
      OBVIOUS
    <2>1. i \in R /\ e.row[i] = Nobody
      BY <1>3
    <2>2. QED
      BY <1>2, <2>1 DEF Bag
  <1>7. e.row = [i \in Items |-> e.row[i]]
    BY <1>3
  <1>8. /\ e.money \in [Players -> 0..Cap] /\ e.net \in [Players -> Int]
        /\ e.row \in [Items -> Players \cup {Nobody}]
        /\ BagsFit(e)
        /\ PursesAgree(e, online, [money EXCEPT ![p] = v], net,
                       [items EXCEPT ![p] = Bag(e, p)])
        /\ MemoryTyped(online, [money EXCEPT ![p] = v], net,
                       [items EXCEPT ![p] = Bag(e, p)])
        /\ \A q \in Players \ online : SamePurse(Settled, e, q)
        /\ PurseSum(e) = PurseSum(Settled) + (v - money[p])
    <2>1. Saves(e, p, v)
      BY <1>3, <1>5, <1>6, <1>7 DEF Saves
    <2>2. QED
      BY <2>1, OneSaves
  <1>9. /\ PursesAgree(e, online', money', net', items')
        /\ MemoryTyped(online', money', net', items')
    BY <1>4, <1>8
  <1>10. Items \ e.kept \subseteq gone
    BY <1>1, <1>3 DEF BoxesOK
  <1>11. /\ MailTyped(e) /\ MailSum(e) = MailSum(Settled) + Cash(ls)
         /\ \A q \in Players : SameMails(Settled, e, q)
         /\ \A q \in Players : Delivered(box, ls)[q].loaded = box[q].loaded
         /\ BoxesOK(e, Delivered(box, ls), online, gone)
    BY <1>3, <1>10, LettersStep DEF Cash
  <1>12. /\ e.lot \in [Lots -> Auctioned \cup {NoLot}]
         /\ \A a \in Lots : e.lot[a].bidder = Nobody => e.lot[a].bid = 0
    <2>1. /\ Settled.lot \in [Lots -> Auctioned \cup {NoLot}]
          /\ \A a \in Lots : Settled.lot[a].bidder = Nobody => Settled.lot[a].bid = 0
      BY <1>1 DEF Database, Sound, Proper
    <2>2. ASSUME NEW a \in Lots
          PROVE  /\ e.lot[a] \in Auctioned \cup {NoLot}
                 /\ e.lot[a].bidder = Nobody => e.lot[a].bid = 0
      BY <1>3, <2>1 DEF LotsTyped
    <2>3. e.lot = [a \in Lots |-> e.lot[a]]
      BY <1>3
    <2>4. QED
      BY <2>2, <2>3
  <1>13. Settled.fees \in Int /\ e.fees \in Int /\ e.kept \in SUBSET Items
    BY <1>1, <1>3 DEF Database
  <1>14. PurseSum(e) + MailSum(e) + LotSum(e) + e.fees
           = PurseSum(Settled) + MailSum(Settled) + LotSum(Settled) + Settled.fees
    <2>1. /\ PurseSum(Settled) \in Int /\ MailSum(Settled) \in Int /\ LotSum(Settled) \in Int
      BY <1>1, SumTypes
    <2>2. e \in Database
      BY <1>3, <1>8, <1>11, <1>12, <1>13 DEF Database, MailTyped
    <2>3. LotSum(e) \in Int /\ MailSum(e) \in Int
      BY <2>2, SumTypes
    <2>4. Cash(ls) \in Int
      BY CashType
    <2>5. v \in Int
      BY HoldingsConstants
    <2>6. /\ PurseSum(e) = PurseSum(Settled) + (v - money[p])
          /\ MailSum(e) = MailSum(Settled) + Cash(ls)
          /\ e.fees = Settled.fees + fe
          /\ (v - money[p]) + Cash(ls) + (LotSum(e) - LotSum(Settled)) + fe = 0
      BY <1>3, <1>8, <1>11
    <2>7. /\ Settled.fees \in Int /\ money[p] \in Int /\ fe \in Int
      BY <1>2, <1>13
    <2>8. FourMove(PurseSum(Settled), MailSum(Settled), LotSum(Settled), Settled.fees,
                   PurseSum(e), MailSum(e), LotSum(e), e.fees,
                   v, money[p], Cash(ls), fe)
      BY <2>1, <2>3, <2>4, <2>5, <2>6, <2>7 DEF FourMove
    <2>9. QED
      BY <2>8, FourSums
  <1>15. Sound(e)
    BY <1>1, <1>3, <1>8, <1>11, <1>12, <1>13, <1>14, SoundParts
  <1>16. /\ \A q \in Players \ online : SamePurse(Settled, e, q) /\ SameMails(Settled, e, q)
         /\ \A q \in online' : ~box'[q].loaded => ~box[q].loaded /\ SameMails(Settled, e, q)
    BY <1>2, <1>8, <1>11
  <1>17. BoxesOK(e, box', online', gone') /\ TradesOK(trade', online') /\ online' \subseteq online
    BY <1>1, <1>11
  <1>18. disk' = disk /\ RoomFor(1)
    OBVIOUS
  <1> HIDE DEF OneMemory
  <1>19. QED
    BY <1>9, <1>15, <1>16, <1>17, <1>18, PostStep
-----------------------------------------------------------------------------
(* Paying what one has.                                                     *)
LEMMA PaysExactly ==
  ASSUME NEW m \in 0..Cap, NEW a \in Nat, m >= a
  PROVE  Modified(m, -a) = m - a /\ m - a \in 0..Cap
  BY HoldingsConstants DEF Modified

(* Paying what one may not have, or being paid.                             *)
LEMMA PaysSome ==
  ASSUME NEW m \in 0..Cap, NEW a \in Int
  PROVE  Modified(m, -a) \in 0..Cap
  <1>1. Cap \in Nat /\ m \in Int /\ 0 <= m /\ m <= Cap
    BY HoldingsConstants
  <1>2. CASE -a < 0
    BY <1>1, <1>2 DEF Modified
  <1>3. CASE ~(-a < 0)
    BY <1>1, <1>3 DEF Modified
  <1>4. QED
    BY <1>2, <1>3

LEMMA GetsExactly ==
  ASSUME NEW m \in 0..Cap, NEW a \in Nat, m < Cap - a
  PROVE  Modified(m, a) = m + a /\ m + a \in 0..Cap
  BY HoldingsConstants DEF Modified

LEMMA LotsKept ==
  ASSUME NEW d, NEW e, \A b \in Lots : e.lot[b] = d.lot[b]
  PROVE  LotSum(e) = LotSum(d)
  <1> DEFINE f == [a \in Lots |-> Worth(d.lot[a])]
             g == [a \in Lots |-> Worth(e.lot[a])]
  <1>1. \A a \in Lots : g[a] = f[a]
    OBVIOUS
  <1>2. LotSum(e) = Total(g, Lots) /\ LotSum(d) = Total(f, Lots)
    BY DEF LotSum
  <1>3. IsFiniteSet(Lots)
    BY HoldingsConstants
  <1> HIDE DEF f, g
  <1>4. Total(g, Lots) = Total(f, Lots)
    BY <1>1, <1>3, TotalEqual
  <1>5. QED
    BY <1>2, <1>4


LEMMA LotPut ==
  ASSUME NEW d \in Database, NEW e, NEW a \in Lots, NEW lot \in Auctioned \cup {NoLot},
         OneLot(d, e, a, lot)
  PROVE  LotSum(e) = (LotSum(d) - Worth(d.lot[a])) + Worth(lot)
  <1> DEFINE f == [b \in Lots |-> Worth(d.lot[b])]
             g == [b \in Lots |-> Worth(e.lot[b])]
  <1>1. \A b \in Lots : f[b] \in Int
    BY RowTypes
  <1>2. Worth(lot) \in Int
    BY AuctionConstants DEF Worth, Auctioned
  <1>3. f[a] = Worth(d.lot[a]) /\ g[a] = Worth(lot) /\ g[a] \in Int
    BY <1>2 DEF OneLot
  <1>4. \A b \in Lots \ {a} : g[b] = f[b]
    BY DEF OneLot
  <1>5. LotSum(e) = Total(g, Lots) /\ LotSum(d) = Total(f, Lots)
    BY DEF LotSum
  <1>6. IsFiniteSet(Lots)
    BY HoldingsConstants
  <1> HIDE DEF f, g
  <1>7. Total(g, Lots) = (Total(f, Lots) - f[a]) + g[a]
    BY <1>1, <1>3, <1>4, <1>6, TotalUpdate
  <1>8. QED
    BY <1>3, <1>5, <1>7

(* Where the letters and the other writes leave each item.                  *)
LEMMA EnclosedPlaced ==
  ASSUME NEW s, NEW bx, NEW ls, NEW e, Sendable(ls), Fresh(s, bx, ls), Sent(s, e, ls)
  PROVE  /\ \A i \in Enclosed(ls) : i \in Items /\ e.attach[i] \in MailIds
         /\ \A i \in Items \ Enclosed(ls) : e.attach[i] = s.attach[i]
  <1>1. \A i \in Items \ Enclosed(ls) : e.attach[i] = s.attach[i]
    BY DEF Sent
  <1>2. ASSUME NEW i \in Enclosed(ls)
        PROVE  i \in Items /\ e.attach[i] \in MailIds
    <2>1. DOMAIN ls = 1..Len(ls)
      BY DEF Fresh
    <2>2. PICK k \in 1..Len(ls) : i \in ls[k].items
      BY <2>1 DEF Enclosed
    <2>3. i \in Items /\ NewAttached(ls)[i] = NewId(k)
      BY <2>2, LetterItems
    <2>4. NewId(k) \in MailIds
      BY DEF Fresh
    <2>5. e.attach[i] = NewAttached(ls)[i]
      BY <2>3 DEF Sent
    <2>6. QED
      BY <2>3, <2>4, <2>5
  <1>3. QED
    BY <1>1, <1>2
LEMMA OneLetter ==
  ASSUME NEW l \in Letters, l.player => l.from \in Players, l.cod > 0 => l.player
  PROVE  /\ Sendable(<< l >>) /\ Len(<< l >>) = 1 /\ Cash(<< l >>) = l.money
         /\ Enclosed(<< l >>) = l.items
  <1>1. << l >> \in Seq(Letters) /\ Len(<< l >>) = 1 /\ << l >>[1] = l
    OBVIOUS
  <1>2. DOMAIN << l >> = {1}
    OBVIOUS
  <1>3. Sendable(<< l >>)
    BY <1>1 DEF Sendable
  <1>4. Enclosed(<< l >>) = l.items
    BY <1>1, <1>2 DEF Enclosed
  <1>5. Cash(<< l >>) = l.money
    BY <1>1 DEF Cash, Three
  <1>6. QED
    BY <1>1, <1>3, <1>4, <1>5

(* What a handler of a player in the world finds in the rows.               *)
LEMMA Carried ==
  ASSUME EconomyInv, NEW p \in online
  PROVE  /\ p \in Players /\ items[p] = Bag(Settled, p) /\ items[p] \subseteq Items
         /\ money[p] \in 0..Cap /\ net[p] \in Int
         /\ \A i \in items[p] : /\ i \in Settled.kept /\ Settled.row[i] = p
                                /\ Settled.attach[i] = Nobody /\ LotsOf(Settled, i) = {}
         /\ \A i \in Items : Placed(Settled, i)
  <1>1. /\ Sound(Settled) /\ MemoryTyped(online, money, net, items)
        /\ PursesAgree(Settled, online, money, net, items)
    BY SettledSound DEF EconomyInv
  <1>2. /\ p \in Players /\ items[p] = Bag(Settled, p) /\ items[p] \subseteq Items
        /\ money[p] \in 0..Cap /\ net[p] \in Int
    BY <1>1 DEF MemoryTyped, PursesAgree
  <1>3. \A i \in Items : Placed(Settled, i)
    BY <1>1 DEF Sound, OnePlace
  <1>4. ASSUME NEW i \in items[p]
        PROVE  /\ i \in Settled.kept /\ Settled.row[i] = p
               /\ Settled.attach[i] = Nobody /\ LotsOf(Settled, i) = {}
    <2>1. i \in Items /\ Settled.row[i] = p /\ p # Nobody
      BY <1>2, HoldingsConstants DEF Bag
    <2>2. QED
      BY <1>3, <2>1 DEF Placed
  <1>5. QED
    BY <1>2, <1>3, <1>4

LEMMA BlankWrites ==
  /\ \A r, f : [Blank EXCEPT !.row = r, !.fees = f]
                = Trans(None, None, r, None, None, {}, None, {}, None, f)
  /\ \A r, L : [Blank EXCEPT !.row = r, !.lot = L]
                = Trans(None, None, r, None, None, {}, None, {}, L, 0)
  /\ \A L : [Blank EXCEPT !.lot = L]
             = Trans(None, None, None, None, None, {}, None, {}, L, 0)
  /\ \A L, f : [Blank EXCEPT !.lot = L, !.fees = f]
                = Trans(None, None, None, None, None, {}, None, {}, L, f)
  /\ \A D : [Blank EXCEPT !.drop = D]
             = Trans(None, None, None, None, None, D, None, {}, None, 0)
  /\ \A X : [Blank EXCEPT !.lost = X]
             = Trans(None, None, None, None, None, {}, None, X, None, 0)
  <1> DEFINE R(r) == Trans(None, None, r, None, None, {}, None, {}, None, 0)
             K(L) == Trans(None, None, None, None, None, {}, None, {}, L, 0)
  <1>1. ASSUME NEW r
        PROVE  [Blank EXCEPT !.row = r] = R(r)
    BY DEF Blank, Trans
  <1>2. ASSUME NEW L
        PROVE  [Blank EXCEPT !.lot = L] = K(L)
    BY DEF Blank, Trans
  <1>3. ASSUME NEW r, NEW f
        PROVE  [Blank EXCEPT !.row = r, !.fees = f]
                 = Trans(None, None, r, None, None, {}, None, {}, None, f)
    <2>1. [R(r) EXCEPT !.fees = f]
            = Trans(None, None, r, None, None, {}, None, {}, None, f)
      BY DEF Trans
    <2> HIDE DEF R
    <2>2. QED
      BY <1>1, <2>1
  <1>4. ASSUME NEW r, NEW L
        PROVE  [Blank EXCEPT !.row = r, !.lot = L]
                 = Trans(None, None, r, None, None, {}, None, {}, L, 0)
    <2>1. [R(r) EXCEPT !.lot = L]
            = Trans(None, None, r, None, None, {}, None, {}, L, 0)
      BY DEF Trans
    <2> HIDE DEF R
    <2>2. QED
      BY <1>1, <2>1
  <1>5. ASSUME NEW L, NEW f
        PROVE  [Blank EXCEPT !.lot = L, !.fees = f]
                 = Trans(None, None, None, None, None, {}, None, {}, L, f)
    <2>1. [K(L) EXCEPT !.fees = f]
            = Trans(None, None, None, None, None, {}, None, {}, L, f)
      BY DEF Trans
    <2> HIDE DEF K
    <2>2. QED
      BY <1>2, <2>1
  <1>6. \A D : [Blank EXCEPT !.drop = D]
               = Trans(None, None, None, None, None, D, None, {}, None, 0)
    BY DEF Blank, Trans
  <1>7. \A X : [Blank EXCEPT !.lost = X]
               = Trans(None, None, None, None, None, {}, None, X, None, 0)
    BY DEF Blank, Trans
  <1>8. QED
    BY <1>2, <1>3, <1>4, <1>5, <1>6, <1>7

LEMMA BlankFees ==
  ASSUME NEW f
  PROVE  [Blank EXCEPT !.fees = f]
           = Trans(None, None, None, None, None, {}, None, {}, None, f)
  BY DEF Blank, Trans

LEMMA SendInv ==
  ASSUME EconomyInv, NEW p \in online, NEW q \in Players, NEW S, NEW gold \in Nat,
         NEW cod \in Nat, SendMail(p, q, S, gold, cod), UNCHANGED <<house, trade>>
  PROVE  EconomyInv'
  <1> DEFINE n == IF S = {} THEN 1 ELSE Cardinality(S)
             cost == Postage * n
             owed == cost + gold
             gift == IF p \in GameMasters THEN Minted(p, owed, owed) ELSE 0
             fe == cost - gift
             l == Letter(q, p, TRUE, gold, cod, S)
             ls == << l >>
             t == Saving(Mailed([Blank EXCEPT !.row = [i \in S |-> Nobody],
                                              !.fees = fe], ls),
                         {p}, money', net, NothingQueued)
             e == Execute(Settled, t)
  <1>1. /\ S \subseteq items[p] /\ (money[p] >= owed \/ p \in GameMasters)
        /\ RoomFor(1) /\ RoomForMails(1)
        /\ money' = [money EXCEPT ![p] = Modified(money[p], -owed)]
        /\ items' = [items EXCEPT ![p] = items[p] \ S]
        /\ queue' = Append(queue, t)
        /\ box' = Delivered(box, ls)
        /\ online' = online /\ net' = net /\ disk' = disk /\ gone' = gone
    BY DEF SendMail, Post
  <1>2. /\ auctions' = auctions /\ aitems' = aitems /\ due' = due /\ trade' = trade
    BY DEF house
  <1>3. /\ p \in Players /\ items[p] \subseteq Items /\ money[p] \in 0..Cap
        /\ \A i \in items[p] : /\ i \in Settled.kept /\ Settled.row[i] = p
                               /\ Settled.attach[i] = Nobody /\ LotsOf(Settled, i) = {}
        /\ \A i \in Items : Placed(Settled, i)
    BY Carried
  <1>4. cost \in Nat
    <2>1. IsFiniteSet(S)
      BY <1>1, <1>3, HoldingsConstants, FS_Subset
    <2>2. Cardinality(S) \in Nat
      BY <2>1, FS_CardinalityType
    <2>3. QED
      BY <2>2, MailConstants
  <1>5. /\ l \in Letters /\ l.player /\ l.from = p /\ l.money = gold /\ l.items = S
    BY <1>1, <1>3 DEF Letter, Letters
  <1> DEFINE v == Modified(money[p], -owed)
  <1>7. /\ v \in 0..Cap /\ fe \in Int
        /\ (v - money[p]) + gold + fe = 0
    <2>1. money[p] \in 0..Cap /\ money[p] \in Int /\ owed \in Nat /\ cost \in Int
      BY <1>3, <1>4
    <2> HIDE DEF cost
    <2>2. CASE p \in GameMasters
      <3>1. gift = owed - (money[p] - v)
        BY <2>2 DEF Minted
      <3>2. v \in 0..Cap
        BY <2>1, PaysSome
      <3> HIDE DEF gift, v
      <3>3. QED
        BY <2>1, <3>1, <3>2, HoldingsConstants
    <2>3. CASE p \notin GameMasters
      <3>1. gift = 0 /\ money[p] >= owed
        BY <1>1, <2>3
      <3>2. v = money[p] - owed /\ v \in 0..Cap
        BY <2>1, <3>1, PaysExactly
      <3> HIDE DEF gift, v
      <3>3. QED
        BY <2>1, <3>1, <3>2, HoldingsConstants
    <2>4. QED
      BY <2>2, <2>3
  <1> HIDE DEF n, cost, l, fe
  <1>6. /\ Sendable(ls) /\ Len(ls) = 1 /\ Cash(ls) = gold /\ Enclosed(ls) = S
    BY <1>3, <1>5, OneLetter
  <1>8. /\ money' = [money EXCEPT ![p] = v] /\ money'[p] = v
    <2>1. money' = [money EXCEPT ![p] = v]
      BY <1>1
    <2>2. money \in [Players -> 0..Cap]
      BY DEF EconomyInv, MemoryTyped
    <2> HIDE DEF v
    <2>3. QED
      BY <1>3, <2>1, <2>2
  <1>9. Settled \in Database /\ IsFiniteSet(Lots)
    BY SettledSound, HoldingsConstants
  <1>10. OneRow(Settled, e, p, v, net[p], S, ls, None, fe) /\ t.login = Nobody
    <2>1. [Blank EXCEPT !.row = [i \in S |-> Nobody], !.fees = fe]
            = Trans(None, None, [i \in S |-> Nobody], None, None, {}, None, {}, None, fe)
      BY BlankWrites
    <2>2. t = OneTrans(p, money', net, S, ls, None, fe)
      BY <2>1 DEF OneTrans
    <2>3. S \subseteq Items /\ DOMAIN None \subseteq Lots
      BY <1>1, <1>3 DEF None
    <2> HIDE DEF t, e, ls
    <2>4. e = Execute(Settled, t)
      BY DEF e
    <2>5. OneRow(Settled, e, p, money'[p], net[p], S, ls, None, fe) /\ t.login = Nobody
      BY <1>3, <1>9, <2>2, <2>3, <2>4, OneRows
    <2>6. QED
      BY <1>8, <2>5
  <1> HIDE DEF t, ls, e
  <1>11. e = Execute(Settled, t)
    BY DEF e
  <1>12. OneMemory(p, v, S, ls)
    BY <1>1, <1>2, <1>6, <1>8 DEF OneMemory
  <1>13. LotsTyped(None)
    BY DEF LotsTyped, None
  <1>14. /\ e.row = [i \in Items |-> IF i \in S THEN Nobody ELSE Settled.row[i]]
         /\ e.kept = Settled.kept /\ Sent(Settled, e, ls)
         /\ e.lot = [a \in Lots |-> Settled.lot[a]]
    BY <1>10 DEF OneRow, None
  <1>15. \A i \in Enclosed(ls) : Settled.attach[i] = Nobody
    BY <1>1, <1>3, <1>6
  <1>16. Fresh(Settled, box, ls)
    <2>1. gone \subseteq gone /\ Items \ e.kept \subseteq gone
      BY <1>14 DEF EconomyInv, BoxesOK
    <2>2. QED
      BY <1>1, <1>6, <1>14, <1>15, <2>1, LettersStep
  <1>17. OnePlace(e)
    <2>1. /\ \A i \in S : i \in Items /\ e.attach[i] \in MailIds
          /\ \A i \in Items \ S : e.attach[i] = Settled.attach[i]
      BY <1>6, <1>14, <1>16, EnclosedPlaced
    <2>2. \A i \in Items : LotsOf(e, i) = LotsOf(Settled, i)
      BY <1>14 DEF LotsOf
    <2>3. ASSUME NEW i \in Items, i \in S
          PROVE  Placed(e, i)
      <3>1. i \in e.kept /\ e.row[i] = Nobody /\ e.attach[i] \in MailIds /\ LotsOf(e, i) = {}
        BY <1>1, <1>3, <1>14, <2>1, <2>2, <2>3
      <3>2. QED
        BY <3>1 DEF Placed
    <2>4. ASSUME NEW i \in Items, i \notin S
          PROVE  Placed(e, i)
      <3>1. e.row[i] = Settled.row[i] /\ e.attach[i] = Settled.attach[i]
        BY <1>14, <2>1, <2>4
      <3>2. QED
        BY <1>3, <1>14, <2>2, <3>1, PlacedSame
    <2>5. QED
      BY <2>3, <2>4 DEF OnePlace
  <1>18. HouseOK(e, auctions', aitems', due')
    <2>1. HouseOK(Settled, auctions, aitems, due)
      BY DEF EconomyInv
    <2>2. HouseOK(e, auctions, aitems, due)
      BY <1>14, <2>1, HouseSame
    <2>3. QED
      BY <1>2, <2>2
  <1>19. (v - money[p]) + Cash(ls) + (LotSum(e) - LotSum(Settled)) + fe = 0
    <2>1. LotSum(e) = LotSum(Settled)
      BY <1>14, LotsKept
    <2>2. LotSum(Settled) \in Int
      BY <1>9, SumTypes
    <2>3. money[p] \in Int /\ v \in Int
      BY <1>3, <1>7
    <2> HIDE DEF v
    <2>4. QED
      BY <1>6, <1>7, <2>1, <2>2, <2>3
  <1> HIDE DEF v
  <1>20. fe \in Int /\ S \subseteq items[p] /\ v \in 0..Cap /\ queue' = Append(queue, t)
    BY <1>1, <1>7
  <1>21. QED
    BY <1>6, <1>10, <1>11, <1>12, <1>13, <1>15, <1>17, <1>18, <1>19, <1>20, OneStep
-----------------------------------------------------------------------------
(* The letters of the auction house, one behind the other.                  *)
LEMMA AppendLetter ==
  ASSUME NEW ls, Sendable(ls), Len(ls) <= 2, NEW l \in Letters,
         l.player => l.from \in Players, l.cod > 0 => l.player,
         l.items \cap Enclosed(ls) = {}
  PROVE  /\ Sendable(Append(ls, l)) /\ Len(Append(ls, l)) = Len(ls) + 1
         /\ Cash(Append(ls, l)) = Cash(ls) + l.money
         /\ Enclosed(Append(ls, l)) = Enclosed(ls) \cup l.items
  <1> DEFINE ms == Append(ls, l)
             n == Len(ls)
  <1>1. ls \in Seq(Letters)
    BY DEF Sendable
  <1>2. /\ n \in Nat /\ n <= 2 /\ DOMAIN ls = 1..n /\ \A k \in 1..n : ls[k] \in Letters
    BY <1>1
  <1>3. /\ ms \in Seq(Letters) /\ Len(ms) = n + 1 /\ DOMAIN ms = 1..(n + 1)
        /\ \A k \in 1..n : ms[k] = ls[k]
        /\ ms[n + 1] = l
    BY <1>1
  <1> HIDE DEF ms, n
  <1>4. \A k \in 1..(n + 1) : k \in 1..n \/ k = n + 1
    BY <1>2
  <1>5. Enclosed(ms) = Enclosed(ls) \cup l.items
    <2>1. \A k \in 1..n : k \in 1..(n + 1)
      BY <1>2
    <2>2. n + 1 \in 1..(n + 1)
      BY <1>2
    <2>3. QED
      BY <1>2, <1>3, <1>4, <2>1, <2>2 DEF Enclosed
  <1>6. Cash(ms) = Cash(ls) + l.money
    <2> DEFINE w == [k \in 1..Len(ls) |-> ls[k].money]
               z == [k \in 1..Len(ms) |-> ms[k].money]
    <2>1. /\ \A k \in 1..n : w[k] \in Int /\ z[k] = w[k]
          /\ z[n + 1] = l.money /\ l.money \in Int
      <3>1. n + 1 \in 1..Len(ms) /\ 1..n \subseteq 1..Len(ms) /\ 1..n = 1..Len(ls)
        BY <1>2, <1>3 DEF n
      <3>2. \A k \in 1..n : ls[k].money \in Int
        BY <1>2 DEF Letters
      <3>3. l.money \in Int
        BY DEF Letters
      <3>4. QED
        BY <1>3, <3>1, <3>2, <3>3
    <2>2. Cash(ls) = Three(w, n) /\ Cash(ms) = Three(z, n + 1)
      BY <1>3 DEF Cash, n
    <2> HIDE DEF w, z
    <2>3. Three(z, n + 1) = Three(w, n) + l.money
      <3>1. CASE n = 0
        BY <2>1, <3>1 DEF Three
      <3>2. CASE n = 1
        <4>1. z[1] = w[1] /\ w[1] \in Int /\ z[2] = l.money
          BY <2>1, <3>2
        <4>2. QED
          BY <4>1, <3>2 DEF Three
      <3>3. CASE n = 2
        <4>1. z[1] = w[1] /\ z[2] = w[2] /\ w[1] \in Int /\ w[2] \in Int /\ z[3] = l.money
          BY <2>1, <3>3
        <4>2. QED
          BY <2>1, <4>1, <3>3 DEF Three
      <3>4. n = 0 \/ n = 1 \/ n = 2
        BY <1>2
      <3>5. QED
        BY <3>1, <3>2, <3>3, <3>4
    <2>4. QED
      BY <2>2, <2>3
  <1>7. Sendable(ms)
    <2>1. \A k \in 1..n : /\ ls[k].player => ls[k].from \in Players
                          /\ ls[k].cod > 0 => ls[k].player
      BY DEF Sendable, n
    <2>2. \A k \in 1..(n + 1) : /\ ms[k].player => ms[k].from \in Players
                                /\ ms[k].cod > 0 => ms[k].player
      BY <1>3, <1>4, <2>1
    <2>3. \A j, k \in 1..n : j # k => ls[j].items \cap ls[k].items = {}
      BY DEF Sendable, n
    <2>4. \A k \in 1..n : ls[k].items \cap l.items = {}
      BY <1>2 DEF Enclosed
    <2>5. \A j, k \in 1..(n + 1) : j # k => ms[j].items \cap ms[k].items = {}
      BY <1>3, <1>4, <2>3, <2>4
    <2>6. n + 1 <= 3
      BY <1>2
    <2>7. QED
      BY <1>3, <2>2, <2>5, <2>6 DEF Sendable
  <1>8. QED
    BY <1>3, <1>5, <1>6, <1>7 DEF ms, n
(* A listed auction is in the rows, which have its item in no other place.  *)
LEMMA ListedLot ==
  ASSUME EconomyInv, NEW a \in Lots, Listed(a), NEW lot, lot = auctions[a]
  PROVE  /\ lot = Settled.lot[a] /\ lot \in Auctioned /\ lot # NoLot
         /\ lot.item \in aitems /\ lot.item \in Settled.kept /\ lot.item \in Items
         /\ lot.item # Nobody
         /\ Settled.row[lot.item] = Nobody /\ Settled.attach[lot.item] = Nobody
         /\ LotsOf(Settled, lot.item) = {a}
         /\ lot.owner \in Players /\ lot.bidder \in Players \cup {Nobody} /\ lot.bid \in Nat
         /\ lot.bidder = Nobody => lot.bid = 0
         /\ Worth(lot) = lot.bid + Deposit /\ Known(lot)
  <1>1. /\ Sound(Settled) /\ HouseOK(Settled, auctions, aitems, due)
    BY SettledSound DEF EconomyInv
  <1>2. auctions = LoadedAuctions(Settled) /\ lot.item \in aitems /\ lot # NoLot
    BY <1>1 DEF HouseOK, Listed
  <1>3. lot = Settled.lot[a] /\ Settled.lot[a].item \in Settled.kept
    BY <1>2 DEF LoadedAuctions
  <1>4. lot \in Auctioned
    BY <1>1, <1>2, <1>3 DEF Sound, Database
  <1>5. /\ lot.item \in Items /\ lot.owner \in Players
        /\ lot.bidder \in Players \cup {Nobody} /\ lot.bid \in Nat
    BY <1>4 DEF Auctioned
  <1>6. lot.bidder = Nobody => lot.bid = 0
    BY <1>1, <1>3 DEF Sound, Proper
  <1>7. Placed(Settled, lot.item)
    BY <1>1, <1>5 DEF Sound, OnePlace
  <1>8. a \in LotsOf(Settled, lot.item)
    BY <1>3 DEF LotsOf
  <1>9. /\ Settled.row[lot.item] = Nobody /\ Settled.attach[lot.item] = Nobody
        /\ LotsOf(Settled, lot.item) = {a}
    BY <1>3, <1>7, <1>8 DEF Placed
  <1>10. Worth(lot) = lot.bid + Deposit /\ Known(lot) /\ lot.item # Nobody
    BY <1>2, <1>5, HoldingsConstants DEF Worth, Known
  <1>11. QED
    BY <1>2, <1>3, <1>4, <1>5, <1>6, <1>9, <1>10

LEMMA LotsOfSame ==
  ASSUME NEW s, NEW e, NEW a \in Lots, NEW lot, OneLot(s, e, a, lot), NEW j,
         j = s.lot[a].item <=> j = lot.item
  PROVE  LotsOf(e, j) = LotsOf(s, j)
  BY DEF LotsOf, OneLot

LEMMA LotsOfGone ==
  ASSUME NEW s, NEW e, NEW a \in Lots, NEW lot, OneLot(s, e, a, lot), NEW j,
         j # lot.item, LotsOf(s, j) = {a}
  PROVE  LotsOf(e, j) = {}
  BY DEF LotsOf, OneLot

LEMMA HousePut ==
  ASSUME NEW s, NEW e, NEW au, NEW ai, NEW du, HouseOK(s, au, ai, du), NEW a \in Lots,
         NEW lot, OneLot(s, e, a, lot), e.kept = s.kept, lot = NoLot \/ (lot.item \in s.kept /\ lot # NoLot),
         NEW ai2, ai2 \subseteq Items, NEW du2, du2 \subseteq Lots,
         lot # NoLot => lot.item \in ai2,
         \A b \in Lots \ {a} : au[b] # NoLot => au[b].item \in ai2
  PROVE  HouseOK(e, [au EXCEPT ![a] = lot], ai2, du2)
  <1> USE DEF OneLot
  <1>1. au = LoadedAuctions(s)
    BY DEF HouseOK
  <1>2. DOMAIN au = Lots
    BY <1>1 DEF LoadedAuctions
  <1>3. [au EXCEPT ![a] = lot] = [b \in Lots |-> IF b = a THEN lot ELSE au[b]]
    BY <1>1 DEF LoadedAuctions
  <1>4. ASSUME NEW b \in Lots
        PROVE  (IF b = a THEN lot ELSE au[b])
                 = IF e.lot[b].item \in e.kept THEN e.lot[b] ELSE NoLot
    <2>1. CASE b = a
      BY <2>1
    <2>2. CASE b # a
      BY <1>1, <2>2 DEF LoadedAuctions
    <2>3. QED
      BY <2>1, <2>2
  <1>5. LoadedAuctions(e) = [b \in Lots |-> IF b = a THEN lot ELSE au[b]]
    BY <1>4 DEF LoadedAuctions
  <1>6. \A b \in Lots : (IF b = a THEN lot ELSE au[b]) # NoLot
                          => (IF b = a THEN lot ELSE au[b]).item \in ai2
    OBVIOUS
  <1>7. QED
    BY <1>3, <1>5, <1>6 DEF HouseOK
LEMMA LotFields ==
  ASSUME NEW i, NEW p
  PROVE  [NoLot EXCEPT !.item = i, !.owner = p]
           = [item |-> i, owner |-> p, bidder |-> Nobody, bid |-> 0]
  <1> DEFINE r == [item |-> i, owner |-> Nobody, bidder |-> Nobody, bid |-> 0]
  <1>1. [NoLot EXCEPT !.item = i] = r
    BY DEF NoLot
  <1>2. [r EXCEPT !.owner = p] = [item |-> i, owner |-> p, bidder |-> Nobody, bid |-> 0]
    OBVIOUS
  <1> HIDE DEF r
  <1>3. QED
    BY <1>1, <1>2

(* Selling: the item leaves the bag for an auction with an id of its own.   *)
LEMMA SellInv ==
  ASSUME EconomyInv, NEW p \in online, NEW i \in items[p], SellItem(p, i), UNCHANGED trade
  PROVE  EconomyInv'
  <1> DEFINE a == CHOOSE x \in FreeLots : TRUE
             lot == [NoLot EXCEPT !.item = i, !.owner = p]
             L == [x \in {a} |-> lot]
             R == {i}
             t == Saving([Blank EXCEPT !.row = [x \in R |-> Nobody], !.lot = L],
                         {p}, money', net, NothingQueued)
             e == Execute(Settled, t)
             v == money[p] - Deposit
  <1>1. /\ money[p] >= Deposit /\ RoomFor(1) /\ FreeLots # {}
        /\ auctions' = [auctions EXCEPT ![a] = lot]
        /\ aitems' = aitems \cup {i}
        /\ money' = [money EXCEPT ![p] = Modified(money[p], -Deposit)]
        /\ items' = [items EXCEPT ![p] = items[p] \ R]
        /\ queue' = Append(queue, t)
        /\ online' = online /\ net' = net /\ disk' = disk /\ gone' = gone /\ box' = box
        /\ due' = due /\ trade' = trade
    BY DEF SellItem, Post, mailbox
  <1>2. /\ p \in Players /\ items[p] \subseteq Items /\ money[p] \in 0..Cap
        /\ \A x \in items[p] : /\ x \in Settled.kept /\ Settled.row[x] = p
                               /\ Settled.attach[x] = Nobody /\ LotsOf(Settled, x) = {}
        /\ \A x \in Items : Placed(Settled, x)
    BY Carried
  <1>3. /\ a \in Lots /\ Settled.lot[a] = NoLot
    <2>1. a \in FreeLots
      BY <1>1
    <2>2. /\ a \in Lots /\ disk.lot[a] = NoLot
          /\ \A k \in DOMAIN queue : a \notin DOMAIN queue[k].lot
      BY <2>1 DEF FreeLots
    <2> HIDE DEF a
    <2>3. /\ IsQueue(queue) /\ RowsSound(disk, queue) /\ Settled = Final(disk, queue)
          /\ Len(queue) \in Nat
      BY SettledSound DEF EconomyInv
    <2>4. \A k \in 1..Len(queue) : a \notin DOMAIN queue[k].lot
      BY <2>2, <2>3, QueueLength
    <2>5. \A n \in 0..Len(queue) : RowsAfter(disk, queue)[n].lot[a] = NoLot
      BY <2>2, <2>3, <2>4, NewLotsOnly
    <2>6. Len(queue) \in 0..Len(queue)
      BY <2>3
    <2>7. QED
      BY <2>2, <2>3, <2>5, <2>6 DEF Final
  <1> HIDE DEF a
  <1>4. /\ lot \in Auctioned /\ lot.item = i /\ lot.owner = p /\ lot.bidder = Nobody
        /\ lot.bid = 0 /\ i # Nobody /\ i \in Items /\ lot # NoLot /\ Worth(lot) = Deposit
    <2>1. i \in Items /\ i # Nobody
      BY <1>2, HoldingsConstants
    <2>2. lot = [item |-> i, owner |-> p, bidder |-> Nobody, bid |-> 0]
      BY LotFields
    <2> HIDE DEF lot
    <2>3. lot.item = i /\ lot.owner = p /\ lot.bidder = Nobody /\ lot.bid = 0
      BY <2>2
    <2>4. lot \in Auctioned
      BY <1>2, <2>1, <2>2 DEF Auctioned
    <2>5. lot # NoLot
      BY <2>1, <2>3 DEF NoLot
    <2>6. Worth(lot) = Deposit
      BY <2>3, <2>5, AuctionConstants DEF Worth
    <2>7. QED
      BY <2>1, <2>3, <2>4, <2>5, <2>6
  <1> HIDE DEF lot
  <1>5. Modified(money[p], -Deposit) = v /\ v \in 0..Cap
    BY <1>1, <1>2, AuctionConstants, PaysExactly
  <1>6. /\ money' = [money EXCEPT ![p] = v] /\ money'[p] = v
    <2>1. money' = [money EXCEPT ![p] = v]
      BY <1>1, <1>5
    <2>2. money \in [Players -> 0..Cap]
      BY DEF EconomyInv, MemoryTyped
    <2>3. QED
      BY <1>2, <2>1, <2>2
  <1>7. Settled \in Database
    BY SettledSound
  <1>8. OneRow(Settled, e, p, v, net[p], R, << >>, L, 0) /\ t.login = Nobody
    <2>1. [Blank EXCEPT !.row = [x \in R |-> Nobody], !.lot = L]
            = Trans(None, None, [x \in R |-> Nobody], None, None, {}, None, {}, L, 0)
      <3> HIDE DEF L, R
      <3> QED
        BY BlankWrites
    <2>2. Mailed(Trans(None, None, [x \in R |-> Nobody], None, None, {}, None, {}, L, 0), << >>)
            = Trans(None, None, [x \in R |-> Nobody], None, None, {}, None, {}, L, 0)
      BY OneMailed, NoLetters
    <2>3. t = OneTrans(p, money', net, R, << >>, L, 0)
      BY <2>1, <2>2 DEF OneTrans
    <2>4. R \subseteq Items /\ DOMAIN L \subseteq Lots
      BY <1>3, <1>4
    <2> HIDE DEF t, e, L, R
    <2>5. e = Execute(Settled, t)
      BY DEF e
    <2>6. OneRow(Settled, e, p, money'[p], net[p], R, << >>, L, 0) /\ t.login = Nobody
      BY <1>2, <1>7, <2>3, <2>4, <2>5, OneRows DEF R
    <2>7. QED
      BY <1>6, <2>6
  <1> HIDE DEF t, e
  <1>9. e = Execute(Settled, t)
    BY DEF e
  <1>10. OneMemory(p, v, R, << >>)
    <2>1. Delivered(box, << >>) = box /\ Len(<< >>) = 0
      BY NoDelivery, NoLetters
    <2>2. RoomForMails(0)
      <3>1. IsFiniteSet(FreeIds)
        BY HoldingsConstants, FS_Subset DEF FreeIds
      <3>2. Cardinality(FreeIds) \in Nat
        BY <3>1, FS_CardinalityType
      <3>3. QED
        BY <3>2 DEF RoomForMails
    <2>3. QED
      BY <1>1, <1>6, <2>1, <2>2 DEF OneMemory
  <1>11. LotsTyped(L)
    BY <1>3, <1>4 DEF LotsTyped
  <1>12. /\ e.row = [x \in Items |-> IF x \in R THEN Nobody ELSE Settled.row[x]]
         /\ e.kept = Settled.kept /\ Sent(Settled, e, << >>)
         /\ e.lot = [b \in Lots |-> IF b \in DOMAIN L THEN L[b] ELSE Settled.lot[b]]
    BY <1>8 DEF OneRow
  <1>13. OneLot(Settled, e, a, lot)
    BY <1>3, <1>12 DEF OneLot
  <1>14. \A x \in Items : e.attach[x] = Settled.attach[x]
    BY <1>12, NoLetters DEF Sent
  <1>15. OnePlace(e)
    <2>1. LotsOf(e, i) = {a}
      <3>1. LotsOf(Settled, lot.item) = {}
        BY <1>2, <1>4
      <3>2. LotsOf(e, lot.item) = {a}
        BY <1>3, <1>13, <3>1 DEF LotsOf, OneLot
      <3>3. QED
        BY <1>4, <3>2
    <2>2. Placed(e, i)
      <3>1. i \in e.kept /\ e.row[i] = Nobody /\ e.attach[i] = Nobody
        BY <1>2, <1>4, <1>12, <1>14
      <3>2. QED
        BY <1>3, <2>1, <3>1 DEF Placed
    <2>3. ASSUME NEW x \in Items, x # i
          PROVE  Placed(e, x)
      <3>1. x # Nobody
        BY HoldingsConstants
      <3>2. LotsOf(e, x) = LotsOf(Settled, x)
        <4>1. Settled.lot[a].item = Nobody
          BY <1>3 DEF NoLot
        <4>2. x = Settled.lot[a].item <=> x = lot.item
          BY <1>4, <2>3, <3>1, <4>1
        <4>3. QED
          BY <1>3, <1>13, <4>2, LotsOfSame
      <3>3. e.row[x] = Settled.row[x] /\ e.attach[x] = Settled.attach[x]
        BY <1>12, <1>14, <2>3
      <3>4. QED
        BY <1>2, <1>12, <3>2, <3>3, PlacedSame
    <2>4. QED
      BY <2>2, <2>3 DEF OnePlace
  <1>16. HouseOK(e, auctions', aitems', due')
    <2>1. HouseOK(Settled, auctions, aitems, due)
      BY DEF EconomyInv
    <2>2. /\ aitems \cup {i} \subseteq Items /\ due \subseteq Lots
          /\ \A b \in Lots \ {a} : auctions[b] # NoLot => auctions[b].item \in aitems \cup {i}
      BY <1>4, <2>1 DEF HouseOK
    <2>3. lot.item \in Settled.kept /\ lot.item \in aitems \cup {i}
      BY <1>2, <1>4
    <2>4. HouseOK(e, [auctions EXCEPT ![a] = lot], aitems \cup {i}, due)
      BY <1>3, <1>4, <1>12, <1>13, <2>1, <2>2, <2>3, HousePut
    <2>5. QED
      BY <1>1, <2>4
  <1>17. (v - money[p]) + Cash(<< >>) + (LotSum(e) - LotSum(Settled)) + 0 = 0
    <2>1. LotSum(e) = (LotSum(Settled) - Worth(Settled.lot[a])) + Worth(lot)
      BY <1>3, <1>4, <1>7, <1>13, LotPut
    <2>2. Worth(Settled.lot[a]) = 0
      BY <1>3 DEF Worth
    <2>3. LotSum(Settled) \in Int /\ money[p] \in Int /\ Deposit \in Int
      BY <1>2, <1>7, SumTypes, AuctionConstants
    <2>4. Cash(<< >>) = 0
      BY NoLetters
    <2>5. LotSum(e) - LotSum(Settled) = Deposit
      BY <1>4, <2>1, <2>2, <2>3
    <2>6. QED
      BY <2>3, <2>4, <2>5
  <1>18. \A x \in Enclosed(<< >>) : Settled.attach[x] = Nobody
    BY NoLetters
  <1>19. 0 \in Int /\ R \subseteq items[p] /\ v \in 0..Cap /\ queue' = Append(queue, t)
    BY <1>1, <1>5
  <1> HIDE DEF v, L, R
  <1>20. QED
    BY <1>8, <1>9, <1>10, <1>11, <1>15, <1>16, <1>17, <1>18, <1>19, NoLetters, OneStep

LEMMA LotStep ==
  ASSUME EconomyInv, NEW p \in online, NEW v \in 0..Cap, NEW a \in Lots, Listed(a),
         NEW old, old = auctions[a], NEW lot, NEW ls, Sendable(ls), Bought(old, lot, ls),
         NEW fe \in Int, LotPosted(p, v, a, lot, ls, fe),
         (v - money[p]) + Cash(ls) + (Worth(lot) - Worth(old)) + fe = 0
  PROVE  EconomyInv'
  <1> DEFINE L == [x \in {a} |-> lot]
             t == Saving(Mailed([Blank EXCEPT !.lot = L, !.fees = fe], ls),
                         {p}, money', net, NothingQueued)
             e == Execute(Settled, t)
             E == Enclosed(ls)
  <1>1. /\ p \in Players /\ money[p] \in 0..Cap /\ \A x \in Items : Placed(Settled, x)
    BY Carried
  <1>2. /\ old = Settled.lot[a] /\ old \in Auctioned /\ old # NoLot
        /\ old.item \in aitems /\ old.item \in Settled.kept /\ old.item \in Items
        /\ old.item # Nobody
        /\ Settled.row[old.item] = Nobody /\ Settled.attach[old.item] = Nobody
        /\ LotsOf(Settled, old.item) = {a}
    BY ListedLot
  <1>3. /\ lot \in Auctioned \cup {NoLot} /\ (lot.bidder = Nobody => lot.bid = 0)
        /\ E \subseteq {old.item}
        /\ lot = NoLot \/ (lot.item = old.item /\ lot # NoLot)
        /\ lot = NoLot => E = {old.item} /\ lot.item # old.item
        /\ lot # NoLot => E = {}
    <2>1. CASE lot \in Auctioned /\ lot.item = old.item /\ E = {} /\ lot.bidder # Nobody
      <3>1. lot # NoLot
        BY <1>2, <2>1 DEF NoLot
      <3>2. QED
        BY <2>1, <3>1
    <2>2. CASE lot = NoLot /\ E = {old.item}
      <3>1. lot.item = Nobody /\ lot.bid = 0
        BY <2>2 DEF NoLot
      <3>2. QED
        BY <1>2, <2>2, <3>1
    <2>3. QED
      BY <2>1, <2>2 DEF Bought
  <1>4. /\ money' = [money EXCEPT ![p] = v] /\ money'[p] = v
        /\ items' = [items EXCEPT ![p] = items[p] \ {}]
    <2>1. money' = [money EXCEPT ![p] = v] /\ items' = items
      BY DEF LotPosted
    <2>2. money \in [Players -> 0..Cap] /\ items \in [Players -> SUBSET Items]
      BY DEF EconomyInv, MemoryTyped
    <2>3. items[p] \ {} = items[p]
      OBVIOUS
    <2>4. items' = [items EXCEPT ![p] = items[p] \ {}]
      BY <1>1, <2>1, <2>2, <2>3
    <2>5. QED
      BY <1>1, <2>1, <2>2, <2>4
  <1>5. Settled \in Database
    BY SettledSound
  <1>6. OneRow(Settled, e, p, v, net[p], {}, ls, L, fe) /\ t.login = Nobody
    <2> DEFINE R == {}
               none == [x \in R |-> Nobody]
    <2>1. [Blank EXCEPT !.lot = L, !.fees = fe]
            = Trans(None, None, none, None, None, {}, None, {}, L, fe)
      <3>1. none = None
        BY DEF None
      <3> HIDE DEF L, none
      <3>2. [Blank EXCEPT !.lot = L, !.fees = fe]
              = Trans(None, None, None, None, None, {}, None, {}, L, fe)
        BY BlankWrites, Zenon
      <3>3. QED
        BY <3>1, <3>2
    <2>2. t = OneTrans(p, money', net, R, ls, L, fe)
      BY <2>1 DEF OneTrans
    <2>3. R \subseteq Items /\ DOMAIN L \subseteq Lots
      OBVIOUS
    <2> HIDE DEF t, e, L, R
    <2>4. e = Execute(Settled, t)
      BY DEF e
    <2>5. OneRow(Settled, e, p, money'[p], net[p], R, ls, L, fe) /\ t.login = Nobody
      BY <1>1, <1>5, <2>2, <2>3, <2>4, OneRows
    <2>6. QED
      BY <1>4, <2>5 DEF R
  <1>7. queue' = Append(queue, t)
    BY DEF LotPosted
  <1> HIDE DEF t, e
  <1>8. e = Execute(Settled, t)
    BY DEF e
  <1>9. OneMemory(p, v, {}, ls)
    BY <1>4 DEF OneMemory, LotPosted
  <1>10. LotsTyped(L)
    BY <1>3 DEF LotsTyped
  <1>11. /\ e.row = [x \in Items |-> Settled.row[x]]
         /\ e.kept = Settled.kept /\ Sent(Settled, e, ls)
         /\ e.lot = [b \in Lots |-> IF b \in DOMAIN L THEN L[b] ELSE Settled.lot[b]]
    BY <1>6 DEF OneRow
  <1>12. OneLot(Settled, e, a, lot)
    BY <1>11 DEF OneLot
  <1>13. \A x \in E : Settled.attach[x] = Nobody
    BY <1>2, <1>3
  <1>14. Fresh(Settled, box, ls)
    <2>1. gone \subseteq gone /\ Items \ e.kept \subseteq gone
      BY <1>11 DEF EconomyInv, BoxesOK
    <2>2. RoomForMails(Len(ls))
      BY DEF LotPosted
    <2>3. QED
      BY <1>11, <1>13, <2>1, <2>2, LettersStep
  <1>15. OnePlace(e)
    <2>1. /\ \A x \in E : x \in Items /\ e.attach[x] \in MailIds
          /\ \A x \in Items \ E : e.attach[x] = Settled.attach[x]
      BY <1>11, <1>14, EnclosedPlaced
    <2>2. ASSUME NEW x \in Items, x \in E
          PROVE  Placed(e, x)
      <3>1. x = old.item /\ lot = NoLot
        BY <1>3, <2>2
      <3>2. x # lot.item /\ LotsOf(Settled, x) = {a}
        BY <1>2, <1>3, <3>1
      <3>3. LotsOf(e, x) = {}
        BY <1>12, <3>2, LotsOfGone
      <3>4. x \in e.kept /\ e.row[x] = Nobody /\ e.attach[x] \in MailIds
        BY <1>2, <1>11, <2>1, <2>2, <3>1
      <3>5. QED
        BY <3>3, <3>4 DEF Placed
    <2>3. ASSUME NEW x \in Items, x \notin E
          PROVE  Placed(e, x)
      <3>1. x = Settled.lot[a].item <=> x = lot.item
        <4>1. CASE lot = NoLot
          <5>1. x # old.item /\ x # Nobody /\ lot.item = Nobody
            BY <1>3, <2>3, <4>1, HoldingsConstants DEF NoLot
          <5>2. QED
            BY <1>2, <5>1
        <4>2. CASE lot # NoLot
          BY <1>2, <1>3, <4>2
        <4>3. QED
          BY <4>1, <4>2
      <3>2. LotsOf(e, x) = LotsOf(Settled, x)
        BY <1>12, <3>1, LotsOfSame
      <3>3. e.row[x] = Settled.row[x] /\ e.attach[x] = Settled.attach[x]
        BY <1>11, <2>1, <2>3
      <3>4. QED
        BY <1>1, <1>11, <3>2, <3>3, PlacedSame
    <2>4. QED
      BY <2>2, <2>3 DEF OnePlace
  <1>16. HouseOK(e, auctions', aitems', due')
    <2>1. HouseOK(Settled, auctions, aitems, due)
      BY DEF EconomyInv
    <2>2. aitems \ E \subseteq Items /\ due \subseteq Lots
      BY <2>1 DEF HouseOK
    <2>3. ASSUME NEW b \in Lots \ {a}, auctions[b] # NoLot
          PROVE  auctions[b].item \in aitems \ E
      <3>1. Listed(b)
        BY <2>3 DEF Listed
      <3>2. auctions[b].item \in aitems /\ LotsOf(Settled, auctions[b].item) = {b}
        BY <3>1, ListedLot
      <3>3. auctions[b].item # old.item
        BY <1>2, <3>2
      <3>4. QED
        BY <1>3, <3>2, <3>3
    <2>4. /\ lot = NoLot \/ (lot.item \in Settled.kept /\ lot # NoLot)
          /\ lot # NoLot => lot.item \in aitems \ E
      BY <1>2, <1>3
    <2>5. HouseOK(e, [auctions EXCEPT ![a] = lot], aitems \ E, due)
      BY <1>11, <1>12, <2>1, <2>2, <2>3, <2>4, HousePut
    <2>6. QED
      BY <2>5 DEF LotPosted
  <1>17. (v - money[p]) + Cash(ls) + (LotSum(e) - LotSum(Settled)) + fe = 0
    <2>1. LotSum(e) = (LotSum(Settled) - Worth(Settled.lot[a])) + Worth(lot)
      BY <1>3, <1>5, <1>12, LotPut
    <2>2. LotSum(Settled) \in Int /\ Worth(old) \in Int /\ Worth(lot) \in Int
      BY <1>2, <1>3, <1>5, SumTypes, AuctionConstants DEF Worth, Auctioned
    <2>3. LotSum(e) - LotSum(Settled) = Worth(lot) - Worth(old)
      BY <1>2, <2>1, <2>2
    <2>4. QED
      BY <2>3
  <1>18. {} \subseteq items[p]
    OBVIOUS
  <1> HIDE DEF L
  <1>19. QED
    BY <1>6, <1>7, <1>8, <1>9, <1>10, <1>13, <1>15, <1>16, <1>17, <1>18, OneStep
(* The lists of letters the house sends.                                    *)
LEMMA HouseSends ==
  ASSUME NEW ls, Sendable(ls), Len(ls) <= 2, NEW to \in Players, NEW gold \in Int,
         NEW its \in SUBSET Items, its \cap Enclosed(ls) = {}
  PROVE  /\ Sendable(ls \o FromHouse(to, gold, its))
         /\ Len(ls \o FromHouse(to, gold, its)) = Len(ls) + 1
         /\ Cash(ls \o FromHouse(to, gold, its)) = Cash(ls) + gold
         /\ Enclosed(ls \o FromHouse(to, gold, its)) = Enclosed(ls) \cup its
  <1> DEFINE l == Letter(to, Nobody, FALSE, gold, 0, its)
  <1>1. /\ FromHouse(to, gold, its) = << l >> /\ l \in Letters
        /\ ~l.player /\ l.cod = 0 /\ l.money = gold /\ l.items = its
    BY DEF FromHouse, Letter, Letters
  <1> HIDE DEF l
  <1>2. ls \in Seq(Letters)
    BY DEF Sendable
  <1>3. ls \o << l >> = Append(ls, l)
    BY <1>2
  <1>4. l.items \cap Enclosed(ls) = {} /\ ~(l.cod > 0)
    BY <1>1
  <1>5. /\ Sendable(Append(ls, l)) /\ Len(Append(ls, l)) = Len(ls) + 1
        /\ Cash(Append(ls, l)) = Cash(ls) + l.money
        /\ Enclosed(Append(ls, l)) = Enclosed(ls) \cup l.items
    BY <1>1, <1>4, AppendLetter
  <1>6. QED
    BY <1>1, <1>3, <1>5

LEMMA HouseSendsOne ==
  ASSUME NEW to \in Players, NEW gold \in Int, NEW its \in SUBSET Items
  PROVE  /\ Sendable(FromHouse(to, gold, its)) /\ Len(FromHouse(to, gold, its)) = 1
         /\ Cash(FromHouse(to, gold, its)) = gold
         /\ Enclosed(FromHouse(to, gold, its)) = its
  <1> DEFINE l == Letter(to, Nobody, FALSE, gold, 0, its)
  <1>1. /\ FromHouse(to, gold, its) = << l >> /\ l \in Letters
        /\ ~l.player /\ l.cod = 0 /\ l.money = gold /\ l.items = its
    BY DEF FromHouse, Letter, Letters
  <1> HIDE DEF l
  <1>2. ~(l.cod > 0)
    BY <1>1
  <1>3. QED
    BY <1>1, <1>2, OneLetter

LEMMA OutbidLetters ==
  ASSUME NEW lot \in Auctioned, lot.bidder = Nobody => lot.bid = 0
  PROVE  /\ Sendable(OutbidMail(lot)) /\ Len(OutbidMail(lot)) <= 1
         /\ Cash(OutbidMail(lot)) = lot.bid /\ Enclosed(OutbidMail(lot)) = {}
  <1>1. lot.bidder \in Players \cup {Nobody} /\ lot.bid \in Int
    BY DEF Auctioned
  <1>2. CASE lot.bidder = Nobody
    <2>1. OutbidMail(lot) = << >>
      BY <1>2 DEF OutbidMail
    <2>2. QED
      BY <1>2, <2>1, NoLetters
  <1>3. CASE lot.bidder # Nobody
    <2>1. OutbidMail(lot) = FromHouse(lot.bidder, lot.bid, {}) /\ lot.bidder \in Players
      BY <1>1, <1>3 DEF OutbidMail
    <2>2. {} \in SUBSET Items
      OBVIOUS
    <2> DEFINE f == FromHouse(lot.bidder, lot.bid, {})
    <2>3. Sendable(f) /\ Len(f) = 1 /\ Cash(f) = lot.bid /\ Enclosed(f) = {}
      BY <1>1, <2>1, <2>2, HouseSendsOne
    <2> HIDE DEF f
    <2>4. OutbidMail(lot) = f
      BY <2>1 DEF f
    <2>5. Len(OutbidMail(lot)) = 1
      BY <2>3, <2>4
    <2>6. Len(OutbidMail(lot)) <= 1
      BY <2>5
    <2>7. QED
      BY <2>3, <2>4, <2>6
  <1>4. QED
    BY <1>2, <1>3

(* What a bidder pays is what the auction gains and the displaced gets.     *)
LEMMA BidPays ==
  ASSUME EconomyInv, NEW p \in online, NEW a \in Lots, NEW amount \in Nat,
         MayBid(p, a, amount)
  PROVE  /\ Price(p, a, amount) \in Nat /\ money[p] >= Price(p, a, amount)
         /\ Sendable(Displaced(p, a)) /\ Len(Displaced(p, a)) <= 1
         /\ Enclosed(Displaced(p, a)) = {}
         /\ Cash(Displaced(p, a)) - Price(p, a, amount) = auctions[a].bid - amount
         /\ Cash(Displaced(p, a)) \in Int
  <1> DEFINE lot == auctions[a]
  <1>1. Listed(a) /\ money[p] >= amount /\ amount > lot.bid
    BY DEF MayBid
  <1>2. /\ lot \in Auctioned /\ lot.bid \in Nat
        /\ lot.bidder = Nobody => lot.bid = 0
    BY <1>1, ListedLot
  <1>3. money[p] \in Int
    BY Carried
  <1>4. CASE lot.bidder = p
    <2>1. Displaced(p, a) = << >> /\ Price(p, a, amount) = amount - lot.bid
      BY <1>4 DEF Displaced, Price
    <2>2. /\ Sendable(Displaced(p, a)) /\ Len(Displaced(p, a)) = 0
          /\ Enclosed(Displaced(p, a)) = {} /\ Cash(Displaced(p, a)) = 0
      BY <2>1, NoLetters
    <2>3. Len(Displaced(p, a)) <= 1
      BY <2>2
    <2>4. QED
      BY <1>1, <1>2, <1>3, <2>1, <2>2, <2>3
  <1>5. CASE lot.bidder # p
    <2>1. Displaced(p, a) = OutbidMail(lot) /\ Price(p, a, amount) = amount
      BY <1>5 DEF Displaced, Price
    <2>2. /\ Sendable(OutbidMail(lot)) /\ Len(OutbidMail(lot)) <= 1
          /\ Cash(OutbidMail(lot)) = lot.bid /\ Enclosed(OutbidMail(lot)) = {}
      <3> HIDE DEF lot
      <3> QED
        BY <1>2, OutbidLetters
    <2>3. /\ Sendable(Displaced(p, a)) /\ Len(Displaced(p, a)) <= 1
          /\ Enclosed(Displaced(p, a)) = {} /\ Cash(Displaced(p, a)) = lot.bid
      BY <2>1, <2>2
    <2>4. QED
      BY <1>1, <1>2, <1>3, <2>1, <2>3
  <1>6. QED
    BY <1>4, <1>5
LEMMA LenOneTwo ==
  ASSUME NEW d, NEW e, Sendable(d), Sendable(e), Len(d) <= 1, Len(e) = Len(d) + 1
  PROVE  Len(d) <= 2 /\ Len(e) <= 2
  <1>1. Len(d) \in Nat
    BY DEF Sendable
  <1>2. QED
    BY <1>1


LEMMA BidFields ==
  ASSUME NEW r \in Auctioned, NEW p \in Players, NEW n, n \in Nat
  PROVE  /\ Bid(r, p, n) \in Auctioned /\ Bid(r, p, n).item = r.item
         /\ Bid(r, p, n).owner = r.owner /\ Bid(r, p, n).bidder = p
         /\ Bid(r, p, n).bid = n
  BY DEF Auctioned, Bid

LEMMA AuctionWorth ==
  ASSUME NEW lot \in Auctioned
  PROVE  /\ Worth(lot) = lot.bid + Deposit /\ lot # NoLot
         /\ Worth(NoLot) = 0 /\ Deposit \in Nat /\ Cut \in Nat /\ Buyout \in Nat
  <1>1. lot.item # NoLot.item
    BY HoldingsConstants DEF Auctioned, NoLot
  <1>2. QED
    BY <1>1, AuctionConstants DEF Worth

LEMMA PaysAuction ==
  ASSUME EconomyInv, NEW p \in online, NEW c \in Nat, money[p] >= c,
         money' = [money EXCEPT ![p] = Modified(money[p], -c)]
  PROVE  /\ money' = [money EXCEPT ![p] = money[p] - c] /\ money[p] - c \in 0..Cap
         /\ money[p] \in Int
  <1>1. money[p] \in 0..Cap
    BY Carried
  <1>2. Modified(money[p], -c) = money[p] - c /\ money[p] - c \in 0..Cap
    BY <1>1, PaysExactly
  <1>3. money' = [money EXCEPT ![p] = money[p] - c]
    BY <1>2
  <1>4. money[p] \in Int
    BY <1>1, HoldingsConstants
  <1>5. QED
    BY <1>2, <1>3, <1>4

LEMMA BidInv ==
  ASSUME EconomyInv, NEW p \in online, NEW a \in Lots, NEW amount \in Nat,
         PlaceBid(p, a, amount), UNCHANGED trade
  PROVE  EconomyInv'
  <1> DEFINE old == auctions[a]
             lot == [old EXCEPT !.bidder = p, !.bid = amount]
             ls == Displaced(p, a)
             c == Price(p, a, amount)
             v == money[p] - c
             L == [x \in {a} |-> lot]
  <1>1. /\ MayBid(p, a, amount) /\ RoomFor(1) /\ RoomForMails(Len(ls))
        /\ auctions' = [auctions EXCEPT ![a] = lot]
        /\ money' = [money EXCEPT ![p] = Modified(money[p], -c)]
        /\ queue' = Append(queue, Saving(Mailed([Blank EXCEPT !.lot = L], ls),
                                         {p}, money', net, NothingQueued))
        /\ box' = Delivered(box, ls)
        /\ online' = online /\ net' = net /\ items' = items /\ disk' = disk
        /\ gone' = gone /\ aitems' = aitems /\ due' = due /\ trade' = trade
    BY DEF PlaceBid, Post
  <1>2. /\ Listed(a) /\ p \in Players
    BY <1>1, Carried DEF MayBid
  <1>3. /\ c \in Nat /\ money[p] >= c
        /\ Sendable(ls) /\ Enclosed(ls) = {} /\ Cash(ls) - c = old.bid - amount
        /\ Cash(ls) \in Int
    BY <1>1, BidPays
  <1>4. old \in Auctioned /\ old.bid \in Nat
    BY <1>2, ListedLot
  <1> HIDE DEF old
  <1>5. /\ lot \in Auctioned /\ lot.item = old.item /\ lot.bidder = p /\ lot.bid = amount
    <2>1. lot = Bid(old, p, amount)
      BY DEF Bid
    <2> HIDE DEF lot
    <2>2. QED
      BY <1>2, <1>4, <2>1, BidFields
  <1> HIDE DEF lot, c, ls
  <1>6. /\ money' = [money EXCEPT ![p] = v] /\ v \in 0..Cap /\ money[p] \in Int
    BY <1>1, <1>3, PaysAuction
  <1>7. LotPosted(p, v, a, lot, ls, 0)
    <2>1. [Blank EXCEPT !.lot = L] = [Blank EXCEPT !.lot = L, !.fees = 0]
      <3> HIDE DEF L
      <3>1. [Blank EXCEPT !.lot = L]
              = Trans(None, None, None, None, None, {}, None, {}, L, 0)
        BY BlankWrites, Zenon
      <3>2. [Blank EXCEPT !.lot = L, !.fees = 0]
              = Trans(None, None, None, None, None, {}, None, {}, L, 0)
        BY BlankWrites, Zenon
      <3>3. QED
        BY <3>1, <3>2
    <2>2. aitems \ Enclosed(ls) = aitems
      BY <1>3
    <2>3. queue' = Append(queue, Saving(Mailed([Blank EXCEPT !.lot = L, !.fees = 0], ls),
                                        {p}, money', net, NothingQueued))
      BY <1>1, <2>1
    <2> HIDE DEF v
    <2>4. QED
      BY <1>1, <1>6, <2>2, <2>3 DEF LotPosted
  <1>8. Bought(old, lot, ls)
    <2>1. p # Nobody
      BY <1>2, HoldingsConstants
    <2>2. QED
      BY <1>3, <1>5, <2>1 DEF Bought
  <1>9. (v - money[p]) + Cash(ls) + (Worth(lot) - Worth(old)) + 0 = 0
    <2>1. Worth(lot) = amount + Deposit /\ Worth(old) = old.bid + Deposit /\ Deposit \in Nat
      BY <1>4, <1>5, AuctionWorth
    <2>2. QED
      BY <1>3, <1>4, <1>6, <2>1
  <1>10. old = auctions[a] /\ v \in 0..Cap /\ 0 \in Int
    BY <1>6 DEF old
  <1> HIDE DEF v
  <1>11. QED
    BY <1>2, <1>3, <1>7, <1>8, <1>9, <1>10, LotStep

(* Buying and cancelling end the auction: the item goes into a letter.      *)
LEMMA BuyInv ==
  ASSUME EconomyInv, NEW p \in online, NEW a \in Lots, BuyNow(p, a), UNCHANGED trade
  PROVE  EconomyInv'
  <1> DEFINE old == auctions[a]
             lot == [old EXCEPT !.bidder = p, !.bid = Buyout]
             D == Displaced(p, a)
             ls == D \o SuccessfulMail(lot) \o WonMail(lot)
             c == Price(p, a, Buyout)
             v == money[p] - c
             L == [x \in {a} |-> NoLot]
  <1>1. /\ MayBid(p, a, Buyout) /\ RoomFor(1) /\ RoomForMails(Len(ls))
        /\ money' = [money EXCEPT ![p] = Modified(money[p], -c)]
        /\ queue' = Append(queue, Saving(Mailed([Blank EXCEPT !.lot = L, !.fees = Cut], ls),
                                         {p}, money', net, NothingQueued))
        /\ box' = Delivered(box, ls)
        /\ aitems' = aitems \ {lot.item}
        /\ auctions' = [auctions EXCEPT ![a] = NoLot]
        /\ online' = online /\ net' = net /\ items' = items /\ disk' = disk
        /\ gone' = gone /\ due' = due /\ trade' = trade
    BY DEF BuyNow, Post
  <1>2. Listed(a) /\ p \in Players /\ Buyout \in Nat
    BY <1>1, Carried, AuctionConstants DEF MayBid
  <1>3. /\ c \in Nat /\ money[p] >= c
        /\ Sendable(D) /\ Len(D) <= 1 /\ Enclosed(D) = {} /\ Cash(D) - c = old.bid - Buyout
        /\ Cash(D) \in Int
    BY <1>1, <1>2, BidPays
  <1>4. /\ old \in Auctioned /\ old.bid \in Nat /\ old.owner \in Players
        /\ old.item \in Items /\ old.item \in aitems
    BY <1>2, ListedLot
  <1> HIDE DEF old
  <1>5. /\ lot \in Auctioned /\ lot.item = old.item /\ lot.owner = old.owner
        /\ lot.bidder = p /\ lot.bid = Buyout
    <2>1. lot = Bid(old, p, Buyout)
      BY DEF Bid
    <2> HIDE DEF lot
    <2>2. QED
      BY <1>2, <1>4, <2>1, BidFields
  <1> HIDE DEF lot, c
  <1>6. /\ money' = [money EXCEPT ![p] = v] /\ v \in 0..Cap /\ money[p] \in Int
    BY <1>1, <1>3, PaysAuction
  <1>7. Cut \in Nat /\ Deposit \in Nat
    BY AuctionConstants
  <1>8. /\ Sendable(ls) /\ Enclosed(ls) = {old.item}
        /\ Cash(ls) = Cash(D) + (Buyout + Deposit - Cut)
    <2> DEFINE g == Buyout + Deposit - Cut
               A == D \o SuccessfulMail(lot)
    <2>1. SuccessfulMail(lot) = FromHouse(old.owner, g, {})
      BY <1>5 DEF SuccessfulMail
    <2>2. g \in Int /\ {} \in SUBSET Items /\ {} \cap Enclosed(D) = {} /\ Len(D) <= 2
      BY <1>2, <1>3, <1>7, LenOneTwo
    <2>3. WonMail(lot) = FromHouse(p, 0, {old.item})
      BY <1>4, <1>5 DEF WonMail, Known, WonIsSent
    <2> HIDE DEF g, D
    <2>4. /\ Sendable(A) /\ Len(A) = Len(D) + 1 /\ Cash(A) = Cash(D) + g
          /\ Enclosed(A) = Enclosed(D) \cup {}
      BY <1>3, <1>4, <2>1, <2>2, HouseSends
    <2>5. ls = A \o WonMail(lot)
      OBVIOUS
    <2> HIDE DEF A, ls
    <2>6. {old.item} \in SUBSET Items /\ {old.item} \cap Enclosed(A) = {} /\ Len(A) <= 2
      BY <1>3, <1>4, <2>4, LenOneTwo
    <2>7. /\ Sendable(A \o FromHouse(p, 0, {old.item}))
          /\ Cash(A \o FromHouse(p, 0, {old.item})) = Cash(A) + 0
          /\ Enclosed(A \o FromHouse(p, 0, {old.item})) = Enclosed(A) \cup {old.item}
      BY <1>2, <2>4, <2>6, HouseSends
    <2>8. Cash(A) \in Int
      BY <2>4, CashType
    <2>9. ls = A \o FromHouse(p, 0, {old.item})
      BY <2>3, <2>5
    <2>10. Sendable(ls) /\ Enclosed(ls) = {old.item}
      BY <1>3, <2>4, <2>7, <2>9
    <2>11. Cash(ls) = Cash(D) + g
      BY <2>4, <2>7, <2>8, <2>9
    <2>12. QED
      BY <2>10, <2>11 DEF g
  <1> HIDE DEF ls, D
  <1>9. LotPosted(p, v, a, NoLot, ls, Cut)
    <2>1. aitems \ Enclosed(ls) = aitems \ {lot.item}
      BY <1>5, <1>8
    <2> HIDE DEF v
    <2>2. QED
      BY <1>1, <1>6, <2>1 DEF LotPosted
  <1>10. Bought(old, NoLot, ls)
    BY <1>8 DEF Bought
  <1>11. (v - money[p]) + Cash(ls) + (Worth(NoLot) - Worth(old)) + Cut = 0
    <2>1. Worth(NoLot) = 0 /\ Worth(old) = old.bid + Deposit
      BY <1>4, AuctionWorth
    <2>2. Cash(ls) = Cash(D) + (Buyout + Deposit - Cut) /\ Cash(D) - c = old.bid - Buyout
      BY <1>3, <1>8
    <2>3. /\ Cash(D) \in Int /\ c \in Int /\ old.bid \in Int /\ Buyout \in Int
          /\ Cut \in Int /\ Deposit \in Int /\ money[p] \in Int
      BY <1>2, <1>3, <1>4, <1>6, <1>7
    <2>4. v - money[p] = -c
      BY <2>3
    <2> HIDE DEF v
    <2>5. QED
      BY <2>1, <2>2, <2>3, <2>4
  <1>12. old = auctions[a] /\ v \in 0..Cap /\ Cut \in Int
    BY <1>6, <1>7 DEF old
  <1> HIDE DEF v
  <1>13. QED
    BY <1>2, <1>8, <1>9, <1>10, <1>11, <1>12, LotStep
LEMMA CancelInv ==
  ASSUME EconomyInv, NEW p \in online, NEW a \in Lots, CancelAuction(p, a), UNCHANGED trade
  PROVE  EconomyInv'
  <1> DEFINE old == auctions[a]
             c == IF old.bidder = Nobody THEN 0 ELSE Cut
             D == OutbidMail(old)
             ls == D \o ExpiredMail(old)
             fe == c + Deposit
             v == money[p] - c
             L == [x \in {a} |-> NoLot]
  <1>1. /\ Listed(a) /\ money[p] >= c /\ RoomFor(1) /\ RoomForMails(Len(ls))
        /\ money' = [money EXCEPT ![p] = Modified(money[p], -c)]
        /\ queue' = Append(queue, Saving(Mailed([Blank EXCEPT !.lot = L, !.fees = fe], ls),
                                         {p}, money', net, NothingQueued))
        /\ box' = Delivered(box, ls)
        /\ aitems' = aitems \ {old.item}
        /\ auctions' = [auctions EXCEPT ![a] = NoLot]
        /\ online' = online /\ net' = net /\ items' = items /\ disk' = disk
        /\ gone' = gone /\ due' = due /\ trade' = trade
    BY DEF CancelAuction, Post
  <1>2. c \in Nat /\ Cut \in Nat /\ Deposit \in Nat
    BY AuctionConstants
  <1>3. /\ old \in Auctioned /\ old.bid \in Nat /\ old.owner \in Players
        /\ old.item \in Items /\ old.item \in aitems
        /\ old.bidder = Nobody => old.bid = 0
    BY <1>1, ListedLot
  <1> HIDE DEF old, c
  <1>4. /\ money' = [money EXCEPT ![p] = v] /\ v \in 0..Cap /\ money[p] \in Int
    BY <1>1, <1>2, PaysAuction
  <1>5. /\ Sendable(ls) /\ Enclosed(ls) = {old.item} /\ Cash(ls) = old.bid
    <2>1. ExpiredMail(old) = FromHouse(old.owner, 0, {old.item})
      BY <1>3 DEF ExpiredMail, Known
    <2>2. /\ Sendable(D) /\ Len(D) <= 1 /\ Cash(D) = old.bid /\ Enclosed(D) = {}
      BY <1>3, OutbidLetters
    <2>3. ls = D \o FromHouse(old.owner, 0, {old.item})
      BY <2>1
    <2> HIDE DEF D, ls
    <2>4. Len(D) <= 2
      <3>1. Len(D) \in Nat
        BY <2>2 DEF Sendable
      <3>2. QED
        BY <2>2, <3>1
    <2>5. 0 \in Int /\ {old.item} \in SUBSET Items /\ {old.item} \cap Enclosed(D) = {}
      BY <1>3, <2>2
    <2>6. Sendable(ls) /\ Cash(ls) = Cash(D) + 0 /\ Enclosed(ls) = Enclosed(D) \cup {old.item}
      BY <1>3, <2>2, <2>3, <2>4, <2>5, HouseSends
    <2>7. Enclosed(ls) = {old.item}
      BY <2>2, <2>6
    <2>8. Cash(ls) = old.bid
      BY <1>3, <2>2, <2>6
    <2>9. QED
      BY <2>6, <2>7, <2>8
  <1> HIDE DEF ls, D
  <1>6. fe \in Int /\ v - money[p] = -c
    BY <1>2, <1>4
  <1>7. (v - money[p]) + Cash(ls) + (Worth(NoLot) - Worth(old)) + fe = 0
    <2>1. Worth(NoLot) = 0 /\ Worth(old) = old.bid + Deposit
      BY <1>3, AuctionWorth
    <2>2. fe = c + Deposit /\ old.bid \in Int /\ c \in Int /\ Deposit \in Int
      BY <1>2, <1>3
    <2> HIDE DEF v, fe
    <2>3. QED
      BY <1>5, <1>6, <2>1, <2>2
  <1> HIDE DEF v, fe
  <1>8. LotPosted(p, v, a, NoLot, ls, fe)
    <2>1. aitems \ Enclosed(ls) = aitems \ {old.item}
      BY <1>5
    <2>2. QED
      BY <1>1, <1>4, <2>1 DEF LotPosted
  <1>9. Bought(old, NoLot, ls)
    BY <1>5 DEF Bought
  <1>10. old = auctions[a]
    BY DEF old
  <1>11. QED
    BY <1>1, <1>4, <1>5, <1>6, <1>7, <1>8, <1>9, <1>10, LotStep

(* A sale that fails gives the deposit to the world.                        *)
LEMMA SellFailsInv ==
  ASSUME EconomyInv, NEW p \in online, NEW i, SellFails(p, i), UNCHANGED trade
  PROVE  EconomyInv'
  <1> DEFINE c == -Deposit
  <1>1. /\ money[p] \in 0..Cap /\ money[p] \in Int /\ net[p] \in Int
        /\ Deposit \in Nat /\ money[p] >= Deposit
    <2>1. p \in Players /\ net \in [Players -> Int]
      BY DEF EconomyInv, MemoryTyped
    <2> QED
      BY <2>1, Carried, AuctionConstants DEF SellFails
  <1>2. /\ Modified(money[p], -Deposit) = money[p] + c /\ money[p] + c \in 0..Cap
        /\ net[p] - Deposit = net[p] + c /\ c \in Int
    <2>1. /\ Modified(money[p], -Deposit) = money[p] - Deposit
          /\ money[p] - Deposit \in 0..Cap
      BY <1>1, PaysExactly
    <2> QED
      BY <1>1, <2>1
  <1>3. /\ money' = [money EXCEPT ![p] = Modified(money[p], -Deposit)]
        /\ net' = [net EXCEPT ![p] = net[p] - Deposit]
    BY DEF SellFails
  <1>4. UNCHANGED <<online, items, disk, queue, mailbox, house, trade>>
    BY DEF SellFails
  <1> HIDE DEF c
  <1>5. money' = [money EXCEPT ![p] = money[p] + c] /\ net' = [net EXCEPT ![p] = net[p] + c]
    BY <1>2, <1>3
  <1> QED
    BY <1>2, <1>4, <1>5, FromWorldInv

LEMMA AuctionInv ==
  ASSUME EconomyInv, NEW p \in online, AuctionStep(p, Gold), UNCHANGED trade
  PROVE  EconomyInv'
  <1>1. Gold \subseteq Nat
    BY EconomyConstants
  <1>2. CASE \E i \in items[p] : SellItem(p, i)
    BY <1>2, SellInv
  <1>3. CASE \E a \in Lots, amount \in Gold \ {0} : PlaceBid(p, a, amount)
    <2>1. PICK a \in Lots, amount \in Gold \ {0} : PlaceBid(p, a, amount)
      BY <1>3
    <2>2. amount \in Nat
      BY <1>1
    <2>3. QED
      BY <2>1, <2>2, BidInv
  <1>4. CASE \E a \in Lots : BuyNow(p, a) \/ CancelAuction(p, a)
    BY <1>4, BuyInv, CancelInv
  <1>5. CASE \E i \in items[p] : SellFails(p, i)
    BY <1>5, SellFailsInv
  <1>6. QED
    BY <1>2, <1>3, <1>4, <1>5 DEF AuctionStep
-----------------------------------------------------------------------------

LEMMA LettersRows ==
  ASSUME NEW s, NEW bx, NEW ls, NEW e, NEW gn, MailTyped(s), Sendable(ls),
         Fresh(s, bx, ls), Sent(s, e, ls), BoxesOK(s, bx, online, gn),
         Items \ e.kept \subseteq gn
  PROVE  /\ MailTyped(e) /\ MailSum(e) = MailSum(s) + Cash(ls)
         /\ MailsSame(s, e) /\ StillLoaded(bx, ls)
         /\ BoxesOK(e, Delivered(bx, ls), online, gn)
  <1>4. ASSUME NEW p \in Players
        PROVE  /\ BoxOK(e, Delivered(bx, ls)[p], p, gn)
               /\ Delivered(bx, ls)[p].loaded = bx[p].loaded
               /\ p \notin online => Delivered(bx, ls)[p] = NoBox
    <2>1. BoxOK(s, bx[p], p, gn) /\ (p \notin online => bx[p] = NoBox)
      BY DEF BoxesOK
    <2>2. bx[p].loaded => p \in online
      BY <2>1 DEF NoBox
    <2>3. BoxOK(e, Delivered(bx, ls)[p], p, gn)
      BY <2>1, <2>2, SentDelivered
    <2>4. p \notin online => Delivered(bx, ls)[p] = NoBox
      BY <2>1 DEF Delivered
    <2>5. Delivered(bx, ls)[p].loaded = bx[p].loaded
      <3>1. bx[p] = [loaded |-> bx[p].loaded, mails |-> bx[p].mails,
                     missed |-> bx[p].missed]
        BY <2>1 DEF BoxOK, BoxShape
      <3>2. QED
        BY <3>1 DEF Delivered
    <2>6. QED
      BY <2>3, <2>4, <2>5
  <1>6. Delivered(bx, ls) = [p \in Players |-> Delivered(bx, ls)[p]]
    BY DEF Delivered
  <1>7. BoxesOK(e, Delivered(bx, ls), online, gn)
    BY <1>4, <1>6 DEF BoxesOK
  <1>8. MailTyped(e)
    BY SentTyped
  <1>9. MailsSame(s, e)
    BY SentSame DEF MailsSame
  <1>10. MailSum(e) = MailSum(s) + Cash(ls)
    BY SentSum DEF Cash
  <1>11. QED
    BY <1>4, <1>7, <1>8, <1>9, <1>10 DEF StillLoaded

(* Two transactions in a row.                                               *)
LEMMA PostTwo ==
  ASSUME EconomyInv, NEW u, NEW t, NEW d, NEW e, d = Execute(Settled, u), e = Execute(d, t),
         u.login = Nobody, t.login = Nobody,
         disk' = disk, queue' = Append(Append(queue, u), t), RoomFor(2),
         Sound(d), Sound(e), online' = online,
         PursesSame(Settled, d), MailsSame(Settled, d), PursesSame(d, e), MailsSame(d, e),
         \A p \in online' : ~box'[p].loaded => ~box[p].loaded,
         MemoryTyped(online', money', net', items'),
         PursesAgree(e, online', money', net', items'),
         BoxesOK(e, box', online', gone'),
         HouseOK(e, auctions', aitems', due'),
         TradesOK(trade', online')
  PROVE  EconomyInv'
  <1> DEFINE q == Append(queue, u)
  <1> USE DEF PursesSame, MailsSame
  <1>1. /\ IsQueue(queue) /\ Len(queue) \in Nat /\ Settled = Final(disk, queue)
        /\ RowsSound(disk, queue) /\ LoginsWait(disk, queue, online)
        /\ Unread(disk, queue, online, box) /\ online \subseteq Players
    BY SettledSound DEF EconomyInv, MemoryTyped
  <1>2. IsQueue(q) /\ Len(q) = Len(queue) + 1 /\ Final(disk, q) = d
    BY <1>1, QueueGrows, FinalNext
  <1>3. RowsSound(disk, q)
    BY <1>1, PostKeepsRows
  <1>4. LoginsWait(disk, q, online)
    BY <1>1, PostKeepsLogins
  <1>5. Unread(disk, q, online, box)
    <2>1. \A p \in online : ~box[p].loaded =>
              /\ p \in online /\ ~box[p].loaded
              /\ SameMails(Final(disk, queue), Execute(Final(disk, queue), u), p)
      BY <1>1
    <2>2. QED
      BY <1>1, <2>1, PostKeepsUnread
  <1> HIDE DEF q
  <1>6. queue' = Append(q, t)
    BY DEF q
  <1>7. IsQueue(queue') /\ Len(queue') = Len(q) + 1 /\ Final(disk, queue') = e
    BY <1>2, <1>6, QueueGrows, FinalNext
  <1>8. Len(queue') <= MaxPending
    BY <1>1, <1>2, <1>7 DEF RoomFor
  <1>9. Settled' = e
    BY <1>7 DEF Settled, Final
  <1>10. RowsSound(disk', queue')
    BY <1>2, <1>3, <1>6, PostKeepsRows
  <1>11. LoginsWait(disk', queue', online')
    BY <1>2, <1>4, <1>6, PostKeepsLogins
  <1>12. Unread(disk', queue', online', box')
    <2>1. \A p \in online' : ~box'[p].loaded =>
              /\ p \in online /\ ~box[p].loaded
              /\ SameMails(Final(disk, q), Execute(Final(disk, q), t), p)
      BY <1>1, <1>2
    <2>2. Unread(disk, Append(q, t), online', box')
      BY <1>2, <1>5, <2>1, PostKeepsUnread
    <2>3. QED
      BY <1>6, <2>2
  <1>13. QED
    BY <1>7, <1>8, <1>9, <1>10, <1>11, <1>12 DEF EconomyInv

LEMMA SweepRows ==
  ASSUME NEW s, NEW a \in Lots, NEW old, NEW ls, NEW fe, NEW gn, NEW t, NEW e,
         Settling(s, a, old, ls, fe), BoxesOK(s, box, online, gn),
         t = EndTrans(a, ls, fe), e = Execute(s, t)
  PROVE  /\ Sound(e) /\ t.login = Nobody
         /\ PursesSame(s, e) /\ MailsSame(s, e) /\ StillLoaded(box, ls)
         /\ BoxesOK(e, Delivered(box, ls), online, gn)
         /\ OneLot(s, e, a, NoLot) /\ e.kept = s.kept
         /\ e.money = s.money /\ e.net = s.net /\ e.row = s.row
  <1> DEFINE L == [x \in {a} |-> NoLot]
  <1>1. /\ Sound(s) /\ s.lot[a] = old /\ old \in Auctioned /\ LotsOf(s, old.item) = {a}
        /\ Sendable(ls) /\ Fresh(s, box, ls)
        /\ fe \in Int /\ Cash(ls) - (old.bid + Deposit) + fe = 0
    BY DEF Settling
  <1>2. s \in Database /\ \A i \in Items : Placed(s, i)
    BY <1>1 DEF Sound, OnePlace
  <1>3. t = Trans(None, None, None, NewRows(ls), None, {}, NewAttached(ls), {}, L, fe)
    <2>1. t = Mailed([Blank EXCEPT !.lot = L, !.fees = fe], ls)
      BY DEF EndTrans
    <2> HIDE DEF L
    <2>2. [Blank EXCEPT !.lot = L, !.fees = fe]
            = Trans(None, None, None, None, None, {}, None, {}, L, fe)
      BY BlankWrites, Zenon
    <2>3. t = Mailed(Trans(None, None, None, None, None, {}, None, {}, L, fe), ls)
      BY <2>1, <2>2
    <2>4. QED
      BY <2>3, OneMailed
  <1>4. t.login = Nobody
    BY <1>3 DEF Trans
  <1>5. DOMAIN None = {} /\ DOMAIN L \subseteq Lots
    BY DEF None
  <1>6. Executed(s, e, None, None, None, NewRows(ls), None, {}, NewAttached(ls), {}, L, fe)
    <2> HIDE DEF L
    <2>1. e = Execute(s, Trans(None, None, None, NewRows(ls), None, {}, NewAttached(ls),
                               {}, L, fe))
      BY <1>3
    <2>2. DOMAIN None \subseteq Players /\ DOMAIN None \subseteq Items
      BY <1>5
    <2>3. QED
      BY <1>2, <1>5, <2>1, <2>2, ExecuteParts
  <1>7. Sent(s, e, ls)
    BY <1>6, SentRows
  <1>8. /\ e = [money |-> e.money, net |-> e.net, row |-> e.row, mail |-> e.mail,
                attach |-> e.attach, kept |-> e.kept, lot |-> e.lot, fees |-> e.fees]
        /\ e.money = [p \in Players |-> s.money[p]]
        /\ e.net = [p \in Players |-> s.net[p]]
        /\ e.row = [i \in Items |-> s.row[i]]
        /\ e.kept = s.kept
        /\ e.lot = [b \in Lots |-> IF b \in DOMAIN L THEN L[b] ELSE s.lot[b]]
        /\ e.fees = s.fees + fe
    BY <1>5, <1>6 DEF Executed
  <1>9. e.money = s.money /\ e.net = s.net /\ e.row = s.row
    BY <1>2, <1>8 DEF Database
  <1>10. OneLot(s, e, a, NoLot)
    BY <1>8 DEF OneLot
  <1>11. MailTyped(s)
    BY <1>1 DEF MailTyped, Sound, Proper, Database
  <1>12. Items \ e.kept \subseteq gn
    BY <1>8 DEF BoxesOK
  <1>13. /\ MailTyped(e) /\ MailSum(e) = MailSum(s) + Cash(ls)
         /\ MailsSame(s, e) /\ StillLoaded(box, ls)
         /\ BoxesOK(e, Delivered(box, ls), online, gn)
    BY <1>1, <1>7, <1>11, <1>12, LettersRows
  <1>14. PursesSame(s, e)
    BY <1>9 DEF PursesSame, SamePurse, Bag
  <1>15. OnePlace(e)
    <2>1. /\ \A x \in Enclosed(ls) : x \in Items /\ e.attach[x] \in MailIds
          /\ \A x \in Items \ Enclosed(ls) : e.attach[x] = s.attach[x]
      BY <1>1, <1>7, EnclosedPlaced
    <2>2. old.item \in Items /\ old.item # Nobody
      BY <1>1, HoldingsConstants DEF Auctioned
    <2>3. Placed(e, old.item)
      <3>1. NoLot.item = Nobody
        BY DEF NoLot
      <3>2. LotsOf(e, old.item) = {}
        BY <1>1, <1>10, <2>2, <3>1, LotsOfGone
      <3>3. CASE Enclosed(ls) = {old.item} /\ old.item \in s.kept /\ s.row[old.item] = Nobody
        <4>1. e.attach[old.item] \in MailIds /\ old.item \in e.kept /\ e.row[old.item] = Nobody
          BY <1>8, <1>9, <2>1, <3>3
        <4>2. QED
          BY <3>2, <4>1 DEF Placed
      <3>4. CASE Enclosed(ls) = {} /\ old.item \notin s.kept
        <4>1. /\ e.attach[old.item] = s.attach[old.item] /\ old.item \notin e.kept
              /\ e.row[old.item] = s.row[old.item] /\ Placed(s, old.item)
          BY <1>2, <1>8, <1>9, <2>1, <2>2, <3>4
        <4>2. QED
          BY <3>4, <4>1 DEF Placed
      <3>5. QED
        BY <3>3, <3>4 DEF Settling
    <2>4. ASSUME NEW x \in Items, x # old.item
          PROVE  Placed(e, x)
      <3>1. x # Nobody /\ x \notin Enclosed(ls)
        BY <2>4, HoldingsConstants DEF Settling
      <3>2. x = s.lot[a].item <=> x = NoLot.item
        BY <1>1, <2>4, <3>1 DEF NoLot
      <3>3. LotsOf(e, x) = LotsOf(s, x)
        BY <1>10, <3>2, LotsOfSame
      <3>4. e.row[x] = s.row[x] /\ e.attach[x] = s.attach[x]
        BY <1>9, <2>1, <3>1
      <3>5. QED
        BY <1>2, <1>8, <3>3, <3>4, PlacedSame
    <2>5. QED
      BY <2>3, <2>4 DEF OnePlace
  <1>16. BagsFit(e)
    BY <1>1, <1>9 DEF Sound, BagsFit, Bag
  <1>17. /\ e.lot \in [Lots -> Auctioned \cup {NoLot}]
         /\ \A b \in Lots : e.lot[b].bidder = Nobody => e.lot[b].bid = 0
    <2>1. /\ s.lot \in [Lots -> Auctioned \cup {NoLot}]
          /\ \A b \in Lots : s.lot[b].bidder = Nobody => s.lot[b].bid = 0
      BY <1>1 DEF Sound, Database, Proper
    <2>2. NoLot.bid = 0
      BY DEF NoLot
    <2>3. e.lot = [b \in Lots |-> e.lot[b]]
      BY <1>8
    <2>4. \A b \in Lots : e.lot[b] = s.lot[b] \/ e.lot[b] = NoLot
      BY <1>10 DEF OneLot
    <2> HIDE DEF L
    <2>5. QED
      BY <2>1, <2>2, <2>3, <2>4
  <1>18. PurseSum(e) + MailSum(e) + LotSum(e) + e.fees
           = PurseSum(s) + MailSum(s) + LotSum(s) + s.fees
    <2>1. PurseSum(e) = PurseSum(s)
      BY <1>9 DEF PurseSum
    <2>2. LotSum(e) = (LotSum(s) - Worth(s.lot[a])) + Worth(NoLot)
      BY <1>2, <1>10, LotPut
    <2>3. Worth(s.lot[a]) = old.bid + Deposit /\ Worth(NoLot) = 0
      BY <1>1, AuctionWorth
    <2>4. PurseSum(s) \in Int /\ MailSum(s) \in Int /\ LotSum(s) \in Int /\ s.fees \in Int
      BY <1>2, SumTypes
    <2>5. old.bid \in Int /\ Deposit \in Int /\ Cash(ls) \in Int
      BY <1>1, CashType, AuctionConstants DEF Auctioned
    <2>6. MailSum(e) = MailSum(s) + Cash(ls) /\ e.fees = s.fees + fe
      BY <1>8, <1>13
    <2>7. Cash(ls) - (old.bid + Deposit) + fe = 0 /\ fe \in Int
      BY <1>1
    <2>8. LotSum(e) = LotSum(s) - (old.bid + Deposit)
      BY <2>2, <2>3, <2>4, <2>5
    <2>9. FourMove(PurseSum(s), MailSum(s), LotSum(s), s.fees,
                   PurseSum(e), MailSum(e), LotSum(e), e.fees, 0, 0, Cash(ls), fe)
      <3>1. /\ LotSum(e) \in Int /\ (0 - 0) + Cash(ls) + (LotSum(e) - LotSum(s)) + fe = 0
        BY <2>4, <2>5, <2>7, <2>8
      <3>2. PurseSum(e) = PurseSum(s) + (0 - 0)
        BY <2>1, <2>4
      <3>3. QED
        BY <2>4, <2>5, <2>6, <2>7, <3>1, <3>2 DEF FourMove
    <2>10. QED
      BY <2>9, FourSums
  <1>19. /\ e.money \in [Players -> 0..Cap] /\ e.net \in [Players -> Int]
         /\ e.row \in [Items -> Players \cup {Nobody}]
         /\ e.kept \in SUBSET Items /\ e.fees \in Int
    BY <1>1, <1>2, <1>8, <1>9 DEF Database
  <1>20. Sound(e)
    BY <1>1, <1>8, <1>13, <1>15, <1>16, <1>17, <1>18, <1>19, SoundParts
  <1>21. QED
    BY <1>4, <1>8, <1>9, <1>10, <1>13, <1>14, <1>20

LEMMA HouseEnd ==
  ASSUME NEW s, NEW e, NEW au, NEW ai, NEW du, HouseOK(s, au, ai, du), NEW a \in Lots,
         OneLot(s, e, a, NoLot),
         \A b \in Lots \ {a} : s.lot[b].item \in s.kept <=> s.lot[b].item \in e.kept,
         NEW ai2, ai2 \subseteq Items, NEW du2, du2 \subseteq Lots,
         \A b \in Lots \ {a} : au[b] # NoLot => au[b].item \in ai2
  PROVE  HouseOK(e, [au EXCEPT ![a] = NoLot], ai2, du2)
  <1>1. au = LoadedAuctions(s)
    BY DEF HouseOK
  <1>2. [au EXCEPT ![a] = NoLot] = [b \in Lots |-> IF b = a THEN NoLot ELSE au[b]]
    BY <1>1 DEF LoadedAuctions
  <1>3. ASSUME NEW b \in Lots
        PROVE  (IF b = a THEN NoLot ELSE au[b])
                 = IF e.lot[b].item \in e.kept THEN e.lot[b] ELSE NoLot
    <2>1. CASE b = a
      BY <2>1 DEF OneLot
    <2>2. CASE b # a
      BY <1>1, <2>2 DEF LoadedAuctions, OneLot
    <2>3. QED
      BY <2>1, <2>2
  <1>4. LoadedAuctions(e) = [b \in Lots |-> IF b = a THEN NoLot ELSE au[b]]
    BY <1>3 DEF LoadedAuctions
  <1>5. \A b \in Lots : (IF b = a THEN NoLot ELSE au[b]) # NoLot
                          => (IF b = a THEN NoLot ELSE au[b]).item \in ai2
    OBVIOUS
  <1>6. QED
    BY <1>2, <1>4, <1>5 DEF HouseOK

(* Letters to be sent from the state have ids of their own.                 *)
LEMMA FreshSettled ==
  ASSUME EconomyInv, NEW ls, Sendable(ls), RoomForMails(Len(ls)),
         \A i \in Enclosed(ls) : Settled.attach[i] = Nobody
  PROVE  Fresh(Settled, box, ls)
  BY LetterIds DEF Fresh

(* The letters that end an auction.                                         *)
LEMMA EndingLetters ==
  ASSUME EconomyInv, NEW a \in Lots, Listed(a), NEW old, old = auctions[a],
         NEW fe, fe = IF old.bidder = Nobody THEN Deposit ELSE Cut
  PROVE  /\ Sendable(Ending(a)) /\ fe \in Int
         /\ Cash(Ending(a)) - (old.bid + Deposit) + fe = 0
         /\ ~Destroyed(old) => Enclosed(Ending(a)) = {old.item}
         /\ Destroyed(old) => Enclosed(Ending(a)) = {} /\ old.bidder \notin online
                              /\ old.bidder # Nobody
  <1>1. /\ old \in Auctioned /\ old.bid \in Nat /\ old.owner \in Players
        /\ old.item \in Items /\ Known(old) /\ old.bidder \in Players \cup {Nobody}
        /\ old.bidder = Nobody => old.bid = 0
    BY ListedLot
  <1>2. Cut \in Nat /\ Deposit \in Nat /\ fe \in Int
    BY AuctionConstants
  <1>3. CASE old.bidder = Nobody
    <2>1. Ending(a) = FromHouse(old.owner, 0, {old.item})
      BY <1>1, <1>3 DEF Ending, ExpiredMail
    <2>2. 0 \in Int /\ {old.item} \in SUBSET Items
      BY <1>1
    <2>3. /\ Sendable(Ending(a)) /\ Cash(Ending(a)) = 0
          /\ Enclosed(Ending(a)) = {old.item}
      BY <1>1, <2>1, <2>2, HouseSendsOne
    <2>4. old.bid = 0 /\ fe = Deposit
      BY <1>1, <1>3
    <2>5. Cash(Ending(a)) - (old.bid + Deposit) + fe = 0
      BY <1>2, <2>3, <2>4
    <2>6. ~Destroyed(old)
      BY <1>3 DEF Destroyed
    <2>7. QED
      BY <1>2, <2>3, <2>5, <2>6
  <1>4. CASE old.bidder # Nobody
    <2> DEFINE g == old.bid + Deposit - Cut
               S == FromHouse(old.owner, g, {})
    <2>1. g \in Int /\ {} \in SUBSET Items /\ fe = Cut /\ old.bidder \in Players
      BY <1>1, <1>2, <1>4
    <2>2. Ending(a) = S \o WonMail(old)
      BY <1>4 DEF Ending, SuccessfulMail
    <2>3. g - (old.bid + Deposit) + fe = 0
      BY <1>1, <1>2, <2>1
    <2> HIDE DEF g
    <2>4. /\ Sendable(S) /\ Len(S) = 1 /\ Cash(S) = g /\ Enclosed(S) = {}
      BY <1>1, <2>1, HouseSendsOne
    <2> HIDE DEF S
    <2>5. CASE WonIsSent(old)
      <3>1. WonMail(old) = FromHouse(old.bidder, 0, {old.item})
        BY <1>1, <2>5 DEF WonMail
      <3>2. Len(S) <= 2 /\ {old.item} \in SUBSET Items /\ {old.item} \cap Enclosed(S) = {}
            /\ 0 \in Int
        BY <1>1, <2>4
      <3>3. /\ Sendable(Ending(a)) /\ Cash(Ending(a)) = Cash(S) + 0
            /\ Enclosed(Ending(a)) = Enclosed(S) \cup {old.item}
        <4>1. Ending(a) = S \o FromHouse(old.bidder, 0, {old.item})
          BY <2>2, <3>1
        <4>2. /\ Sendable(S \o FromHouse(old.bidder, 0, {old.item}))
              /\ Cash(S \o FromHouse(old.bidder, 0, {old.item})) = Cash(S) + 0
              /\ Enclosed(S \o FromHouse(old.bidder, 0, {old.item}))
                   = Enclosed(S) \cup {old.item}
          <5> DEFINE its == {old.item}
          <5>1. /\ Sendable(S) /\ Len(S) <= 2 /\ old.bidder \in Players
                /\ its \in SUBSET Items /\ its \cap Enclosed(S) = {} /\ 0 \in Int
            BY <2>1, <2>4, <3>2
          <5> HIDE DEF its
          <5>2. /\ Sendable(S \o FromHouse(old.bidder, 0, its))
                /\ Cash(S \o FromHouse(old.bidder, 0, its)) = Cash(S) + 0
                /\ Enclosed(S \o FromHouse(old.bidder, 0, its)) = Enclosed(S) \cup its
            BY ONLY <5>1, HouseSends
          <5>3. QED
            BY <5>2 DEF its
        <4>3. QED
          BY <4>1, <4>2
      <3>4. Cash(Ending(a)) = g /\ Enclosed(Ending(a)) = {old.item}
        BY <2>1, <2>4, <3>3
      <3>5. ~Destroyed(old)
        BY <2>5 DEF Destroyed
      <3>6. QED
        BY <1>2, <2>3, <3>3, <3>4, <3>5
    <2>6. CASE ~WonIsSent(old)
      <3>1. WonMail(old) = << >> /\ old.bidder \notin online
        BY <2>6 DEF WonMail, WonIsSent
      <3>2. Ending(a) = S
        <4>1. S \in Seq(Letters)
          BY <2>4 DEF Sendable
        <4>2. QED
          BY <2>2, <3>1, <4>1
      <3>3. Destroyed(old)
        BY <1>1, <1>4, <2>6 DEF Destroyed
      <3>4. QED
        BY <1>2, <1>4, <2>3, <2>4, <3>1, <3>2, <3>3
    <2>7. QED
      BY <2>5, <2>6
  <1>5. QED
    BY <1>3, <1>4

(* The item of a bidder who is not in the world is deleted first.           *)
LEMMA DestroyRows ==
  ASSUME EconomyInv, NEW a \in Lots, Listed(a), NEW old, old = auctions[a],
         NEW d, d = Execute(Settled, Destroying(old)), NEW gn, gn = gone \cup {old.item}
  PROVE  /\ Sound(d) /\ Destroying(old).login = Nobody
         /\ PursesSame(Settled, d) /\ MailsSame(Settled, d)
         /\ BoxesOK(d, box, online, gn)
         /\ d.kept = Settled.kept \ {old.item} /\ d.lot = Settled.lot
         /\ d.mail = Settled.mail /\ d.attach = Settled.attach
         /\ d.row = Settled.row /\ d.money = Settled.money /\ d.net = Settled.net
  <1>1. /\ old = Settled.lot[a] /\ old.item \in Items
        /\ Settled.row[old.item] = Nobody /\ Settled.attach[old.item] = Nobody
    BY ListedLot
  <1>2. Sound(Settled) /\ Settled \in Database /\ BoxesOK(Settled, box, online, gone)
    BY SettledSound DEF EconomyInv
  <1>3. Destroying(old) = Trans(None, None, None, None, None, {}, None, {old.item}, None, 0)
    BY BlankWrites, Zenon DEF Destroying
  <1>4. Destroying(old).login = Nobody
    BY <1>3 DEF Trans
  <1>5. DOMAIN None = {}
    BY DEF None
  <1>6. Executed(Settled, d, None, None, None, None, None, {}, None, {old.item}, None, 0)
    <2>1. d = Execute(Settled, Trans(None, None, None, None, None, {}, None,
                                     {old.item}, None, 0))
      BY <1>3
    <2>2. /\ DOMAIN None \subseteq Players /\ DOMAIN None \subseteq Items
          /\ DOMAIN None \subseteq Lots
      BY <1>5
    <2>3. QED
      BY <1>2, <2>1, <2>2, ExecuteParts
  <1>7. /\ d = [money |-> d.money, net |-> d.net, row |-> d.row, mail |-> d.mail,
                attach |-> d.attach, kept |-> d.kept, lot |-> d.lot, fees |-> d.fees]
        /\ d.money = [p \in Players |-> Settled.money[p]]
        /\ d.net = [p \in Players |-> Settled.net[p]]
        /\ d.row = [i \in Items |-> Settled.row[i]]
        /\ d.attach = [i \in Items |-> Settled.attach[i]]
        /\ d.kept = Settled.kept \ {old.item}
        /\ d.lot = [b \in Lots |-> Settled.lot[b]]
        /\ d.fees = Settled.fees + 0
    BY <1>5, <1>6 DEF Executed
  <1>8. d.mail = [id \in MailIds |-> Settled.mail[id]]
    BY <1>5, <1>6 DEF Executed
  <1>9. /\ d.money = Settled.money /\ d.net = Settled.net /\ d.row = Settled.row
        /\ d.attach = Settled.attach /\ d.lot = Settled.lot /\ d.fees = Settled.fees
    BY <1>2, <1>7 DEF Database
  <1>10. d.mail = Settled.mail
    BY <1>2, <1>8 DEF Database
  <1>11. OnePlace(d)
    <2>1. Placed(d, old.item)
      BY <1>1, <1>7, <1>9 DEF Placed
    <2>2. ASSUME NEW x \in Items, x # old.item
          PROVE  Placed(d, x)
      <3>1. LotsOf(d, x) = LotsOf(Settled, x)
        BY <1>9 DEF LotsOf
      <3>2. Placed(Settled, x) /\ (x \in d.kept <=> x \in Settled.kept)
        BY <1>2, <1>7, <2>2 DEF Sound, OnePlace
      <3>3. QED
        BY <1>9, <3>1, <3>2, PlacedSame
    <2>3. QED
      BY <2>1, <2>2 DEF OnePlace
  <1>12. BagsFit(d)
    BY <1>2, <1>9 DEF Sound, BagsFit, Bag
  <1>13. Conserved(d)
    BY <1>2, <1>9, <1>10 DEF Sound, Conserved, Wealth
  <1>14. Proper(d)
    BY <1>2, <1>9, <1>10 DEF Sound, Proper
  <1>15. d \in Database
    BY <1>2, <1>7, <1>9, <1>10 DEF Database
  <1>16. Sound(d)
    BY <1>11, <1>12, <1>13, <1>14, <1>15 DEF Sound
  <1>17. PursesSame(Settled, d) /\ MailsSame(Settled, d)
    BY <1>9, <1>10 DEF PursesSame, MailsSame, SamePurse, SameMails, Bag, Attached
  <1>18. BoxesOK(d, box, online, gn)
    <2>1. ASSUME NEW p \in Players
          PROVE  BoxOK(d, box[p], p, gn)
      <3>1. BoxOK(Settled, box[p], p, gone)
        BY <1>2 DEF BoxesOK
      <3>2. BoxShows(d, box[p], p)
        BY <1>9, <1>10, <3>1 DEF BoxOK, BoxShows, Shown, Attached
      <3>3. box[p].loaded => BoxFull(d, box[p], p)
        BY <1>10, <3>1 DEF BoxOK, BoxFull
      <3>4. BoxGone(box[p], gn)
        BY <3>1 DEF BoxOK, BoxGone
      <3>5. QED
        BY <3>1, <3>2, <3>3, <3>4 DEF BoxOK
    <2>2. Items \ d.kept \subseteq gn
      BY <1>2, <1>7 DEF BoxesOK
    <2>3. QED
      BY <1>2, <2>1, <2>2 DEF BoxesOK
  <1>19. QED
    BY <1>4, <1>7, <1>9, <1>10, <1>16, <1>17, <1>18

LEMMA SweepEndInv ==
  ASSUME EconomyInv, NEW a \in Lots, SweepEnd(a), UNCHANGED trade
  PROVE  EconomyInv'
  <1> DEFINE old == auctions[a]
             ls == Ending(a)
             fe == IF old.bidder = Nobody THEN Deposit ELSE Cut
             t == EndTrans(a, ls, fe)
  <1>1. /\ a \in due /\ Listed(a) /\ RoomFor(2) /\ RoomForMails(Len(ls))
        /\ queue' = queue \o (IF Destroyed(old) THEN << Destroying(old), t >> ELSE << t >>)
        /\ box' = Delivered(box, ls)
        /\ aitems' = aitems \ {old.item} \/ aitems' = aitems
        /\ gone' = gone \cup (IF Destroyed(old) /\ old.bidder \notin online
                              THEN {old.item} ELSE {})
        /\ auctions' = [auctions EXCEPT ![a] = NoLot]
        /\ due' = due \ {a}
        /\ online' = online /\ money' = money /\ net' = net /\ items' = items
        /\ disk' = disk /\ trade' = trade
    BY DEF SweepEnd, EndTrans
  <1>2. old = auctions[a] /\ ls = Ending(a)
    OBVIOUS
  <1>3. fe = IF old.bidder = Nobody THEN Deposit ELSE Cut
    OBVIOUS
  <1>4. t = EndTrans(a, ls, fe)
    OBVIOUS
  <1> HIDE DEF old, ls, fe, t
  <1>5. /\ old = Settled.lot[a] /\ old \in Auctioned /\ old.item \in Settled.kept
        /\ old.item \in Items
        /\ Settled.row[old.item] = Nobody /\ Settled.attach[old.item] = Nobody
        /\ LotsOf(Settled, old.item) = {a}
    BY <1>1, <1>2, ListedLot
  <1>6. /\ Sendable(ls) /\ fe \in Int /\ Cash(ls) - (old.bid + Deposit) + fe = 0
        /\ ~Destroyed(old) => Enclosed(ls) = {old.item}
        /\ Destroyed(old) => Enclosed(ls) = {} /\ old.bidder \notin online
    BY <1>1, <1>2, <1>3, EndingLetters
  <1>7. \A i \in Enclosed(ls) : Settled.attach[i] = Nobody
    BY <1>5, <1>6
  <1>8. Fresh(Settled, box, ls)
    BY <1>1, <1>6, <1>7, FreshSettled
  <1>9. /\ Sound(Settled) /\ BoxesOK(Settled, box, online, gone)
        /\ HouseOK(Settled, auctions, aitems, due) /\ TradesOK(trade, online)
        /\ MemoryTyped(online, money, net, items)
        /\ PursesAgree(Settled, online, money, net, items)
        /\ Len(queue) \in Nat /\ online \subseteq Players
    BY SettledSound DEF EconomyInv, MemoryTyped
  <1>10. /\ aitems' \subseteq Items /\ due' \subseteq Lots
         /\ \A b \in Lots \ {a} : auctions[b] # NoLot => auctions[b].item \in aitems'
    <2>1. ASSUME NEW b \in Lots \ {a}, auctions[b] # NoLot
          PROVE  auctions[b].item \in aitems /\ auctions[b].item # old.item
      <3>1. auctions[b].item = Settled.lot[b].item
        BY <1>9, <2>1 DEF HouseOK, LoadedAuctions
      <3>2. b \notin LotsOf(Settled, old.item)
        BY <1>5, <2>1
      <3>3. QED
        BY <1>9, <2>1, <3>1, <3>2 DEF HouseOK, LotsOf
    <2>2. aitems \subseteq Items /\ due \subseteq Lots
      BY <1>9 DEF HouseOK
    <2>3. QED
      BY <1>1, <2>1, <2>2
  <1>11. PICK T : queue \in Seq(T)
    BY DEF EconomyInv, IsQueue
  <1>12. CASE ~Destroyed(old)
    <2> DEFINE e == Execute(Settled, t)
    <2>3. e = Execute(Settled, t)
      OBVIOUS
    <2> HIDE DEF e
    <2>1. Settling(Settled, a, old, ls, fe)
      BY <1>5, <1>6, <1>8, <1>9, <1>12 DEF Settling
    <2>2. /\ Sound(e) /\ t.login = Nobody
          /\ PursesSame(Settled, e) /\ MailsSame(Settled, e) /\ StillLoaded(box, ls)
          /\ BoxesOK(e, Delivered(box, ls), online, gone)
          /\ OneLot(Settled, e, a, NoLot) /\ e.kept = Settled.kept
          /\ e.money = Settled.money /\ e.net = Settled.net /\ e.row = Settled.row
      BY <1>4, <1>9, <2>1, <2>3, SweepRows
    <2>4. queue' = Append(queue, t)
      <3>1. queue' = queue \o << t >>
        BY <1>1, <1>12
      <3>2. queue \in Seq(T \cup {t})
        BY <1>11
      <3>3. QED
        BY <3>1, <3>2
    <2>5. gone' = gone /\ RoomFor(1)
      <3>1. Len(queue) + 2 <= MaxPending /\ MaxPending \in Nat
        BY <1>1, HoldingsConstants DEF RoomFor
      <3>2. Len(queue) + 1 <= MaxPending
        BY <1>9, <3>1
      <3>3. QED
        BY <1>1, <1>12, <3>2 DEF RoomFor
    <2>6. HouseOK(e, auctions', aitems', due')
      BY <1>1, <1>9, <1>10, <2>2, HouseEnd
    <2>7. PursesAgree(e, online', money', net', items')
      BY <1>1, <1>9, <2>2 DEF PursesAgree, Bag
    <2>8. BoxesOK(e, box', online', gone')
      BY <1>1, <2>2, <2>5
    <2>9. /\ MemoryTyped(online', money', net', items') /\ TradesOK(trade', online')
          /\ online' \subseteq online
      BY <1>1, <1>9
    <2>10. \A p \in Players \ online : SamePurse(Settled, e, p) /\ SameMails(Settled, e, p)
      BY <2>2 DEF PursesSame, MailsSame
    <2>11. \A p \in online' : ~box'[p].loaded => ~box[p].loaded /\ SameMails(Settled, e, p)
      BY <1>1, <1>9, <2>2 DEF MailsSame, StillLoaded
    <2>12. QED
      BY <1>1, <2>2, <2>3, <2>4, <2>5, <2>6, <2>7, <2>8, <2>9, <2>10, <2>11, PostStep
  <1>13. CASE Destroyed(old)
    <2> DEFINE u == Destroying(old)
               d == Execute(Settled, u)
               e == Execute(d, t)
               gn == gone \cup {old.item}
    <2>3. d = Execute(Settled, u) /\ e = Execute(d, t) /\ u = Destroying(old)
          /\ gn = gone \cup {old.item}
      OBVIOUS
    <2>4. queue' = queue \o << u, t >>
      BY <1>1, <1>13
    <2> HIDE DEF u, d, e, gn
    <2>1. /\ Sound(d) /\ u.login = Nobody
          /\ PursesSame(Settled, d) /\ MailsSame(Settled, d)
          /\ BoxesOK(d, box, online, gn)
          /\ d.kept = Settled.kept \ {old.item} /\ d.lot = Settled.lot
          /\ d.mail = Settled.mail /\ d.attach = Settled.attach
          /\ d.row = Settled.row /\ d.money = Settled.money /\ d.net = Settled.net
      <3>1. d = Execute(Settled, Destroying(old)) /\ Listed(a) /\ old = auctions[a]
        BY <1>1, <1>2, <2>3
      <3>2. gn = gone \cup {old.item} /\ u = Destroying(old)
        BY <2>3
      <3>3. Sound(d) /\ u.login = Nobody /\ PursesSame(Settled, d) /\ MailsSame(Settled, d)
        BY ONLY EconomyInv, a \in Lots, <3>1, <3>2, DestroyRows
      <3>4. BoxesOK(d, box, online, gn)
        BY ONLY EconomyInv, a \in Lots, <3>1, <3>2, DestroyRows
      <3>5. d.kept = Settled.kept \ {old.item} /\ d.lot = Settled.lot
        BY ONLY EconomyInv, a \in Lots, <3>1, <3>2, DestroyRows
      <3>6. /\ d.mail = Settled.mail /\ d.attach = Settled.attach
            /\ d.row = Settled.row /\ d.money = Settled.money /\ d.net = Settled.net
        BY ONLY EconomyInv, a \in Lots, <3>1, <3>2, DestroyRows
      <3>7. QED
        BY <3>3, <3>4, <3>5, <3>6
    <2>2. gone' = gn
      BY <1>1, <1>6, <1>13, <2>3
    <2>5. queue' = Append(Append(queue, u), t)
      <3>1. queue \in Seq(T \cup {t, u})
        BY <1>11
      <3>2. QED
        BY <2>4, <3>1
    <2>6. Fresh(d, box, ls)
      BY <1>8, <2>1 DEF Fresh, Attached
    <2>7. LotsOf(d, old.item) = {a}
      BY <1>5, <2>1 DEF LotsOf
    <2>8. Settling(d, a, old, ls, fe)
      BY <1>5, <1>6, <1>13, <2>1, <2>6, <2>7 DEF Settling
    <2>9. /\ Sound(e) /\ t.login = Nobody
          /\ PursesSame(d, e) /\ MailsSame(d, e) /\ StillLoaded(box, ls)
          /\ BoxesOK(e, Delivered(box, ls), online, gn)
          /\ OneLot(d, e, a, NoLot) /\ e.kept = d.kept
          /\ e.money = d.money /\ e.net = d.net /\ e.row = d.row
      BY <1>4, <2>1, <2>3, <2>8, SweepRows
    <2>10. HouseOK(e, auctions', aitems', due')
      <3>1. OneLot(Settled, e, a, NoLot)
        BY <2>1, <2>9 DEF OneLot
      <3>2. \A b \in Lots \ {a} :
                Settled.lot[b].item \in Settled.kept <=> Settled.lot[b].item \in e.kept
        BY <1>5, <2>1, <2>9 DEF LotsOf
      <3>3. QED
        BY <1>1, <1>9, <1>10, <3>1, <3>2, HouseEnd
    <2>11. PursesAgree(e, online', money', net', items')
      BY <1>1, <1>9, <2>1, <2>9 DEF PursesAgree, Bag
    <2>12. BoxesOK(e, box', online', gone')
      BY <1>1, <2>2, <2>9
    <2>13. /\ MemoryTyped(online', money', net', items') /\ TradesOK(trade', online')
      BY <1>1, <1>9
    <2>14. \A p \in online' : ~box'[p].loaded => ~box[p].loaded
      BY <1>1, <1>9, <2>9 DEF StillLoaded
    <2>15. QED
      BY <1>1, <2>1, <2>3, <2>5, <2>9, <2>10, <2>11, <2>12, <2>13, <2>14, PostTwo
  <1>14. QED
    BY <1>12, <1>13

-----------------------------------------------------------------------------

LEMMA ClearedMails ==
  ASSUME NEW s, Sound(s), NEW p \in Players, NEW D, NEW c, NEW r, NEW I, NEW X,
         Clears(s, p, D, c, r, I, X), NEW s1, s1 = Cleared(s, D, c, r, I, X)
  PROVE  /\ MailTyped(s1)
         /\ \A q \in Players \ {p} : SameMails(s, s1, q)
         /\ \A id \in MailIds : /\ s.mail[id] = NoMail => s1.mail[id] = NoMail
                                /\ Attached(s1, id) \subseteq Attached(s, id)
         /\ \A id \in MailIds \ (D \cup {c}) : /\ s1.mail[id] = s.mail[id]
                                               /\ Attached(s1, id) = Attached(s, id)
         /\ c # Nobody => s1.mail[c] = r /\ Attached(s1, c) = Attached(s, c) \ I
         /\ \A id \in D : s1.mail[id] = NoMail /\ Attached(s1, id) = {}
  <1>1. /\ s1.mail = [id \in MailIds |-> IF id \in D THEN NoMail
                                         ELSE IF id = c THEN r ELSE s.mail[id]]
        /\ s1.attach = [i \in Items |-> IF i \in I \/ s.attach[i] \in D THEN Nobody
                                        ELSE s.attach[i]]
    BY DEF Cleared
  <1>2. /\ s.mail \in [MailIds -> Mails \cup {NoMail}]
        /\ s.attach \in [Items -> MailIds \cup {Nobody}]
        /\ \A id \in MailIds : s.mail[id].player => s.mail[id].from \in Players
        /\ \A id \in MailIds : s.mail[id].cod > 0 => s.mail[id].player
        /\ \A i \in Items : s.attach[i] # Nobody => s.mail[s.attach[i]] # NoMail
    BY DEF Sound, Database, Proper
  <1>3. /\ D \subseteq MailIds /\ \A x \in D : s.mail[x].to = p
        /\ c \in MailIds \ D \/ c = Nobody
        /\ c # Nobody => Repaid(s.mail[c], r, p)
        /\ I \subseteq Items /\ \A i \in I : c # Nobody /\ s.attach[i] = c
    BY DEF Clears
  <1>4. /\ Nobody \notin Players /\ Nobody \notin MailIds
        /\ NoMail.to = Nobody /\ ~NoMail.player /\ NoMail.cod = 0 /\ ~(NoMail.cod > 0)
    BY HoldingsConstants DEF NoMail
  <1>5. c # Nobody => /\ r \in Mails /\ r # NoMail /\ s.mail[c] # NoMail
                      /\ r.player => r.from \in Players
                      /\ r.cod > 0 => r.player
                      /\ s.mail[c].to = p /\ r.to = p /\ c \in MailIds
    BY <1>3, <1>4 DEF Repaid
  <1>6. MailTyped(s1)
    <2>1. s1.mail \in [MailIds -> Mails \cup {NoMail}]
      BY <1>1, <1>2, <1>4, <1>5
    <2>2. s1.attach \in [Items -> MailIds \cup {Nobody}]
      BY <1>1, <1>2
    <2>3. ASSUME NEW id \in MailIds
          PROVE  /\ s1.mail[id].player => s1.mail[id].from \in Players
                 /\ s1.mail[id].cod > 0 => s1.mail[id].player
      <3>1. CASE id \in D
        BY <1>1, <1>4, <3>1
      <3>2. CASE id \notin D /\ id = c
        BY <1>1, <1>4, <1>5, <3>2
      <3>3. CASE id \notin D /\ id # c
        BY <1>1, <1>2, <3>3
      <3>4. QED
        BY <3>1, <3>2, <3>3
    <2>4. ASSUME NEW i \in Items, s1.attach[i] # Nobody
          PROVE  s1.mail[s1.attach[i]] # NoMail
      <3>1. s1.attach[i] = s.attach[i] /\ s.attach[i] \notin D /\ s.attach[i] \in MailIds
        BY <1>1, <1>2, <2>4
      <3>2. QED
        BY <1>1, <1>2, <1>4, <1>5, <2>4, <3>1
    <2>5. QED
      BY <2>1, <2>2, <2>3, <2>4 DEF MailTyped
  <1>7. ASSUME NEW id \in MailIds \ (D \cup {c})
        PROVE  s1.mail[id] = s.mail[id] /\ Attached(s1, id) = Attached(s, id)
    <2>1. s1.mail[id] = s.mail[id]
      BY <1>1
    <2>2. \A i \in Items : s1.attach[i] = id <=> s.attach[i] = id
      BY <1>1, <1>3, <1>4
    <2>3. QED
      BY <2>1, <2>2 DEF Attached
  <1>8. c # Nobody => s1.mail[c] = r /\ Attached(s1, c) = Attached(s, c) \ I
    <2> SUFFICES ASSUME c # Nobody
                 PROVE  s1.mail[c] = r /\ Attached(s1, c) = Attached(s, c) \ I
      OBVIOUS
    <2>1. c \in MailIds \ D
      BY <1>3
    <2>2. \A i \in Items : s1.attach[i] = c <=> s.attach[i] = c /\ i \notin I
      BY <1>1, <2>1
    <2>3. QED
      BY <1>1, <2>1, <2>2 DEF Attached
  <1>9. ASSUME NEW id \in D
        PROVE  s1.mail[id] = NoMail /\ Attached(s1, id) = {}
    <2>1. id \in MailIds /\ id # Nobody
      BY <1>3, <1>4
    <2>2. \A i \in Items : s1.attach[i] # id
      BY <1>1, <2>1
    <2>3. QED
      BY <1>1, <2>1, <2>2 DEF Attached
  <1>10. ASSUME NEW q \in Players \ {p}
         PROVE  SameMails(s, s1, q)
    <2> SUFFICES ASSUME NEW id \in MailIds, s.mail[id].to = q
                 PROVE  s1.mail[id] = s.mail[id] /\ Attached(s1, id) = Attached(s, id)
      BY DEF SameMails
    <2>1. id \notin D \cup {c}
      BY <1>3, <1>4, <1>5
    <2>2. QED
      BY <1>7, <2>1
  <1>11. ASSUME NEW id \in MailIds
         PROVE  /\ s.mail[id] = NoMail => s1.mail[id] = NoMail
                /\ Attached(s1, id) \subseteq Attached(s, id)
    <2>1. id = c => c # Nobody
      BY <1>4
    <2>2. CASE id \in D
      BY <1>9, <2>2
    <2>3. CASE id \notin D /\ id = c
      BY <1>5, <1>8, <2>1, <2>3
    <2>4. CASE id \notin D /\ id # c
      BY <1>7, <2>4
    <2>5. QED
      BY <2>2, <2>3, <2>4
  <1>12. QED
    BY <1>6, <1>7, <1>8, <1>9, <1>10, <1>11

LEMMA ClearedSum ==
  ASSUME NEW s, Sound(s), NEW p \in Players, NEW D, NEW c, NEW r, NEW I, NEW X,
         Clears(s, p, D, c, r, I, X), NEW s1, s1 = Cleared(s, D, c, r, I, X)
  PROVE  /\ MoneyIn(s, D) \in Int
         /\ c = Nobody => MailSum(s1) = MailSum(s) - MoneyIn(s, D)
         /\ c # Nobody => MailSum(s1) = ((MailSum(s) - s.mail[c].money) + r.money)
                                        - MoneyIn(s, D)
  <1> DEFINE f == [id \in MailIds |-> s.mail[id].money]
             h == [id \in MailIds |-> IF id = c THEN r.money ELSE s.mail[id].money]
             g == [id \in MailIds |-> s1.mail[id].money]
             k == [id \in D |-> s.mail[id].money]
  <1>1. /\ D \subseteq MailIds
        /\ c \in MailIds \ D \/ c = Nobody
        /\ IsFiniteSet(MailIds) /\ Nobody \notin MailIds
        /\ c # Nobody => r \in Mails
    BY HoldingsConstants DEF Clears, Repaid
  <1>2. IsFiniteSet(D)
    BY <1>1, FS_Subset
  <1>3. \A id \in MailIds : s.mail[id].money \in Int
    BY RowTypes DEF Sound
  <1>4. c # Nobody => r.money \in Int
    BY <1>1 DEF Mails
  <1>5. s1.mail = [id \in MailIds |-> IF id \in D THEN NoMail
                                      ELSE IF id = c THEN r ELSE s.mail[id]]
    BY DEF Cleared
  <1>6. NoMail.money = 0
    BY DEF NoMail
  <1>7. /\ \A id \in MailIds : f[id] \in Int /\ f[id] = s.mail[id].money
        /\ \A id \in MailIds : h[id] \in Int
        /\ \A id \in MailIds : id # c => h[id] = f[id]
        /\ c # Nobody => h[c] = r.money
        /\ \A id \in D : k[id] \in Int /\ h[id] = k[id]
    BY <1>1, <1>3, <1>4
  <1>8. /\ \A id \in MailIds \ D : g[id] = h[id]
        /\ \A id \in D : g[id] = 0
    BY <1>1, <1>5, <1>6
  <1>9. MailSum(s) = Total(f, MailIds) /\ MailSum(s1) = Total(g, MailIds)
        /\ MoneyIn(s, D) = Total(k, D)
    BY DEF MailSum, MoneyIn
  <1> HIDE DEF f, g, h, k
  <1>10. Total(g, MailIds) = Total(h, MailIds) - Total(h, D)
    BY <1>1, <1>7, <1>8, TotalClear
  <1>11. Total(h, D) = Total(k, D) /\ Total(k, D) \in Int
    <2>1. \A id \in D : h[id] = k[id]
      BY <1>7
    <2>2. \A id \in D : k[id] \in Int
      BY <1>7
    <2>3. Total(h, D) = Total(k, D)
      BY <1>2, <2>1, TotalEqual
    <2>4. Total(k, D) \in Int
      BY <1>2, <2>2, TotalType
    <2>5. QED
      BY <2>3, <2>4
  <1>12. c = Nobody => Total(h, MailIds) = Total(f, MailIds)
    <2>1. c = Nobody => \A id \in MailIds : h[id] = f[id]
      BY <1>1, <1>7
    <2>2. QED
      BY <1>1, <2>1, TotalEqual
  <1>13. c # Nobody => Total(h, MailIds) = (Total(f, MailIds) - f[c]) + h[c]
    <2>1. c # Nobody => /\ c \in MailIds /\ h[c] \in Int
                        /\ \A id \in MailIds \ {c} : h[id] = f[id]
      BY <1>1, <1>7
    <2>2. \A id \in MailIds : f[id] \in Int
      BY <1>7
    <2>3. QED
      BY <1>1, <2>1, <2>2, TotalUpdate
  <1>14. c # Nobody => f[c] = s.mail[c].money /\ h[c] = r.money
    BY <1>1, <1>7
  <1>15. QED
    BY <1>9, <1>10, <1>11, <1>12, <1>13, <1>14

(* The other mailboxes show what they did; the one that is saved shows what *)
(* is left of it.                                                           *)
LEMMA ClearedOthers ==
  ASSUME NEW s, Sound(s), NEW p \in Players, NEW D, NEW c, NEW r, NEW I, NEW X,
         Clears(s, p, D, c, r, I, X), NEW s1, s1 = Cleared(s, D, c, r, I, X),
         NEW b, NEW q \in Players \ {p}, NEW gn, BoxOK(s, b, q, gn)
  PROVE  BoxOK(s1, b, q, gn)
  <1>1. /\ SameMails(s, s1, q)
        /\ \A id \in MailIds \ (D \cup {c}) : s1.mail[id] = s.mail[id]
        /\ c # Nobody => s1.mail[c] = r
        /\ \A id \in D : s1.mail[id] = NoMail
    BY ClearedMails
  <1>2. /\ c # Nobody => r.to = p
        /\ NoMail.to = Nobody /\ Nobody \notin Players /\ Nobody \notin MailIds
    BY HoldingsConstants DEF Clears, Repaid, NoMail
  <1>3. DOMAIN b.mails \subseteq MailIds
    BY DEF BoxOK, BoxShape
  <1>4. BoxShows(s1, b, q)
    <2> SUFFICES ASSUME NEW id \in DOMAIN b.mails
                 PROVE  /\ s1.mail[id].to = q
                        /\ b.mails[id] = Shown(s1, id, b.mails[id].state)
      BY DEF BoxShows
    <2>1. s.mail[id].to = q /\ b.mails[id] = Shown(s, id, b.mails[id].state)
      BY DEF BoxOK, BoxShows
    <2>2. s1.mail[id] = s.mail[id] /\ Attached(s1, id) = Attached(s, id)
      BY <1>1, <1>3, <2>1 DEF SameMails
    <2>3. Shown(s1, id, b.mails[id].state) = Shown(s, id, b.mails[id].state)
      BY <2>2 DEF Shown
    <2>4. QED
      BY <2>1, <2>2, <2>3
  <1>5. b.loaded => BoxFull(s1, b, q)
    <2> SUFFICES ASSUME b.loaded, NEW id \in MailIds, s1.mail[id].to = q
                 PROVE  id \in DOMAIN b.mails \cup b.missed
      BY DEF BoxFull
    <2>1. id \notin D \cup {c}
      BY <1>1, <1>2
    <2>2. s.mail[id].to = q
      BY <1>1, <2>1
    <2>3. QED
      BY <2>2 DEF BoxOK, BoxFull
  <1>6. QED
    BY <1>4, <1>5 DEF BoxOK


LEMMA ClearedOwn ==
  ASSUME NEW s, Sound(s), NEW p \in Players, NEW D, NEW c, NEW r, NEW I, NEW X,
         Clears(s, p, D, c, r, I, X), NEW s1, s1 = Cleared(s, D, c, r, I, X),
         NEW b, NEW gn, BoxOK(s, b, p, gn), b.loaded,
         NEW M, LeftShown(s1, b, D, M, gn),
         NEW b1, b1 = [loaded |-> TRUE, mails |-> M, missed |-> b.missed]
  PROVE  BoxOK(s1, b1, p, gn)
  <1>1. /\ \A id \in MailIds \ (D \cup {c}) : s1.mail[id] = s.mail[id]
        /\ c # Nobody => s1.mail[c] = r
        /\ \A id \in D : s1.mail[id] = NoMail
    BY ClearedMails
  <1>2. /\ c # Nobody => r.to = p /\ s.mail[c].to = p
        /\ NoMail.to = Nobody /\ Nobody \notin Players /\ Nobody \notin MailIds
    BY HoldingsConstants DEF Clears, Repaid, NoMail
  <1>3. DOMAIN b.mails \subseteq MailIds /\ \A id \in DOMAIN b.mails : s.mail[id].to = p
    BY DEF BoxOK, BoxShape, BoxShows
  <1>4. /\ b1.loaded /\ b1.mails = M /\ b1.missed = b.missed
        /\ M = [x \in DOMAIN b.mails \ D |-> M[x]] /\ DOMAIN M = DOMAIN b.mails \ D
        /\ \A x \in DOMAIN b.mails \ D :
              /\ M[x].state \in {"same", "deleted"}
              /\ M[x] = Shown(s1, x, M[x].state)
              /\ M[x].state = "deleted" => M[x].items \subseteq gn
    BY DEF LeftShown
  <1>5. BoxShape(b1)
    BY <1>3, <1>4 DEF BoxShape
  <1>6. BoxShows(s1, b1, p)
    <2> SUFFICES ASSUME NEW id \in DOMAIN b.mails \ D
                 PROVE  s1.mail[id].to = p
      BY <1>4 DEF BoxShows
    <2>1. id \in MailIds
      BY <1>3
    <2>2. CASE id = c
      BY <1>1, <1>2, <2>1, <2>2
    <2>3. CASE id # c
      BY <1>1, <1>3, <2>1, <2>3
    <2>4. QED
      BY <2>2, <2>3
  <1>7. BoxFull(s1, b1, p)
    <2> SUFFICES ASSUME NEW id \in MailIds, s1.mail[id].to = p
                 PROVE  id \in DOMAIN M \cup b.missed
      BY <1>4 DEF BoxFull
    <2>1. id \notin D
      BY <1>1, <1>2
    <2>2. s.mail[id].to = p
      BY <1>1, <1>2, <2>1
    <2>3. id \in DOMAIN b.mails \cup b.missed
      BY <2>2 DEF BoxOK, BoxFull
    <2>4. QED
      BY <1>4, <2>1, <2>3
  <1>8. BoxGone(b1, gn)
    BY <1>4 DEF BoxGone
  <1>9. QED
    BY <1>4, <1>5, <1>6, <1>7, <1>8 DEF BoxOK

(* Letters sent after it.                                                   *)
LEMMA ClearedFresh ==
  ASSUME EconomyInv, NEW p \in Players, NEW D, NEW c, NEW r, NEW I, NEW X,
         Clears(Settled, p, D, c, r, I, X), NEW s1, s1 = Cleared(Settled, D, c, r, I, X),
         NEW ls, Sendable(ls), RoomForMails(Len(ls)),
         \A i \in Enclosed(ls) : s1.attach[i] = Nobody,
         NEW bx, \A q \in Players : DOMAIN bx[q].mails \subseteq DOMAIN box[q].mails
  PROVE  Fresh(s1, bx, ls)
  <1>1. Sound(Settled)
    BY SettledSound
  <1>2. \A id \in MailIds : /\ Settled.mail[id] = NoMail => s1.mail[id] = NoMail
                            /\ Attached(s1, id) \subseteq Attached(Settled, id)
    BY <1>1, ClearedMails
  <1>3. /\ Len(ls) \in 0..3 /\ DOMAIN ls = 1..Len(ls)
        /\ \A k \in 1..Len(ls) :
               /\ NewId(k) \in Ids(ls) /\ NewId(k) \in MailIds
               /\ LetterOf(ls, NewId(k)) = ls[k] /\ ls[k] \in Letters
        /\ \A j, k \in 1..Len(ls) : NewId(j) = NewId(k) => j = k
        /\ \A id \in Ids(ls) :
               /\ id \in MailIds /\ Settled.mail[id] = NoMail
               /\ Attached(Settled, id) = {}
               /\ \A q \in Players : id \notin DOMAIN box[q].mails
               /\ \E k \in 1..Len(ls) : id = NewId(k)
    BY LetterIds
  <1>4. ASSUME NEW id \in Ids(ls)
        PROVE  /\ id \in MailIds /\ s1.mail[id] = NoMail
               /\ Attached(s1, id) = {}
               /\ \A q \in Players : id \notin DOMAIN bx[q].mails
               /\ \E k \in 1..Len(ls) : id = NewId(k)
    BY <1>2, <1>3, <1>4
  <1>5. QED
    BY <1>3, <1>4 DEF Fresh


LEMMA ClearedPlaces ==
  ASSUME NEW s, Sound(s), NEW p \in Players, NEW D, NEW c, NEW r, NEW I, NEW X,
         Clears(s, p, D, c, r, I, X), NEW s1, s1 = Cleared(s, D, c, r, I, X),
         NEW ls, Sendable(ls), NEW bx, Fresh(s1, bx, ls), Accounts(s, D, X, ls),
         NEW e, NEW fe, OneClear(s, e, p, I, s1, ls, fe)
  PROVE  /\ OnePlace(e)
         /\ \A i \in I : s.row[i] = Nobody
         /\ \A a \in Lots : s.lot[a].item \in s.kept <=> s.lot[a].item \in e.kept
  <1>1. /\ D \subseteq MailIds
        /\ c \in MailIds \ D \/ c = Nobody
        /\ I \subseteq Items /\ \A i \in I : c # Nobody /\ s.attach[i] = c
        /\ X \subseteq Items /\ \A i \in X : s.attach[i] \in D
    BY DEF Clears
  <1>2. /\ s1.attach = [i \in Items |-> IF i \in I \/ s.attach[i] \in D THEN Nobody
                                        ELSE s.attach[i]]
        /\ s1.kept = s.kept \ X
    BY DEF Cleared
  <1>3. /\ e.row = [i \in Items |-> IF i \in I THEN p ELSE s.row[i]]
        /\ e.kept = s.kept \ X /\ Sent(s1, e, ls)
        /\ \A a \in Lots : e.lot[a] = s.lot[a]
    BY <1>2 DEF OneClear
  <1>4. /\ \A i \in Enclosed(ls) : i \in Items /\ e.attach[i] \in MailIds
        /\ \A i \in Items \ Enclosed(ls) : e.attach[i] = s1.attach[i]
    BY <1>3, EnclosedPlaced
  <1>5. Nobody \notin MailIds /\ p # Nobody
    BY HoldingsConstants
  <1>6. \A i \in Items : Placed(s, i)
    BY DEF Sound, OnePlace
  <1>7. ASSUME NEW i \in Items, s.attach[i] \in MailIds
        PROVE  i \in s.kept /\ s.row[i] = Nobody /\ LotsOf(s, i) = {}
    BY <1>5, <1>6, <1>7 DEF Placed
  <1>8. \A i \in Items : LotsOf(e, i) = LotsOf(s, i)
    BY <1>3 DEF LotsOf
  <1>9. ASSUME NEW i \in Items
        PROVE  Placed(e, i)
    <2>1. CASE i \in Enclosed(ls)
      <3>1. s.attach[i] \in D /\ i \notin X /\ i \notin I
        BY <1>1, <1>5, <2>1 DEF Accounts
      <3>2. i \in s.kept /\ s.row[i] = Nobody /\ LotsOf(s, i) = {}
        BY <1>1, <1>7, <3>1
      <3>3. i \in e.kept /\ e.row[i] = Nobody /\ LotsOf(e, i) = {} /\ e.attach[i] \in MailIds
        BY <1>3, <1>4, <1>8, <2>1, <3>1, <3>2
      <3>4. QED
        BY <3>3 DEF Placed
    <2>2. CASE i \in X /\ i \notin Enclosed(ls)
      <3>1. s.attach[i] \in D /\ i \notin I
        BY <1>1, <1>5, <2>2
      <3>2. s.row[i] = Nobody
        BY <1>1, <1>7, <3>1
      <3>3. i \notin e.kept /\ e.row[i] = Nobody /\ e.attach[i] = Nobody
        BY <1>2, <1>3, <1>4, <2>2, <3>1, <3>2
      <3>4. QED
        BY <3>3 DEF Placed
    <2>3. CASE i \in I
      <3>1. s.attach[i] \in MailIds /\ s.attach[i] \notin D
        BY <1>1, <2>3
      <3>2. i \notin X /\ i \notin Enclosed(ls)
        BY <1>1, <3>1 DEF Accounts
      <3>3. i \in s.kept /\ LotsOf(s, i) = {}
        BY <1>7, <3>1
      <3>4. i \in e.kept /\ e.row[i] = p /\ LotsOf(e, i) = {} /\ e.attach[i] = Nobody
        BY <1>2, <1>3, <1>4, <1>8, <2>3, <3>2, <3>3
      <3>5. QED
        BY <3>4 DEF Placed
    <2>4. CASE i \notin Enclosed(ls) /\ i \notin X /\ i \notin I
      <3>1. s.attach[i] \notin D
        BY <2>4 DEF Accounts
      <3>2. e.attach[i] = s.attach[i] /\ e.row[i] = s.row[i] /\ (i \in e.kept <=> i \in s.kept)
        BY <1>2, <1>3, <1>4, <2>4, <3>1
      <3>3. QED
        BY <1>6, <1>8, <3>2, PlacedSame
    <2>5. QED
      BY <2>1, <2>2, <2>3, <2>4
  <1>10. \A i \in I : s.row[i] = Nobody
    <2> SUFFICES ASSUME NEW i \in I
                 PROVE  s.row[i] = Nobody
      OBVIOUS
    <2>1. i \in Items /\ s.attach[i] \in MailIds
      BY <1>1
    <2>2. QED
      BY <1>7, <2>1
  <1>11. ASSUME NEW a \in Lots
         PROVE  s.lot[a].item \in s.kept <=> s.lot[a].item \in e.kept
    <2>1. s.lot[a].item \notin X
      <3> SUFFICES ASSUME s.lot[a].item \in X
                   PROVE  FALSE
        OBVIOUS
      <3>1. s.lot[a].item \in Items /\ s.attach[s.lot[a].item] \in MailIds
        BY <1>1
      <3>2. LotsOf(s, s.lot[a].item) = {}
        BY <1>7, <3>1
      <3>3. QED
        BY <3>2 DEF LotsOf
    <2>2. QED
      BY <1>3, <2>1
  <1>12. QED
    BY <1>9, <1>10, <1>11 DEF OnePlace


LEMMA PurseSaved ==
  ASSUME EconomyInv, NEW p \in online, NEW I, I \subseteq Items,
         \A i \in I : Settled.row[i] = Nobody, NEW v \in 0..Cap, NEW e,
         e.money = [q \in Players |-> IF q = p THEN v ELSE Settled.money[q]],
         e.net = [q \in Players |-> IF q = p THEN net[p] ELSE Settled.net[q]],
         e.row = [i \in Items |-> IF i \in I THEN p ELSE Settled.row[i]],
         Cardinality(items[p] \cup I) <= Space[p]
  PROVE  Pursed(e, p, v, I)
  <1>1. p \in Players /\ items[p] = Bag(Settled, p) /\ items[p] \subseteq Items
    BY Carried
  <1>2. Bag(e, p) = items[p] \cup I
    <2>1. \A i \in Items : e.row[i] = p <=> (Settled.row[i] = p \/ i \in I)
      OBVIOUS
    <2>2. QED
      BY <1>1, <2>1 DEF Bag
  <1>3. Saves(e, p, v)
    <2>1. \A i \in Items : \/ e.row[i] = Settled.row[i]
                           \/ {e.row[i], Settled.row[i]} \subseteq {p, Nobody}
      OBVIOUS
    <2>2. e.row = [i \in Items |-> e.row[i]] /\ Cardinality(Bag(e, p)) <= Space[p]
      BY <1>2
    <2>3. QED
      BY <2>1, <2>2 DEF Saves
  <1>4. /\ e.money \in [Players -> 0..Cap] /\ e.net \in [Players -> Int]
        /\ e.row \in [Items -> Players \cup {Nobody}] /\ BagsFit(e)
        /\ PursesAgree(e, online, [money EXCEPT ![p] = v], net,
                       [items EXCEPT ![p] = Bag(e, p)])
        /\ MemoryTyped(online, [money EXCEPT ![p] = v], net,
                       [items EXCEPT ![p] = Bag(e, p)])
        /\ \A q \in Players \ online : SamePurse(Settled, e, q)
        /\ PurseSum(e) = PurseSum(Settled) + (v - money[p])
    BY <1>3, OneSaves
  <1>5. QED
    BY <1>2, <1>4 DEF Pursed

LEMMA PurseKept ==
  ASSUME EconomyInv, NEW p \in online, NEW e,
         e.money = Settled.money, e.net = Settled.net, e.row = Settled.row
  PROVE  Pursed(e, p, money[p], {})
  <1>1. /\ Settled \in Database /\ BagsFit(Settled)
        /\ MemoryTyped(online, money, net, items)
        /\ PursesAgree(Settled, online, money, net, items)
    BY SettledSound DEF EconomyInv, Sound
  <1>2. /\ e.money \in [Players -> 0..Cap] /\ e.net \in [Players -> Int]
        /\ e.row \in [Items -> Players \cup {Nobody}]
    BY <1>1 DEF Database
  <1>3. \A q \in Players : Bag(e, q) = Bag(Settled, q)
    BY DEF Bag
  <1>4. /\ [money EXCEPT ![p] = money[p]] = money
        /\ [items EXCEPT ![p] = items[p] \cup {}] = items
    BY <1>1 DEF MemoryTyped
  <1>5. BagsFit(e)
    BY <1>1, <1>3 DEF BagsFit
  <1>6. PursesAgree(e, online, money, net, items)
    BY <1>1, <1>3 DEF PursesAgree, MemoryTyped
  <1>7. PurseSum(e) = PurseSum(Settled) + (money[p] - money[p])
    <2>1. PurseSum(e) = PurseSum(Settled)
      BY DEF PurseSum
    <2>2. PurseSum(Settled) \in Int /\ money[p] \in Int
      BY <1>1, SumTypes, HoldingsConstants DEF MemoryTyped
    <2>3. QED
      BY <2>1, <2>2
  <1>8. \A q \in Players \ online : SamePurse(Settled, e, q)
    BY <1>3 DEF SamePurse
  <1>9. QED
    BY <1>1, <1>2, <1>4, <1>5, <1>6, <1>7, <1>8 DEF Pursed

LEMMA ClearedRows ==
  ASSUME EconomyInv, NEW p \in online, NEW D, NEW c, NEW r, NEW I, NEW X,
         Clears(Settled, p, D, c, r, I, X), NEW s1, s1 = Cleared(Settled, D, c, r, I, X),
         NEW ls, Sendable(ls), NEW bx, Fresh(s1, bx, ls), Accounts(Settled, D, X, ls),
         NEW v \in 0..Cap, NEW fe \in Int, NEW e,
         OneClear(Settled, e, p, I, s1, ls, fe), Pursed(e, p, v, I),
         (v - money[p]) + ((MailSum(s1) - MailSum(Settled)) + Cash(ls)) + fe = 0
  PROVE  /\ Sound(e)
         /\ PursesAgree(e, online, [money EXCEPT ![p] = v], net,
                        [items EXCEPT ![p] = items[p] \cup I])
         /\ MemoryTyped(online, [money EXCEPT ![p] = v], net,
                        [items EXCEPT ![p] = items[p] \cup I])
         /\ \A q \in Players \ online : SamePurse(Settled, e, q)
         /\ \A q \in Players \ {p} : SameMails(Settled, e, q)
         /\ HouseOK(e, auctions, aitems, due)
  <1>1. /\ Settled \in Database /\ Sound(Settled)
        /\ MemoryTyped(online, money, net, items)
        /\ PursesAgree(Settled, online, money, net, items)
        /\ HouseOK(Settled, auctions, aitems, due)
    BY SettledSound DEF EconomyInv
  <1>2. /\ p \in Players /\ items[p] = Bag(Settled, p) /\ items[p] \subseteq Items
        /\ online \subseteq Players /\ money[p] \in Int /\ Nobody \notin Players
        /\ I \subseteq Items
    BY <1>1, HoldingsConstants DEF MemoryTyped, PursesAgree, Clears
  <1>3. /\ OnePlace(e)
        /\ \A i \in I : Settled.row[i] = Nobody
        /\ \A a \in Lots : Settled.lot[a].item \in Settled.kept
                           <=> Settled.lot[a].item \in e.kept
    BY <1>1, <1>2, ClearedPlaces
  <1>4. /\ e = [money |-> e.money, net |-> e.net, row |-> e.row, mail |-> e.mail,
                attach |-> e.attach, kept |-> e.kept, lot |-> e.lot, fees |-> e.fees]
        /\ e.row = [i \in Items |-> IF i \in I THEN p ELSE Settled.row[i]]
        /\ Sent(s1, e, ls) /\ e.kept = s1.kept
        /\ e.lot = [a \in Lots |-> Settled.lot[a]]
        /\ e.fees = Settled.fees + fe
    BY DEF OneClear
  <1>7. /\ e.money \in [Players -> 0..Cap] /\ e.net \in [Players -> Int]
        /\ e.row \in [Items -> Players \cup {Nobody}] /\ BagsFit(e)
        /\ PursesAgree(e, online, [money EXCEPT ![p] = v], net,
                       [items EXCEPT ![p] = items[p] \cup I])
        /\ MemoryTyped(online, [money EXCEPT ![p] = v], net,
                       [items EXCEPT ![p] = items[p] \cup I])
        /\ \A q \in Players \ online : SamePurse(Settled, e, q)
        /\ PurseSum(e) = PurseSum(Settled) + (v - money[p])
    BY DEF Pursed
  <1>8. /\ MailTyped(s1) /\ \A q \in Players \ {p} : SameMails(Settled, s1, q)
    BY <1>1, <1>2, ClearedMails
  <1>9. MailTyped(e) /\ MailSum(e) = MailSum(s1) + Cash(ls)
    BY <1>4, <1>8, SentTyped, SentSum DEF Cash
  <1>10. \A q \in Players \ {p} : SameMails(Settled, e, q)
    <2> SUFFICES ASSUME NEW q \in Players \ {p}
                 PROVE  SameMails(Settled, e, q)
      OBVIOUS
    <2>1. SameMails(Settled, s1, q) /\ SameMails(s1, e, q)
      BY <1>4, <1>8, SentSame
    <2>2. QED
      BY <2>1, SameSteps
  <1>11. HouseOK(e, auctions, aitems, due)
    <2>1. \A a \in Lots : /\ e.lot[a] = Settled.lot[a]
                          /\ Settled.lot[a].item \in Settled.kept
                             <=> Settled.lot[a].item \in e.kept
      BY <1>3, <1>4
    <2>2. QED
      BY <1>1, <2>1, HouseSame
  <1>12. /\ e.lot \in [Lots -> Auctioned \cup {NoLot}]
         /\ \A a \in Lots : e.lot[a].bidder = Nobody => e.lot[a].bid = 0
         /\ Settled.fees \in Int /\ e.fees \in Int /\ e.kept \in SUBSET Items
    <2>1. /\ Settled.lot \in [Lots -> Auctioned \cup {NoLot}]
          /\ \A a \in Lots : Settled.lot[a].bidder = Nobody => Settled.lot[a].bid = 0
          /\ Settled.fees \in Int /\ Settled.kept \in SUBSET Items
      BY <1>1 DEF Sound, Database, Proper
    <2>2. e.lot = Settled.lot
      BY <1>4, <2>1
    <2>3. e.kept \subseteq Settled.kept
      BY <1>4 DEF Cleared
    <2>4. QED
      BY <1>4, <2>1, <2>2, <2>3
  <1>13. PurseSum(e) + MailSum(e) + LotSum(e) + e.fees
           = PurseSum(Settled) + MailSum(Settled) + LotSum(Settled) + Settled.fees
    <2> DEFINE w == (MailSum(s1) - MailSum(Settled)) + Cash(ls)
    <2>1. /\ PurseSum(Settled) \in Int /\ MailSum(Settled) \in Int /\ LotSum(Settled) \in Int
      BY <1>1, SumTypes
    <2>2. LotSum(e) = LotSum(Settled)
      <3>1. \A b \in Lots : e.lot[b] = Settled.lot[b]
        BY <1>4
      <3>2. QED
        BY <3>1, LotsKept
    <2>3. MailSum(s1) \in Int
      <3>1. \A id \in MailIds : s1.mail[id].money \in Int
        BY <1>8 DEF MailTyped, Mails, NoMail
      <3>2. IsFiniteSet(MailIds)
        BY HoldingsConstants
      <3> DEFINE f == [id \in MailIds |-> s1.mail[id].money]
      <3>3. MailSum(s1) = Total(f, MailIds) /\ \A id \in MailIds : f[id] \in Int
        BY <3>1 DEF MailSum
      <3> HIDE DEF f
      <3>4. QED
        BY <3>2, <3>3, TotalType
    <2>4. Cash(ls) \in Int /\ v \in Int
      BY CashType, HoldingsConstants
    <2>5. w \in Int /\ MailSum(e) = MailSum(Settled) + w
      BY <1>9, <2>1, <2>3, <2>4
    <2>6. (v - money[p]) + w + (LotSum(e) - LotSum(Settled)) + fe = 0
      <3>1. (v - money[p]) + w + fe = 0
        OBVIOUS
      <3> HIDE DEF w
      <3>2. QED
        BY <1>2, <2>1, <2>2, <2>4, <2>5, <3>1
    <2> HIDE DEF w
    <2>7. FourMove(PurseSum(Settled), MailSum(Settled), LotSum(Settled), Settled.fees,
                   PurseSum(e), MailSum(e), LotSum(e), e.fees,
                   v, money[p], w, fe)
      BY <1>2, <1>4, <1>7, <1>12, <2>1, <2>2, <2>4, <2>5, <2>6 DEF FourMove
    <2>8. QED
      BY <2>7, FourSums
  <1>14. Sound(e)
    BY <1>1, <1>3, <1>4, <1>7, <1>9, <1>12, <1>13, SoundParts
  <1>15. QED
    BY <1>7, <1>10, <1>11, <1>14


LEMMA ClearedItems ==
  ASSUME NEW s, NEW D, NEW c, NEW r, NEW I, NEW X, NEW s1, s1 = Cleared(s, D, c, r, I, X),
         NEW ls, Sendable(ls), Accounts(s, D, X, ls)
  PROVE  \A i \in Enclosed(ls) : s1.attach[i] = Nobody
  <1>1. s1.attach = [i \in Items |-> IF i \in I \/ s.attach[i] \in D THEN Nobody
                                     ELSE s.attach[i]]
    BY DEF Cleared
  <1>2. \A i \in Enclosed(ls) : i \in Items
    <2>1. /\ ls \in Seq(Letters) /\ DOMAIN ls = 1..Len(ls)
      BY DEF Sendable
    <2>2. \A k \in DOMAIN ls : ls[k] \in Letters
      BY <2>1
    <2>3. \A k \in DOMAIN ls : ls[k].items \subseteq Items
      BY <2>2 DEF Letters
    <2>4. QED
      BY <2>3 DEF Enclosed
  <1>3. QED
    BY <1>1, <1>2 DEF Accounts

LEMMA ClearStep ==
  ASSUME EconomyInv, NEW p \in online, NEW D, NEW c, NEW r, NEW I, NEW X, X \subseteq gone,
         Clears(Settled, p, D, c, r, I, X), NEW s1, s1 = Cleared(Settled, D, c, r, I, X),
         NEW ls, Sendable(ls), Accounts(Settled, D, X, ls),
         NEW v \in 0..Cap, NEW fe \in Int, NEW t, NEW e,
         t.login = Nobody, e = Execute(Settled, t), queue' = Append(queue, t),
         OneClear(Settled, e, p, I, s1, ls, fe), Pursed(e, p, v, I),
         (v - money[p]) + ((MailSum(s1) - MailSum(Settled)) + Cash(ls)) + fe = 0,
         box[p].loaded, NEW M, LeftShown(s1, box[p], D, M, gone),
         NEW b1, b1 = [loaded |-> TRUE, mails |-> M, missed |-> box[p].missed],
         ClearMemory(p, v, I, b1, ls)
  PROVE  EconomyInv'
  <1> DEFINE bx == [box EXCEPT ![p] = b1]
  <1>1. /\ disk' = disk /\ online' = online /\ net' = net /\ gone' = gone /\ trade' = trade
        /\ auctions' = auctions /\ aitems' = aitems /\ due' = due
        /\ money' = [money EXCEPT ![p] = v]
        /\ items' = [items EXCEPT ![p] = items[p] \cup I]
        /\ box' = Delivered(bx, ls)
        /\ RoomFor(1) /\ RoomForMails(Len(ls))
    BY DEF ClearMemory
  <1>2. /\ Sound(Settled) /\ BoxesOK(Settled, box, online, gone) /\ p \in Players
        /\ TradesOK(trade, online) /\ online \subseteq Players
    BY SettledSound DEF EconomyInv, MemoryTyped
  <1>3. /\ box = [q \in Players |-> box[q]]
        /\ \A q \in Players : BoxOK(Settled, box[q], q, gone)
        /\ \A q \in Players \ online : box[q] = NoBox
        /\ Items \ Settled.kept \subseteq gone
    BY <1>2 DEF BoxesOK
  <1>4. bx[p] = b1 /\ (\A q \in Players \ {p} : bx[q] = box[q]) /\ DOMAIN bx = Players
    BY <1>2, <1>3
  <1>5. bx = [q \in Players |-> bx[q]]
    BY <1>3
  <1> HIDE DEF bx
  <1>6. /\ M = [x \in DOMAIN box[p].mails \ D |-> M[x]]
        /\ \A x \in DOMAIN box[p].mails \ D :
              /\ M[x].state \in {"same", "deleted"}
              /\ M[x] = Shown(s1, x, M[x].state)
              /\ M[x].state = "deleted" => M[x].items \subseteq gone
    BY DEF LeftShown
  <1>7. BoxOK(s1, b1, p, gone)
    <2>1. BoxOK(Settled, box[p], p, gone)
      BY <1>2, <1>3
    <2>2. QED
      BY <1>2, <2>1, ClearedOwn
  <1>8. ASSUME NEW q \in Players \ {p}
        PROVE  BoxOK(s1, box[q], q, gone)
    <2>1. BoxOK(Settled, box[q], q, gone)
      BY <1>3
    <2>2. QED
      BY <1>2, <2>1, ClearedOthers
  <1>9. BoxesOK(s1, bx, online, gone)
    <2>1. \A q \in Players : BoxOK(s1, bx[q], q, gone)
      BY <1>4, <1>7, <1>8
    <2>2. \A q \in Players \ online : bx[q] = NoBox
      BY <1>3, <1>4
    <2>3. Items \ s1.kept \subseteq gone
      BY <1>3 DEF Cleared
    <2>4. QED
      BY <1>5, <2>1, <2>2, <2>3 DEF BoxesOK
  <1>10. Fresh(s1, bx, ls)
    <2>1. \A i \in Enclosed(ls) : s1.attach[i] = Nobody
      BY ClearedItems
    <2>2. \A q \in Players : DOMAIN bx[q].mails \subseteq DOMAIN box[q].mails
      BY <1>4, <1>6
    <2>3. QED
      BY <1>1, <1>2, <2>1, <2>2, ClearedFresh
  <1>11. /\ Sound(e)
         /\ PursesAgree(e, online, [money EXCEPT ![p] = v], net,
                        [items EXCEPT ![p] = items[p] \cup I])
         /\ MemoryTyped(online, [money EXCEPT ![p] = v], net,
                        [items EXCEPT ![p] = items[p] \cup I])
         /\ \A q \in Players \ online : SamePurse(Settled, e, q)
         /\ \A q \in Players \ {p} : SameMails(Settled, e, q)
         /\ HouseOK(e, auctions, aitems, due)
    BY <1>10, ClearedRows
  <1>12. MailTyped(s1)
    BY <1>2, ClearedMails
  <1>13. Sent(s1, e, ls) /\ e.kept = s1.kept
    BY DEF OneClear
  <1>14. StillLoaded(bx, ls) /\ BoxesOK(e, Delivered(bx, ls), online, gone)
    <2>1. Items \ e.kept \subseteq gone
      BY <1>9, <1>13 DEF BoxesOK
    <2>2. QED
      BY <1>9, <1>10, <1>12, <1>13, <2>1, LettersRows
  <1>15. \A q \in online' : ~box'[q].loaded => ~box[q].loaded /\ SameMails(Settled, e, q)
    <2> SUFFICES ASSUME NEW q \in online, ~box'[q].loaded
                 PROVE  ~box[q].loaded /\ SameMails(Settled, e, q)
      BY <1>1
    <2>1. ~bx[q].loaded
      BY <1>1, <1>2, <1>14 DEF StillLoaded
    <2>2. q # p
      BY <1>4, <2>1
    <2>3. QED
      BY <1>2, <1>4, <1>11, <2>1, <2>2
  <1>16. \A q \in Players \ online : SamePurse(Settled, e, q) /\ SameMails(Settled, e, q)
    BY <1>11
  <1>17. /\ BoxesOK(e, box', online', gone') /\ TradesOK(trade', online')
         /\ online' \subseteq online
         /\ PursesAgree(e, online', money', net', items')
         /\ MemoryTyped(online', money', net', items')
         /\ HouseOK(e, auctions', aitems', due')
    BY <1>1, <1>2, <1>11, <1>14
  <1>18. QED
    BY <1>1, <1>11, <1>15, <1>16, <1>17, PostStep


LEMMA ClearTrans ==
  ASSUME NEW s, NEW p \in Players, NEW D, NEW c, NEW r, NEW I, NEW X,
         Clears(s, p, D, c, r, I, X), NEW s1, s1 = Cleared(s, D, c, r, I, X),
         NEW ls, NEW pa, NEW at, ClearWrites(s, p, D, c, r, I, X, ls, pa, at),
         NEW mo, NEW ne, NEW ro, DOMAIN ro = I, \A i \in I : ro[i] = p, NEW fe, NEW e,
         Executed(s, e, mo, ne, ro, NewRows(ls), pa, D, at, X, None, fe)
  PROVE  OneClear(s, e, p, I, s1, ls, fe)
  <1>1. /\ D \subseteq MailIds
        /\ c \in MailIds \ D \/ c = Nobody
        /\ I \subseteq Items /\ Nobody \notin MailIds
    BY HoldingsConstants DEF Clears
  <1>2. /\ s1.mail = [id \in MailIds |-> IF id \in D THEN NoMail
                                         ELSE IF id = c THEN r ELSE s.mail[id]]
        /\ s1.attach = [i \in Items |-> IF i \in I \/ s.attach[i] \in D THEN Nobody
                                        ELSE s.attach[i]]
        /\ s1.kept = s.kept \ X
    BY DEF Cleared
  <1>3. DOMAIN None = {} /\ DOMAIN NewRows(ls) = Ids(ls)
    BY DEF None, NewRows
  <1>4. /\ e = [money |-> e.money, net |-> e.net, row |-> e.row, mail |-> e.mail,
                attach |-> e.attach, kept |-> e.kept, lot |-> e.lot, fees |-> e.fees]
        /\ e.row = [i \in Items |-> IF i \in I THEN ro[i] ELSE s.row[i]]
        /\ e.kept = s.kept \ X
        /\ e.lot = [a \in Lots |-> s.lot[a]]
        /\ e.fees = s.fees + fe
    BY <1>3 DEF Executed
  <1>5. e.row = [i \in Items |-> IF i \in I THEN p ELSE s.row[i]]
    BY <1>4
  <1>6. e.mail = [id \in MailIds |-> IF id \in Ids(ls) THEN Row(LetterOf(ls, id))
                                     ELSE s1.mail[id]]
    <2>1. e.mail = [id \in MailIds |->
             IF id \in DOMAIN NewRows(ls) THEN NewRows(ls)[id]
             ELSE IF id \in D \/ s.mail[id] = NoMail THEN NoMail
             ELSE IF id \in DOMAIN pa
                  THEN [s.mail[id] EXCEPT !.money = pa[id].money, !.cod = pa[id].cod]
                  ELSE s.mail[id]]
      BY DEF Executed
    <2>2. ASSUME NEW id \in MailIds
          PROVE  e.mail[id] = IF id \in Ids(ls) THEN Row(LetterOf(ls, id)) ELSE s1.mail[id]
      <3>1. CASE id \in Ids(ls)
        <4>1. e.mail[id] = NewRows(ls)[id]
          BY <1>3, <2>1, <3>1
        <4>2. NewRows(ls)[id] = Row(LetterOf(ls, id))
          BY <3>1 DEF NewRows
        <4>3. QED
          BY <3>1, <4>1, <4>2
      <3>2. CASE id \notin Ids(ls) /\ id \in D
        BY <1>2, <1>3, <2>1, <3>2
      <3>3. CASE id \notin Ids(ls) /\ id \notin D /\ id = c
        <4>1. /\ DOMAIN pa = {c} /\ s.mail[c] # NoMail
              /\ r = [s.mail[c] EXCEPT !.money = pa[c].money, !.cod = pa[c].cod]
          BY <1>1, <3>3 DEF ClearWrites
        <4>2. e.mail[id] = [s.mail[c] EXCEPT !.money = pa[c].money, !.cod = pa[c].cod]
          BY <1>3, <2>1, <3>3, <4>1
        <4>3. s1.mail[id] = r
          BY <1>2, <3>3
        <4>4. QED
          BY <3>3, <4>1, <4>2, <4>3
      <3>4. CASE id \notin Ids(ls) /\ id \notin D /\ id # c
        <4>1. id \notin DOMAIN pa
          BY <3>4 DEF ClearWrites
        <4>2. e.mail[id] = s.mail[id]
          BY <1>3, <2>1, <3>4, <4>1
        <4>3. QED
          BY <1>2, <3>4, <4>2
      <3>5. QED
        BY <3>1, <3>2, <3>3, <3>4
    <2>3. e.mail = [id \in MailIds |-> e.mail[id]]
      BY <2>1
    <2>4. QED
      BY <2>2, <2>3
  <1>7. e.attach = [i \in Items |-> IF i \in Enclosed(ls) THEN NewAttached(ls)[i]
                                    ELSE s1.attach[i]]
    <2>1. e.attach = [i \in Items |->
             IF i \in DOMAIN at THEN at[i]
             ELSE IF s.attach[i] \in D THEN Nobody ELSE s.attach[i]]
      BY DEF Executed
    <2>2. ASSUME NEW i \in Items
          PROVE  e.attach[i] = IF i \in Enclosed(ls) THEN NewAttached(ls)[i] ELSE s1.attach[i]
      BY <1>2, <2>1 DEF ClearWrites
    <2>3. e.attach = [i \in Items |-> e.attach[i]]
      BY <2>1
    <2>4. QED
      BY <2>2, <2>3
  <1>8. Sent(s1, e, ls)
    BY <1>6, <1>7 DEF Sent
  <1>9. QED
    BY <1>2, <1>4, <1>5, <1>8 DEF OneClear
-----------------------------------------------------------------------------
(* A mail its receiver can open is in the rows.                             *)
LEMMA OpenedMail ==
  ASSUME EconomyInv, NEW p \in online, NEW id, Opened(p, id)
  PROVE  /\ p \in Players /\ box[p].loaded /\ id \in MailIds
         /\ id \in DOMAIN box[p].mails
         /\ BoxOK(Settled, box[p], p, gone)
         /\ box[p].mails[id] = Shown(Settled, id, "same")
         /\ Settled.mail[id].to = p /\ Settled.mail[id] \in Mails
         /\ Settled.mail[id] # NoMail
  <1> DEFINE b == box[p]
  <1>1. p \in Players /\ BoxesOK(Settled, box, online, gone)
    BY DEF EconomyInv, MemoryTyped
  <1>2. BoxOK(Settled, b, p, gone)
    BY <1>1 DEF BoxesOK
  <1>3. id \in DOMAIN b.mails /\ b.mails[id].state # "deleted"
    BY DEF Opened
  <1> HIDE DEF b
  <1>4. BoxShape(b) /\ BoxShows(Settled, b, p) /\ (~b.loaded => b = NoBox)
    BY <1>2 DEF BoxOK
  <1>5. id \in MailIds /\ b.mails[id].state = "same"
    BY <1>3, <1>4 DEF BoxShape
  <1>6. Settled.mail[id].to = p /\ b.mails[id] = Shown(Settled, id, "same")
    BY <1>3, <1>4, <1>5 DEF BoxShows
  <1>7. b.loaded
    BY <1>3, <1>4 DEF NoBox, None
  <1>8. p # Nobody
    BY <1>1, HoldingsConstants
  <1>9. Settled.mail[id] # NoMail
    BY <1>6, <1>8 DEF NoMail
  <1>10. Settled.mail[id] \in Mails
    BY SettledSound, <1>5, <1>9, RowTypes
  <1> QED
    BY <1>1, <1>2, <1>3, <1>5, <1>6, <1>7, <1>9, <1>10 DEF b

LEMMA MoneyOne ==
  ASSUME NEW s, NEW id, s.mail[id].money \in Int
  PROVE  MoneyIn(s, {id}) = s.mail[id].money
  <1> DEFINE f == [x \in {id} |-> s.mail[x].money]
  <1>1. IsFiniteSet({id})
    BY FS_Singleton
  <1>2. f[id] = s.mail[id].money /\ \A x \in {id} : f[x] \in Int
    OBVIOUS
  <1>3. MoneyIn(s, {id}) = Total(f, {id})
    BY DEF MoneyIn
  <1> HIDE DEF f
  <1>4. Total(f, {id}) = f[id] + Total(f, {id} \ {id})
    BY <1>1, <1>2, TotalRemove
  <1>5. {id} \ {id} = {}
    OBVIOUS
  <1>6. Total(f, {id} \ {id}) = 0
    BY <1>5, TotalEmpty
  <1> QED
    BY <1>2, <1>3, <1>4, <1>6

LEMMA MoneyNone ==
  ASSUME NEW s
  PROVE  MoneyIn(s, {}) = 0
  BY TotalEmpty DEF MoneyIn

(* The mail of which no trace is left.                                      *)
LEMMA LeftMails ==
  ASSUME EconomyInv, NEW p \in online, NEW D, NEW c, NEW r, NEW I, NEW X,
         Clears(Settled, p, D, c, r, I, X), NEW s1, s1 = Cleared(Settled, D, c, r, I, X),
         NEW x \in DOMAIN box[p].mails, x \notin D, x # c
  PROVE  /\ box[p].mails[x] = Shown(s1, x, box[p].mails[x].state)
         /\ box[p].mails[x].state \in {"same", "deleted"}
         /\ box[p].mails[x].state = "deleted" => box[p].mails[x].items \subseteq gone
  <1> DEFINE b == box[p]
  <1>1. p \in Players /\ BoxesOK(Settled, box, online, gone)
    BY DEF EconomyInv, MemoryTyped
  <1>2. BoxOK(Settled, b, p, gone)
    BY <1>1 DEF BoxesOK
  <1>3. x \in DOMAIN b.mails
    OBVIOUS
  <1> HIDE DEF b
  <1>4. BoxShape(b) /\ BoxShows(Settled, b, p) /\ BoxGone(b, gone)
    BY <1>2 DEF BoxOK
  <1>5. x \in MailIds \ (D \cup {c}) /\ b.mails[x].state \in {"same", "deleted"}
    BY <1>3, <1>4 DEF BoxShape
  <1>6. b.mails[x] = Shown(Settled, x, b.mails[x].state)
    BY <1>3, <1>4 DEF BoxShows
  <1>7. Sound(Settled)
    BY SettledSound
  <1>8. s1.mail[x] = Settled.mail[x] /\ Attached(s1, x) = Attached(Settled, x)
    BY <1>1, <1>5, <1>7, ClearedMails
  <1>9. \A st : Shown(s1, x, st) = Shown(Settled, x, st)
    BY <1>8 DEF Shown
  <1>10. b.mails[x] = Shown(s1, x, b.mails[x].state)
    BY <1>6, <1>9
  <1>11. b.mails[x].state = "deleted" => b.mails[x].items \subseteq gone
    BY <1>3, <1>4 DEF BoxGone
  <1> QED
    BY <1>5, <1>10, <1>11 DEF b
LEMMA BoxUpdate ==
  ASSUME EconomyInv, NEW p \in Players, box[p].loaded, NEW M
  PROVE  [box EXCEPT ![p].mails = M]
           = [box EXCEPT ![p] = [loaded |-> TRUE, mails |-> M, missed |-> box[p].missed]]
  <1>1. box = [q \in Players |-> box[q]] /\ BoxOK(Settled, box[p], p, gone)
    BY DEF EconomyInv, BoxesOK
  <1>2. /\ box[p] = [loaded |-> box[p].loaded, mails |-> box[p].mails, missed |-> box[p].missed]
        /\ box[p].loaded \in BOOLEAN
    BY <1>1 DEF BoxOK, BoxShape
  <1>3. box[p].loaded = TRUE
    BY <1>2
  <1>4. [box[p] EXCEPT !.mails = M] = [loaded |-> TRUE, mails |-> M, missed |-> box[p].missed]
    <2>1. ASSUME NEW r, NEW a, NEW b, NEW c, r = [loaded |-> a, mails |-> b, missed |-> c]
          PROVE  [r EXCEPT !.mails = M] = [loaded |-> a, mails |-> M, missed |-> c]
      BY <2>1
    <2>2. box[p] = [loaded |-> TRUE, mails |-> box[p].mails, missed |-> box[p].missed]
      BY <1>2, <1>3
    <2> QED
      BY <2>1, <2>2
  <1> QED
    BY <1>1, <1>4

(* Returning a mail: it is deleted, and its contents go back in another.    *)
LEMMA ReturnInv ==
  ASSUME EconomyInv, NEW p \in online, NEW id, ReturnToSender(p, id),
         UNCHANGED <<house, trade>>
  PROVE  EconomyInv'
  <1> DEFINE m == Settled.mail[id]
             S == Attached(Settled, id)
             l == Letter(m.from, p, TRUE, m.money, 0, S)
             ls == << l >>
             t == Mailed([Blank EXCEPT !.drop = {id}], ls)
             e == Execute(Settled, t)
             s1 == Cleared(Settled, {id}, Nobody, Nobody, {}, {})
             M == [x \in DOMAIN box[p].mails \ {id} |-> box[p].mails[x]]
             b1 == [loaded |-> TRUE, mails |-> M, missed |-> box[p].missed]
  <1>1. /\ Opened(p, id) /\ box[p].mails[id].player /\ RoomFor(1) /\ RoomForMails(1)
        /\ Post(Mailed([Blank EXCEPT !.drop = {id}],
                << Letter(box[p].mails[id].from, p, TRUE, box[p].mails[id].money, 0,
                          box[p].mails[id].items) >>))
        /\ box' = Delivered([box EXCEPT ![p].mails =
                 [x \in DOMAIN box[p].mails \ {id} |-> box[p].mails[x]]],
                << Letter(box[p].mails[id].from, p, TRUE, box[p].mails[id].money, 0,
                          box[p].mails[id].items) >>)
        /\ UNCHANGED <<online, money, net, items, disk, gone>>
    BY DEF ReturnToSender
  <1>2. /\ p \in Players /\ box[p].loaded /\ id \in MailIds /\ id \in DOMAIN box[p].mails
        /\ BoxOK(Settled, box[p], p, gone)
        /\ box[p].mails[id] = Shown(Settled, id, "same")
        /\ m.to = p /\ m \in Mails /\ m # NoMail
    BY <1>1, OpenedMail
  <1>3. /\ box[p].mails[id].from = m.from /\ box[p].mails[id].player = m.player
        /\ box[p].mails[id].money = m.money /\ box[p].mails[id].items = S
    BY <1>2, ShownParts
  <1>4. /\ Post(t) /\ box' = Delivered([box EXCEPT ![p].mails = M], ls)
        /\ m.player
    BY <1>1, <1>3
  <1>5. /\ Sound(Settled) /\ Settled \in Database /\ IsQueue(queue)
    BY SettledSound
  <1>6. m.from \in Players /\ S \subseteq Items /\ m.money \in Int
    BY <1>2, <1>4, <1>5 DEF Sound, Proper, Attached, Mails
  <1>7. l \in Letters /\ l.player /\ l.from = p /\ l.cod = 0 /\ l.money = m.money /\ l.items = S
    BY <1>2, <1>6 DEF Letter, Letters
  <1>8. Sendable(ls) /\ Len(ls) = 1 /\ Cash(ls) = m.money /\ Enclosed(ls) = S
    <2> HIDE DEF l
    <2>1. (l.player => l.from \in Players) /\ (l.cod > 0 => l.player)
      BY <1>7, <1>2
    <2> QED
      BY <1>7, <2>1, OneLetter
  <1>9. t = Trans(None, None, None, NewRows(ls), None, {id}, NewAttached(ls), {}, None, 0)
    <2> HIDE DEF ls
    <2>1. [Blank EXCEPT !.drop = {id}]
            = Trans(None, None, None, None, None, {id}, None, {}, None, 0)
      BY BlankWrites, Zenon
    <2> QED
      BY <2>1, OneMailed
  <1>10. e = Execute(Settled, t) /\ s1 = Cleared(Settled, {id}, Nobody, Nobody, {}, {})
         /\ M = [x \in DOMAIN box[p].mails \ {id} |-> box[p].mails[x]]
         /\ b1 = [loaded |-> TRUE, mails |-> M, missed |-> box[p].missed]
    OBVIOUS
  <1> HIDE DEF ls, l, t, e, s1, M, b1, m, S
  <1>11. t.login = Nobody
    BY <1>9 DEF Trans
  <1>12. Executed(Settled, e, None, None, None, NewRows(ls), None, {id}, NewAttached(ls),
                  {}, None, 0)
    <2>1. DOMAIN None = {}
      BY DEF None
    <2>2. e = Execute(Settled, Trans(None, None, None, NewRows(ls), None, {id},
                                     NewAttached(ls), {}, None, 0))
      BY <1>9, <1>10
    <2> QED
      BY <2>1, <2>2, <1>5, ExecuteParts
  <1>13. Clears(Settled, p, {id}, Nobody, Nobody, {}, {})
    BY <1>2 DEF Clears, m
  <1>14. ClearWrites(Settled, p, {id}, Nobody, Nobody, {}, {}, ls, None, NewAttached(ls))
    BY DEF ClearWrites, None, NewAttached, Enclosed
  <1>15. OneClear(Settled, e, p, {}, s1, ls, 0)
    <2>1. DOMAIN None = {} /\ \A i \in {} : None[i] = p
      BY DEF None
    <2> QED
      BY <1>2, <1>10, <1>12, <1>13, <1>14, <2>1, ClearTrans
  <1>16. Accounts(Settled, {id}, {}, ls)
    BY <1>8 DEF Accounts, S, Attached
  <1>17. Pursed(e, p, money[p], {})
    <2>1. /\ e.money = [q \in Players |-> Settled.money[q]]
          /\ e.net = [q \in Players |-> Settled.net[q]]
          /\ e.row = [i \in Items |-> Settled.row[i]]
      BY <1>12 DEF Executed, None
    <2>2. e.money = Settled.money /\ e.net = Settled.net /\ e.row = Settled.row
      BY <2>1, <1>5 DEF Database
    <2> QED
      BY <2>2, PurseKept
  <1>18. MailSum(s1) = MailSum(Settled) - m.money
    <2>1. MoneyIn(Settled, {id}) = m.money
      BY <1>6, MoneyOne DEF m
    <2>2. MailSum(s1) = MailSum(Settled) - MoneyIn(Settled, {id})
      BY <1>2, <1>5, <1>10, <1>13, ClearedSum
    <2> QED
      BY <2>1, <2>2
  <1>19. money[p] \in 0..Cap /\ money[p] \in Int
    BY Carried
  <1>20. (money[p] - money[p]) + ((MailSum(s1) - MailSum(Settled)) + Cash(ls)) + 0 = 0
    <2>1. MailSum(Settled) \in Int
      BY <1>5, SumTypes
    <2> QED
      BY <2>1, <1>6, <1>8, <1>18, <1>19
  <1>21. LeftShown(s1, box[p], {id}, M, gone)
    <2>1. M = [x \in DOMAIN box[p].mails \ {id} |-> M[x]]
      BY <1>10
    <2>2. ASSUME NEW x \in DOMAIN box[p].mails \ {id}
          PROVE  /\ M[x].state \in {"same", "deleted"} /\ M[x] = Shown(s1, x, M[x].state)
                 /\ M[x].state = "deleted" => M[x].items \subseteq gone
      <3>1. x # Nobody
        BY <1>2, HoldingsConstants DEF BoxOK, BoxShape
      <3>2. M[x] = box[p].mails[x]
        BY <1>10
      <3>3. x \in DOMAIN box[p].mails /\ x \notin {id}
        OBVIOUS
      <3> QED
        BY <1>10, <1>13, <3>1, <3>2, <3>3, LeftMails
    <2> QED
      BY <2>1, <2>2 DEF LeftShown
  <1>22. [box EXCEPT ![p].mails = M] = [box EXCEPT ![p] = b1]
    BY <1>2, <1>10, BoxUpdate
  <1>23. ClearMemory(p, money[p], {}, b1, ls)
    <2>1. money = [money EXCEPT ![p] = money[p]]
      BY DEF EconomyInv, MemoryTyped
    <2>2. items = [items EXCEPT ![p] = items[p] \cup {}]
      BY DEF EconomyInv, MemoryTyped
    <2>3. UNCHANGED <<online, money, net, items, disk, gone>> /\ UNCHANGED <<auctions, aitems, due>>
          /\ trade' = trade
      BY <1>1 DEF house
    <2>4. RoomFor(1) /\ RoomForMails(Len(ls))
      BY <1>1, <1>8
    <2>5. box' = Delivered([box EXCEPT ![p] = b1], ls)
      BY <1>4, <1>22
    <2> QED
      BY <2>1, <2>2, <2>3, <2>4, <2>5 DEF ClearMemory
  <1>24. queue' = Append(queue, t)
    BY <1>4 DEF Post
  <1>25. {} \subseteq gone /\ 0 \in Int
    OBVIOUS
  <1> QED
    BY <1>2, <1>8, <1>10, <1>11, <1>13, <1>15, <1>16, <1>17, <1>19, <1>20, <1>21, <1>23,
       <1>24, <1>25, ClearStep
-----------------------------------------------------------------------------

LEMMA BoxTransParts ==
  ASSUME NEW p, NEW b, NEW ls, NEW f, NEW m, NEW n, NEW queued
  PROVE  BoxTrans(p, b, ls, f, m, n, queued)
           = Trans(At(p, m), At(p, n), QueuedRows({p}, queued), NewRows(ls), PaidRows(p, b),
                   InState(p, b, "deleted"), Override(NewAttached(ls), Erased(p, b)),
                   LostIn(p, b), None, f + ThrownAway(p, b))
  <1> DEFINE A == At(p, m)
             B == At(p, n)
             Q == QueuedRows({p}, queued)
             O == Override(NewAttached(ls), Erased(p, b))
             D == InState(p, b, "deleted")
             Z0 == [Blank EXCEPT !.fees = f]
  <1>1. Mailed(Z0, ls) = Trans(None, None, None, NewRows(ls), None, {}, NewAttached(ls),
                               {}, None, f)
    <2>1. Z0 = Trans(None, None, None, None, None, {}, None, {}, None, f)
      BY BlankFees
    <2> HIDE DEF Z0
    <2> QED
      BY <2>1, OneMailed
  <1>2. SavingMail(Mailed(Z0, ls), p, b)
          = Trans(None, None, None, NewRows(ls), PaidRows(p, b), {} \cup D, O,
                  {} \cup LostIn(p, b), None, f + ThrownAway(p, b))
    <2> HIDE DEF A, B, Q, Z0
    <2>1. SavingMail(Trans(None, None, None, NewRows(ls), None, {}, NewAttached(ls),
                           {}, None, f), p, b)
          = Trans(None, None, None, NewRows(ls), PaidRows(p, b), {} \cup D, O,
                  {} \cup LostIn(p, b), None, f + ThrownAway(p, b))
      BY SavingMailTrans DEF PaidRows, Erased, LostIn, ThrownAway
    <2> QED
      BY <1>1, <2>1
  <1>3. BoxTrans(p, b, ls, f, m, n, queued)
          = Trans(Override(None, A), Override(None, B), Override(None, Q), NewRows(ls),
                  PaidRows(p, b), {} \cup D, O, {} \cup LostIn(p, b), None,
                  f + ThrownAway(p, b))
    <2> DEFINE X == {} \cup D
               Y == {} \cup LostIn(p, b)
               Z == f + ThrownAway(p, b)
               P == PaidRows(p, b)
               N == NewRows(ls)
    <2> HIDE DEF O, D, X, Y, Z, P, N, Z0
    <2>1. Saving(Trans(None, None, None, N, P, X, O, Y, None, Z), {p}, m, n, queued)
          = Trans(Override(None, A), Override(None, B), Override(None, Q), N, P, X, O, Y,
                  None, Z)
      BY SavingTrans DEF At
    <2> QED
      BY <1>2, <2>1 DEF BoxTrans, X, Y, Z, P, N, Z0
  <1>4. A = [x \in DOMAIN A |-> A[x]] /\ B = [x \in DOMAIN B |-> B[x]]
    BY DEF At
  <1>5. Q = [x \in DOMAIN Q |-> Q[x]]
    BY DEF QueuedRows
  <1> HIDE DEF A, B, Q, O, D, Z0
  <1>6. Override(None, A) = A /\ Override(None, B) = B /\ Override(None, Q) = Q
    BY <1>4, <1>5, OverrideNone
  <1>7. {} \cup D = D /\ {} \cup LostIn(p, b) = LostIn(p, b)
    OBVIOUS
  <1>8. BoxTrans(p, b, ls, f, m, n, queued)
          = Trans(A, B, Q, NewRows(ls), PaidRows(p, b), D, O, LostIn(p, b), None,
                  f + ThrownAway(p, b))
    BY <1>3, <1>6, <1>7
  <1> QED
    BY <1>8 DEF A, B, Q, O, D


LEMMA TouchedStates ==
  ASSUME EconomyInv, NEW p \in online, NEW b, NEW c, NEW r, NEW I, Touched(b, p, c, r, I),
         NEW D, D = InState(p, b, "deleted")
  PROVE  /\ D = InState(p, box, "deleted")
         /\ c = Nobody => InState(p, b, "changed") = {}
         /\ c # Nobody => InState(p, b, "changed") = {c}
         /\ D \subseteq MailIds /\ D \subseteq DOMAIN box[p].mails /\ c \notin D
         /\ \A x \in D : /\ Settled.mail[x].to = p /\ b[p].mails[x] = Shown(Settled, x, "deleted")
                         /\ Attached(Settled, x) \subseteq gone
  <1>1. p \in Players /\ BoxesOK(Settled, box, online, gone)
    BY DEF EconomyInv, MemoryTyped
  <1>2. BoxOK(Settled, box[p], p, gone)
    BY <1>1 DEF BoxesOK
  <1>3. BoxShape(box[p]) /\ BoxShows(Settled, box[p], p) /\ BoxGone(box[p], gone)
    BY <1>2 DEF BoxOK
  <1>4. \A x \in DOMAIN box[p].mails : x \in MailIds /\ box[p].mails[x].state \in {"same", "deleted"}
    BY <1>3 DEF BoxShape
  <1>5. Nobody \notin DOMAIN box[p].mails
    BY <1>4, HoldingsConstants
  <1>6. c # Nobody => c \in DOMAIN box[p].mails /\ box[p].mails[c].state = "same"
                      /\ b[p].mails[c].state = "changed"
    BY DEF Touched
  <1>7. /\ DOMAIN b[p].mails = DOMAIN box[p].mails
        /\ \A x \in DOMAIN box[p].mails : x # c => b[p].mails[x] = box[p].mails[x]
    BY DEF Touched
  <1>8. D = InState(p, box, "deleted") /\ c \notin D
    BY <1>5, <1>6, <1>7 DEF InState
  <1>9. InState(p, b, "changed") = {x \in {c} : c # Nobody}
    BY <1>4, <1>5, <1>6, <1>7 DEF InState
  <1>10. D \subseteq DOMAIN box[p].mails
    BY <1>8 DEF InState
  <1>11. ASSUME NEW x \in D
         PROVE  /\ Settled.mail[x].to = p /\ b[p].mails[x] = Shown(Settled, x, "deleted")
                /\ Attached(Settled, x) \subseteq gone
    <2>1. x \in DOMAIN box[p].mails /\ box[p].mails[x].state = "deleted" /\ x # c
      BY <1>8 DEF InState
    <2>2. b[p].mails[x] = box[p].mails[x]
      BY <2>1, <1>7
    <2>3. Settled.mail[x].to = p /\ box[p].mails[x] = Shown(Settled, x, "deleted")
      BY <2>1, <1>3 DEF BoxShows
    <2>4. box[p].mails[x].items \subseteq gone
      BY <2>1, <1>3 DEF BoxGone
    <2>5. box[p].mails[x].items = Attached(Settled, x)
      BY <2>3, ShownParts
    <2> QED
      BY <2>2, <2>3, <2>4, <2>5
  <1> QED
    BY <1>4, <1>8, <1>9, <1>10, <1>11

LEMMA TouchedWrites ==
  ASSUME EconomyInv, NEW p \in online, NEW b, NEW c, NEW r, NEW I, Touched(b, p, c, r, I),
         NEW D, D = InState(p, b, "deleted")
  PROVE  BoxWrites(b, p, c, r, I, D)
  <1>1. /\ c = Nobody => InState(p, b, "changed") = {}
        /\ c # Nobody => InState(p, b, "changed") = {c}
        /\ D \subseteq MailIds
        /\ \A x \in D : /\ b[p].mails[x] = Shown(Settled, x, "deleted")
                        /\ Attached(Settled, x) \subseteq gone
    BY TouchedStates
  <1>2. \A x \in D : /\ b[p].mails[x].items = Attached(Settled, x)
                     /\ b[p].mails[x].money = Settled.mail[x].money
    BY <1>1, ShownParts
  <1>3. LostIn(p, b) = UNION {Attached(Settled, x) : x \in D}
    BY <1>2 DEF LostIn
  <1>4. LostIn(p, b) = {i \in Items : Settled.attach[i] \in D}
    BY <1>3 DEF Attached
  <1>5. LostIn(p, b) \subseteq gone
    BY <1>1, <1>3
  <1>6. ThrownAway(p, b) = MoneyIn(Settled, D)
    <2> DEFINE f == [x \in D |-> b[p].mails[x].money]
               g == [x \in D |-> Settled.mail[x].money]
    <2>1. f = g
      BY <1>2
    <2>2. ThrownAway(p, b) = Total(f, D) /\ MoneyIn(Settled, D) = Total(g, D)
      BY DEF ThrownAway, MoneyIn
    <2> QED
      BY <2>1, <2>2
  <1>7. c # Nobody => /\ b[p].mails[c].removed = I /\ b[p].mails[c].money = r.money
                      /\ b[p].mails[c].cod = r.cod
    BY DEF Touched
  <1>8. c = Nobody => I = {}
    <2>1. Nobody \notin DOMAIN box[p].mails
      <3>1. BoxShape(box[p])
        BY DEF EconomyInv, MemoryTyped, BoxesOK, BoxOK
      <3> QED
        BY <3>1, HoldingsConstants DEF BoxShape
    <2> QED
      BY <2>1 DEF Touched
  <1>9. UNION {b[p].mails[id].removed : id \in InState(p, b, "changed")} = I
    <2>1. CASE c = Nobody
      BY <2>1, <1>1, <1>8
    <2>2. CASE c # Nobody
      BY <2>2, <1>1, <1>7
    <2> QED
      BY <2>1, <2>2
  <1>10. DOMAIN Erased(p, b) = I /\ \A i \in I : Erased(p, b)[i] = Nobody
    BY <1>9 DEF Erased
  <1>11. c = Nobody => DOMAIN PaidRows(p, b) = {}
    BY <1>1 DEF PaidRows
  <1>12. c # Nobody => /\ DOMAIN PaidRows(p, b) = {c}
                       /\ PaidRows(p, b)[c].money = r.money
                       /\ PaidRows(p, b)[c].cod = r.cod
    BY <1>1, <1>7 DEF PaidRows
  <1> QED
    BY <1>4, <1>5, <1>6, <1>10, <1>11, <1>12 DEF BoxWrites


LEMMA RecastRow ==
  ASSUME NEW s, Sound(s), NEW p \in Players, NEW c, NEW r, NEW I, Recast(s, p, c, r, I)
  PROVE  /\ Repaid(s.mail[c], r, p) /\ I \subseteq Items /\ \A i \in I : s.attach[i] = c
  <1>1. s.mail[c] \in Mails
    BY RowTypes DEF Recast, Sound
  <1>2. s.mail[c].player => s.mail[c].from \in Players
    BY DEF Recast, Sound, Proper
  <1> DEFINE m == s.mail[c]
  <1>3. /\ r = [m EXCEPT !.money = r.money, !.cod = r.cod] /\ m.to = p
        /\ r.money \in Int /\ r.cod \in Nat /\ (r.cod > 0 => r.player)
        /\ m \in Mails
    BY <1>1 DEF Recast
  <1> HIDE DEF m
  <1>4. m = [to |-> m.to, from |-> m.from, player |-> m.player, money |-> m.money, cod |-> m.cod]
    BY <1>3 DEF Mails
  <1>5. r.to = m.to /\ r.from = m.from /\ r.player = m.player
    BY <1>3, <1>4
  <1>6. r = [to |-> m.to, from |-> m.from, player |-> m.player, money |-> r.money, cod |-> r.cod]
    BY <1>3, <1>4
  <1>7. r \in Mails
    BY <1>3, <1>6 DEF Mails
  <1>8. m.player => m.from \in Players
    BY <1>2 DEF m
  <1>9. Repaid(m, r, p)
    BY <1>3, <1>5, <1>7, <1>8 DEF Repaid
  <1> QED
    BY <1>9 DEF m, Recast, Attached

LEMMA SavedClears ==
  ASSUME EconomyInv, NEW p \in online, NEW b, NEW c, NEW r, NEW I, NEW D, NEW X, NEW ls, NEW f,
         NEW v, NEW m, NEW queued, NEW t, BoxSaved(p, b, c, r, I, D, X, ls, f, v, m, queued, t)
  PROVE  /\ Clears(Settled, p, D, c, r, I, X) /\ Accounts(Settled, D, X, ls)
         /\ X \subseteq gone /\ D = InState(p, box, "deleted")
  <1>1. /\ Touched(b, p, c, r, I) /\ (c # Nobody => Recast(Settled, p, c, r, I))
        /\ D = InState(p, b, "deleted") /\ X = LostIn(p, b) /\ Enclosed(ls) = {}
    BY DEF BoxSaved
  <1>2. /\ D = InState(p, box, "deleted") /\ D \subseteq MailIds /\ c \notin D
        /\ \A x \in D : Settled.mail[x].to = p
    BY <1>1, TouchedStates
  <1>3. X = {i \in Items : Settled.attach[i] \in D} /\ X \subseteq gone
    <2>1. BoxWrites(b, p, c, r, I, D)
      BY <1>1, TouchedWrites
    <2> QED
      BY <2>1, <1>1 DEF BoxWrites
  <1>4. p \in Players /\ Sound(Settled)
    BY SettledSound DEF EconomyInv, MemoryTyped
  <1>5. c # Nobody => /\ c \in MailIds /\ Repaid(Settled.mail[c], r, p) /\ I \subseteq Items
                      /\ \A i \in I : Settled.attach[i] = c
    <2>1. c # Nobody => c \in MailIds
      BY <1>1 DEF Recast
    <2> QED
      BY <2>1, <1>1, <1>4, RecastRow
  <1>6. c = Nobody => I = {}
    <2>1. BoxShape(box[p])
      BY <1>4 DEF EconomyInv, BoxesOK, BoxOK
    <2> QED
      BY <2>1, <1>1, HoldingsConstants DEF BoxShape, Touched
  <1>7. Clears(Settled, p, D, c, r, I, X)
    BY <1>2, <1>3, <1>5, <1>6 DEF Clears
  <1>8. Accounts(Settled, D, X, ls)
    BY <1>1, <1>3 DEF Accounts
  <1> QED
    BY <1>2, <1>3, <1>7, <1>8

LEMMA SavedRows ==
  ASSUME EconomyInv, NEW p \in online, NEW b, NEW c, NEW r, NEW I, NEW D, NEW X, NEW ls, NEW f,
         NEW v \in 0..Cap, NEW m, NEW queued, NEW t,
         BoxSaved(p, b, c, r, I, D, X, ls, f, v, m, queued, t),
         NEW s1, s1 = Cleared(Settled, D, c, r, I, X), NEW e, e = Execute(Settled, t),
         NEW bx, Fresh(s1, bx, ls), NEW fe, fe = f + MoneyIn(Settled, D)
  PROVE  /\ OneClear(Settled, e, p, I, s1, ls, fe) /\ Pursed(e, p, v, I)
         /\ t.login = Nobody /\ fe \in Int
         /\ MailSum(s1) = (MailSum(Settled) + Gain(c, r)) - (fe - f)
         /\ MailSum(Settled) \in Int /\ Gain(c, r) \in Int
  <1> DEFINE M == At(p, m)
             N == At(p, net)
             Q == QueuedRows({p}, queued)
             P == PaidRows(p, b)
             A == Override(NewAttached(ls), Erased(p, b))
             R == NewRows(ls)
             mi == MoneyIn(Settled, D)
  <1>1. /\ Touched(b, p, c, r, I) /\ (c # Nobody => Recast(Settled, p, c, r, I))
        /\ D = InState(p, b, "deleted") /\ X = LostIn(p, b) /\ Enclosed(ls) = {}
        /\ m[p] = v /\ queued[p] = I /\ Cardinality(items[p] \cup I) <= Space[p]
        /\ t = BoxTrans(p, b, ls, f, m, net, queued) /\ Sendable(ls) /\ f \in Int
    BY DEF BoxSaved
  <1>2. Clears(Settled, p, D, c, r, I, X) /\ Accounts(Settled, D, X, ls)
    BY SavedClears
  <1>3. /\ Sound(Settled) /\ Settled \in Database /\ p \in Players
    BY SettledSound DEF EconomyInv, MemoryTyped
  <1>4. /\ ThrownAway(p, b) = mi
        /\ DOMAIN Erased(p, b) = I /\ (\A i \in I : Erased(p, b)[i] = Nobody)
        /\ (c = Nobody => DOMAIN PaidRows(p, b) = {})
        /\ (c # Nobody => /\ DOMAIN PaidRows(p, b) = {c}
                          /\ PaidRows(p, b)[c].money = r.money
                          /\ PaidRows(p, b)[c].cod = r.cod)
    <2>1. BoxWrites(b, p, c, r, I, D)
      BY <1>1, TouchedWrites
    <2> QED
      BY <2>1 DEF BoxWrites
  <1>5. /\ mi \in Int
        /\ (c = Nobody => MailSum(s1) = MailSum(Settled) - mi)
        /\ (c # Nobody => MailSum(s1) = ((MailSum(Settled) - Settled.mail[c].money) + r.money) - mi)
    BY <1>2, <1>3, ClearedSum
  <1>6. MailSum(Settled) \in Int
    BY <1>3, SumTypes
  <1> HIDE DEF mi
  <1>7. Gain(c, r) \in Int /\ MailSum(s1) = (MailSum(Settled) + Gain(c, r)) - mi
    <2>1. CASE c = Nobody
      BY <2>1, <1>5, <1>6 DEF Gain
    <2>2. CASE c # Nobody
      <3>1. Settled.mail[c].money \in Int /\ r.money \in Int
        BY <2>2, <1>1, <1>3, RowTypes DEF Recast
      <3>2. Gain(c, r) = r.money - Settled.mail[c].money
        BY <2>2 DEF Gain
      <3>3. MailSum(s1) = ((MailSum(Settled) - Settled.mail[c].money) + r.money) - mi
        BY <2>2, <1>5
      <3> QED
        BY <3>1, <3>2, <3>3, <1>5, <1>6
    <2> QED
      BY <2>1, <2>2
  <1>71. fe = f + mi /\ fe \in Int /\ mi = fe - f
    BY <1>1, <1>5 DEF mi
  <1>8. t = Trans(M, N, Q, R, P, D, A, X, None, fe)
    BY <1>1, <1>4, <1>71, BoxTransParts
  <1>9. t.login = Nobody
    BY <1>8 DEF Trans
  <1>10. DOMAIN M = {p} /\ M[p] = v /\ DOMAIN N = {p} /\ N[p] = net[p]
    BY <1>1 DEF At
  <1>11. DOMAIN Q = I /\ \A i \in I : Q[i] = p
    <2>1. DOMAIN Q = I
      BY <1>1 DEF QueuedRows
    <2>2. ASSUME NEW i \in I PROVE Q[i] = p
      <3>1. i \in UNION {queued[x] : x \in {p}}
        BY <1>1
      <3>2. Q[i] = CHOOSE x \in {p} : i \in queued[x]
        BY <3>1 DEF QueuedRows
      <3>3. p \in {p} /\ i \in queued[p]
        BY <1>1
      <3> QED
        BY <3>2, <3>3
    <2> QED
      BY <2>1, <2>2
  <1>12. DOMAIN A = Enclosed(ls) \cup I /\ \A i \in I : A[i] = Nobody
    <2>1. DOMAIN NewAttached(ls) = {}
      BY <1>1 DEF NewAttached, Enclosed
    <2> QED
      BY <2>1, <1>1, <1>4 DEF Override
  <1>13. I \subseteq Items
    BY <1>2 DEF Clears
  <1> HIDE DEF M, N, Q, P, A, R
  <1>14. Executed(Settled, e, M, N, Q, R, P, D, A, X, None, fe)
    <2>1. e = Execute(Settled, Trans(M, N, Q, R, P, D, A, X, None, fe))
      BY <1>8
    <2>2. DOMAIN None = {} /\ DOMAIN M \subseteq Players /\ DOMAIN N \subseteq Players
          /\ DOMAIN Q \subseteq Items
      BY <1>3, <1>10, <1>11, <1>13 DEF None
    <2> QED
      BY <2>1, <2>2, <1>3, ExecuteParts
  <1>15. ClearWrites(Settled, p, D, c, r, I, X, ls, P, A)
    <2>1. c = Nobody => DOMAIN P = {}
      BY <1>4 DEF P
    <2>2. c # Nobody => /\ DOMAIN P = {c} /\ Settled.mail[c] # NoMail
                        /\ r = [Settled.mail[c] EXCEPT !.money = P[c].money, !.cod = P[c].cod]
      <3>1. c # Nobody => DOMAIN P = {c} /\ P[c].money = r.money /\ P[c].cod = r.cod
        BY <1>4 DEF P
      <3>2. c # Nobody => /\ Settled.mail[c] # NoMail
                          /\ r = [Settled.mail[c] EXCEPT !.money = r.money, !.cod = r.cod]
        BY <1>1 DEF Recast
      <3> QED
        BY <3>1, <3>2
    <2>3. \A i \in Enclosed(ls) : A[i] = NewAttached(ls)[i]
      BY <1>1
    <2> QED
      BY <2>1, <2>2, <2>3, <1>12 DEF ClearWrites
  <1>16. OneClear(Settled, e, p, I, s1, ls, fe)
    BY <1>2, <1>3, <1>11, <1>14, <1>15, ClearTrans DEF R
  <1>17. Pursed(e, p, v, I)
    <2>1. \A i \in I : Settled.row[i] = Nobody
      BY <1>1, <1>2, <1>3, <1>16, ClearedPlaces
    <2>2. e.money = [q \in Players |-> IF q = p THEN v ELSE Settled.money[q]]
      BY <1>10, <1>14 DEF Executed
    <2>3. e.net = [q \in Players |-> IF q = p THEN net[p] ELSE Settled.net[q]]
      <3>1. e.net = [q \in Players |-> IF q \in DOMAIN N THEN N[q] ELSE Settled.net[q]]
        BY <1>14 DEF Executed
      <3>2. \A q \in Players : (IF q \in DOMAIN N THEN N[q] ELSE Settled.net[q])
                                = (IF q = p THEN net[p] ELSE Settled.net[q])
        BY <1>10
      <3> QED
        BY <3>1, <3>2
    <2>4. e.row = [i \in Items |-> IF i \in I THEN p ELSE Settled.row[i]]
      BY <1>11, <1>14 DEF Executed
    <2> QED
      BY <2>1, <2>2, <2>3, <2>4, <1>1, <1>13, PurseSaved
  <1> QED
    BY <1>6, <1>7, <1>71, <1>9, <1>16, <1>17

LEMMA SettleRecord ==
  ASSUME NEW f, NEW pl, NEW mo, NEW co, NEW it, NEW re, NEW st
  PROVE  Settle([from |-> f, player |-> pl, money |-> mo, cod |-> co, items |-> it,
                 removed |-> re, state |-> st])
           = [from |-> f, player |-> pl, money |-> mo, cod |-> co, items |-> it,
              removed |-> {}, state |-> "same"]
  <1>1. [[from |-> f, player |-> pl, money |-> mo, cod |-> co, items |-> it,
          removed |-> re, state |-> st] EXCEPT !.state = "same"]
        = [from |-> f, player |-> pl, money |-> mo, cod |-> co, items |-> it,
           removed |-> re, state |-> "same"]
    OBVIOUS
  <1>2. [[from |-> f, player |-> pl, money |-> mo, cod |-> co, items |-> it,
          removed |-> re, state |-> "same"] EXCEPT !.removed = {}]
        = [from |-> f, player |-> pl, money |-> mo, cod |-> co, items |-> it,
           removed |-> {}, state |-> "same"]
    OBVIOUS
  <1> QED
    BY <1>1, <1>2, Zenon DEF Settle

LEMMA SettleShown ==
  ASSUME NEW s, NEW id
  PROVE  Settle(Shown(s, id, "same")) = Shown(s, id, "same")
  BY SettleRecord DEF Shown

LEMMA SettleChanged ==
  ASSUME NEW s, NEW id, NEW r, NEW I, NEW J, s.mail[id] = r, Attached(s, id) = J
  PROVE  Settle([from |-> r.from, player |-> r.player, money |-> r.money, cod |-> r.cod,
                 items |-> J, removed |-> I, state |-> "changed"])
           = Shown(s, id, "same")
  BY SettleRecord DEF Shown

LEMMA SavedShown ==
  ASSUME EconomyInv, NEW p \in online, NEW b, NEW c, NEW r, NEW I, NEW D, NEW X, NEW ls, NEW f,
         NEW v, NEW m, NEW queued, NEW t, BoxSaved(p, b, c, r, I, D, X, ls, f, v, m, queued, t),
         NEW s1, s1 = Cleared(Settled, D, c, r, I, X)
  PROVE  LeftShown(s1, box[p], D, SavedMails(p, b), gone)
  <1> DEFINE M == SavedMails(p, b)
  <1>1. Touched(b, p, c, r, I) /\ D = InState(p, b, "deleted")
    BY DEF BoxSaved
  <1>2. Clears(Settled, p, D, c, r, I, X) /\ D = InState(p, box, "deleted")
    BY SavedClears
  <1>3. p \in Players /\ Sound(Settled)
    BY SettledSound DEF EconomyInv, MemoryTyped
  <1>4. DOMAIN b[p].mails = DOMAIN box[p].mails
    BY <1>1 DEF Touched
  <1>5. M = [x \in DOMAIN box[p].mails \ D |-> M[x]]
    BY <1>1, <1>4 DEF SavedMails
  <1>6. \A x \in DOMAIN box[p].mails \ D : M[x] = Settle(b[p].mails[x])
    BY <1>1, <1>4 DEF SavedMails, Settle
  <1> HIDE DEF M
  <1>7. ASSUME NEW x \in DOMAIN box[p].mails \ D
        PROVE  M[x] = Shown(s1, x, "same")
    <2>1. CASE x # c
      <3>1. b[p].mails[x] = box[p].mails[x]
        BY <2>1, <1>1 DEF Touched
      <3>2. /\ box[p].mails[x] = Shown(s1, x, box[p].mails[x].state)
            /\ box[p].mails[x].state \in {"same", "deleted"}
        BY <2>1, <1>2, LeftMails
      <3>3. box[p].mails[x].state # "deleted"
        BY <1>2 DEF InState
      <3>4. b[p].mails[x] = Shown(s1, x, "same")
        BY <3>1, <3>2, <3>3
      <3> QED
        BY <3>4, <1>6, SettleShown
    <2>2. CASE x = c
      <3>1. c # Nobody
        <4>1. BoxShape(box[p])
          BY <1>3 DEF EconomyInv, BoxesOK, BoxOK
        <4> QED
          BY <4>1, <2>2, HoldingsConstants DEF BoxShape
      <3> DEFINE J == Attached(Settled, c) \ I
      <3>2. b[p].mails[c] = [from |-> r.from, player |-> r.player, money |-> r.money,
                              cod |-> r.cod, items |-> J,
                              removed |-> I, state |-> "changed"]
        BY <1>1, <3>1 DEF Touched
      <3>3. s1.mail[c] = r /\ Attached(s1, c) = J
        BY <1>2, <1>3, <3>1, ClearedMails
      <3> HIDE DEF J
      <3>4. Settle(b[p].mails[c]) = Shown(s1, c, "same")
        BY <3>2, <3>3, SettleChanged
      <3>5. M[x] = Settle(b[p].mails[x])
        BY <1>6
      <3> QED
        BY <3>4, <3>5, <2>2
    <2> QED
      BY <2>1, <2>2
  <1>8. ASSUME NEW x \in DOMAIN box[p].mails \ D
        PROVE  /\ M[x].state \in {"same", "deleted"} /\ M[x] = Shown(s1, x, M[x].state)
               /\ M[x].state = "deleted" => M[x].items \subseteq gone
    <2>1. M[x] = Shown(s1, x, "same")
      BY <1>7
    <2>2. M[x].state = "same"
      BY <2>1, ShownParts
    <2> QED
      BY <2>1, <2>2
  <1> QED
    BY <1>5, <1>8 DEF LeftShown, M


LEMMA SavedBoxIs ==
  ASSUME EconomyInv, NEW p \in Players, NEW mm, NEW b, b = WithMails(p, mm),
         box[p].loaded, NEW b1,
         b1 = [loaded |-> TRUE, mails |-> SavedMails(p, b), missed |-> box[p].missed]
  PROVE  SavedBox(b, p) = [box EXCEPT ![p] = b1]
  <1> DEFINE M == SavedMails(p, b)
  <1>1. box = [q \in Players |-> box[q]]
    BY DEF EconomyInv, BoxesOK
  <1>2. SavedBox(b, p) = [b EXCEPT ![p].mails = M]
    BY DEF SavedBox, SavedMails
  <1>3. b1 = [loaded |-> TRUE, mails |-> M, missed |-> box[p].missed]
    OBVIOUS
  <1> HIDE DEF M
  <1>4. [b EXCEPT ![p].mails = M] = [box EXCEPT ![p].mails = M]
    BY <1>1 DEF WithMails
  <1>5. [box EXCEPT ![p].mails = M]
          = [box EXCEPT ![p] = [loaded |-> TRUE, mails |-> M, missed |-> box[p].missed]]
    BY BoxUpdate
  <1> QED
    BY <1>2, <1>3, <1>4, <1>5

LEMMA SavedNothingSent ==
  ASSUME EconomyInv, NEW p \in online, NEW mm, NEW b, b = WithMails(p, mm),
         NEW c, NEW r, NEW I, NEW D, NEW X, NEW ls, NEW f,
         NEW v, NEW m, NEW queued, NEW t, BoxSaved(p, b, c, r, I, D, X, ls, f, v, m, queued, t),
         box[p].loaded
  PROVE  Delivered(SavedBox(b, p), << >>) = SavedBox(b, p)
  <1> DEFINE s1 == Cleared(Settled, D, c, r, I, X)
             M == SavedMails(p, b)
             b1 == [loaded |-> TRUE, mails |-> M, missed |-> box[p].missed]
             bx == [box EXCEPT ![p] = b1]
  <1>1. LeftShown(s1, box[p], D, M, gone)
    BY SavedShown
  <1>2. box = [q \in Players |-> box[q]] /\ \A q \in Players : BoxShape(box[q])
    BY DEF EconomyInv, BoxesOK, BoxOK
  <1>3. p \in Players /\ box[p].loaded
    BY DEF EconomyInv, MemoryTyped
  <1>4. SavedBox(b, p) = bx
    <2>1. b1 = [loaded |-> TRUE, mails |-> SavedMails(p, b), missed |-> box[p].missed]
      OBVIOUS
    <2> HIDE DEF b1, M, s1
    <2> QED
      BY <1>3, <2>1, SavedBoxIs
  <1>5. bx = [q \in Players |-> bx[q]]
    BY <1>2
  <1>6. bx[p] = b1 /\ \A q \in Players \ {p} : bx[q] = box[q]
    BY <1>2, <1>3
  <1> HIDE DEF M, bx, s1
  <1>7. BoxShape(b1)
    <2>1. /\ M = [x \in DOMAIN box[p].mails \ D |-> M[x]]
          /\ \A x \in DOMAIN box[p].mails \ D : M[x].state \in {"same", "deleted"}
      BY <1>1 DEF LeftShown
    <2>2. DOMAIN M = DOMAIN box[p].mails \ D
      BY <2>1
    <2>3. DOMAIN M \subseteq MailIds
      BY <2>2, <1>2, <1>3 DEF BoxShape
    <2>4. M = [x \in DOMAIN M |-> M[x]] /\ \A x \in DOMAIN M : M[x].state \in {"same", "deleted"}
      BY <2>1, <2>2
    <2> QED
      BY <2>3, <2>4 DEF BoxShape
  <1> HIDE DEF b1
  <1>8. \A q \in Players : BoxShape(bx[q])
    BY <1>2, <1>6, <1>7
  <1>9. Delivered(bx, << >>) = bx
    BY <1>5, <1>8, NoDeliveryTo
  <1> QED
    BY <1>4, <1>9


LEMMA BoxStep ==
  ASSUME EconomyInv, NEW p \in online, NEW mm, NEW b, b = WithMails(p, mm),
         NEW c, NEW r, NEW I, NEW D, NEW X, NEW ls, NEW f,
         NEW v \in 0..Cap, NEW m, NEW queued, NEW t, box[p].loaded,
         BoxSaved(p, b, c, r, I, D, X, ls, f, v, m, queued, t),
         BoxMemory(p, b, v, I, ls), queue' = Append(queue, t),
         (v - money[p]) + Gain(c, r) + Cash(ls) + f = 0
  PROVE  EconomyInv'
  <1> DEFINE s1 == Cleared(Settled, D, c, r, I, X)
             e == Execute(Settled, t)
             fe == f + MoneyIn(Settled, D)
             M == SavedMails(p, b)
             b1 == [loaded |-> TRUE, mails |-> M, missed |-> box[p].missed]
  <1>1. /\ s1 = Cleared(Settled, D, c, r, I, X) /\ e = Execute(Settled, t)
        /\ fe = f + MoneyIn(Settled, D)
        /\ b1 = [loaded |-> TRUE, mails |-> M, missed |-> box[p].missed]
    OBVIOUS
  <1>2. box[p].loaded /\ Sendable(ls) /\ Enclosed(ls) = {} /\ f \in Int
    BY DEF BoxSaved
  <1>3. Clears(Settled, p, D, c, r, I, X) /\ Accounts(Settled, D, X, ls) /\ X \subseteq gone
    BY SavedClears
  <1>4. p \in Players
    BY DEF EconomyInv, MemoryTyped
  <1>5. SavedBox(b, p) = [box EXCEPT ![p] = b1]
    <2>1. b1 = [loaded |-> TRUE, mails |-> SavedMails(p, b), missed |-> box[p].missed]
      OBVIOUS
    <2> HIDE DEF M, b1, s1, e, fe
    <2> QED
      BY <1>2, <1>4, <2>1, SavedBoxIs
  <1>6. LeftShown(s1, box[p], D, M, gone)
    BY SavedShown
  <1> HIDE DEF s1, e, fe, M, b1
  <1>7. RoomForMails(Len(ls)) /\ RoomFor(1)
    BY DEF BoxMemory
  <1>8. Fresh(s1, box, ls)
    <2>1. \A i \in Enclosed(ls) : s1.attach[i] = Nobody
      BY <1>2
    <2>2. \A q \in Players : DOMAIN box[q].mails \subseteq DOMAIN box[q].mails
      OBVIOUS
    <2> QED
      BY <1>1, <1>2, <1>3, <1>4, <1>7, <2>1, <2>2, ClearedFresh
  <1>9. /\ OneClear(Settled, e, p, I, s1, ls, fe) /\ Pursed(e, p, v, I)
        /\ t.login = Nobody /\ fe \in Int
        /\ MailSum(s1) = (MailSum(Settled) + Gain(c, r)) - (fe - f)
        /\ MailSum(Settled) \in Int /\ Gain(c, r) \in Int
    BY <1>1, <1>8, SavedRows
  <1>10. (v - money[p]) + ((MailSum(s1) - MailSum(Settled)) + Cash(ls)) + fe = 0
    <2>1. Cash(ls) \in Int /\ money[p] \in Int /\ v \in Int
      BY <1>2, CashType, Carried, HoldingsConstants
    <2> QED
      BY <2>1, <1>2, <1>9
  <1>11. ClearMemory(p, v, I, b1, ls)
    BY <1>5 DEF ClearMemory, BoxMemory
  <1> QED
    BY <1>1, <1>2, <1>3, <1>6, <1>9, <1>10, <1>11, ClearStep

LEMMA TouchedMail ==
  ASSUME EconomyInv, NEW p \in online, NEW id, Opened(p, id), NEW r, NEW I, NEW m2,
         m2 = Altered(r, Attached(Settled, id) \ I, I),
         NEW mm, mm = [box[p].mails EXCEPT ![id] = m2], NEW b, b = WithMails(p, mm)
  PROVE  Touched(b, p, id, r, I)
  <1>1. /\ p \in Players /\ id \in DOMAIN box[p].mails
        /\ box[p].mails[id] = Shown(Settled, id, "same")
        /\ BoxOK(Settled, box[p], p, gone)
    BY OpenedMail
  <1>2. box = [q \in Players |-> box[q]]
    BY DEF EconomyInv, BoxesOK
  <1>3. BoxShape(box[p])
    BY <1>1 DEF BoxOK
  <1>4. box[p] = [loaded |-> box[p].loaded, mails |-> box[p].mails, missed |-> box[p].missed]
    BY <1>3 DEF BoxShape
  <1>5. b[p].mails = mm
    <2>1. b[p] = [box[p] EXCEPT !.mails = mm]
      BY <1>1, <1>2 DEF WithMails
    <2> QED
      BY <2>1, <1>4
  <1>6. DOMAIN mm = DOMAIN box[p].mails /\ mm[id] = m2
        /\ \A x \in DOMAIN box[p].mails : x # id => mm[x] = box[p].mails[x]
    BY <1>1
  <1>7. box[p].mails[id].state = "same"
    BY <1>1, ShownParts
  <1> QED
    BY <1>1, <1>5, <1>6, <1>7 DEF Touched, Altered


LEMMA AlteredMail ==
  ASSUME NEW s, NEW id, NEW r, NEW i, r.from = s.mail[id].from, r.player = s.mail[id].player,
         r.cod = 0, r.money = s.mail[id].money, NEW m, m = Shown(s, id, "same")
  PROVE  ItemTaken(m, i) = Altered(r, Attached(s, id) \ {i}, {i})
  <1> DEFINE J == Attached(s, id)
             K == J \ {i}
  <1>1. m = [from |-> r.from, player |-> r.player, money |-> r.money, cod |-> s.mail[id].cod,
             items |-> J, removed |-> {}, state |-> "same"]
    BY DEF Shown
  <1>2. m.items = J /\ m.removed = {}
    BY <1>1
  <1>3. m.items \ {i} = K /\ m.removed \cup {i} = {i}
    BY <1>2
  <1> HIDE DEF J, K
  <1> DEFINE m1 == [m EXCEPT !.items = K]
             m2 == [m1 EXCEPT !.removed = {i}]
             m3 == [m2 EXCEPT !.cod = 0]
             m4 == [m3 EXCEPT !.state = "changed"]
  <1>4. m1 = [from |-> r.from, player |-> r.player, money |-> r.money, cod |-> s.mail[id].cod,
             items |-> K, removed |-> {}, state |-> "same"]
    BY <1>1
  <1>5. m2 = [from |-> r.from, player |-> r.player, money |-> r.money, cod |-> s.mail[id].cod,
             items |-> K, removed |-> {i}, state |-> "same"]
    <2> HIDE DEF m1
    <2> QED
      BY <1>4
  <1>6. m3 = [from |-> r.from, player |-> r.player, money |-> r.money, cod |-> 0,
             items |-> K, removed |-> {i}, state |-> "same"]
    <2> HIDE DEF m2
    <2> QED
      BY <1>5
  <1>7. m4 = [from |-> r.from, player |-> r.player, money |-> r.money, cod |-> 0,
             items |-> K, removed |-> {i}, state |-> "changed"]
    <2> HIDE DEF m3
    <2> QED
      BY <1>6
  <1>8. [m EXCEPT !.items = K, !.removed = {i}, !.cod = 0, !.state = "changed"]
          = [from |-> r.from, player |-> r.player, money |-> r.money, cod |-> 0,
             items |-> K, removed |-> {i}, state |-> "changed"]
    BY <1>7, Zenon
  <1>9. Altered(r, K, {i}) = [from |-> r.from, player |-> r.player, money |-> r.money,
                              cod |-> 0, items |-> K, removed |-> {i}, state |-> "changed"]
    BY DEF Altered
  <1>10. ItemTaken(m, i)
           = [m EXCEPT !.items = K, !.removed = {i}, !.cod = 0, !.state = "changed"]
    BY <1>3 DEF ItemTaken
  <1> QED
    BY <1>8, <1>9, <1>10 DEF K, J

LEMMA EmptiedMail ==
  ASSUME NEW s, NEW id, NEW r, r.from = s.mail[id].from, r.player = s.mail[id].player,
         r.cod = s.mail[id].cod, r.money = 0, NEW m, m = Shown(s, id, "same")
  PROVE  MoneyTaken(m) = Altered(r, Attached(s, id) \ {}, {})
  <1> DEFINE J == Attached(s, id)
  <1>1. m = [from |-> r.from, player |-> r.player, money |-> s.mail[id].money, cod |-> r.cod,
             items |-> J, removed |-> {}, state |-> "same"]
    BY DEF Shown
  <1>2. J \ {} = J
    OBVIOUS
  <1> HIDE DEF J
  <1> DEFINE m1 == [m EXCEPT !.money = 0]
             m2 == [m1 EXCEPT !.state = "changed"]
  <1>3. m1 = [from |-> r.from, player |-> r.player, money |-> 0, cod |-> r.cod,
             items |-> J, removed |-> {}, state |-> "same"]
    BY <1>1
  <1>4. m2 = [from |-> r.from, player |-> r.player, money |-> 0, cod |-> r.cod,
             items |-> J, removed |-> {}, state |-> "changed"]
    <2> HIDE DEF m1
    <2> QED
      BY <1>3
  <1>5. Altered(r, J, {}) = [from |-> r.from, player |-> r.player, money |-> 0, cod |-> r.cod,
                             items |-> J, removed |-> {}, state |-> "changed"]
    BY DEF Altered
  <1>6. Altered(r, J \ {}, {}) = Altered(r, J, {})
    BY <1>2
  <1> QED
    BY <1>4, <1>5, <1>6, Zenon DEF J, MoneyTaken
LEMMA RecastFields ==
  ASSUME NEW m \in Mails, NEW a, NEW c, NEW r, r = Repriced(m, a, c)
  PROVE  /\ r.to = m.to /\ r.from = m.from /\ r.player = m.player
         /\ r.money = a /\ r.cod = c
         /\ r = Repriced(m, r.money, r.cod)
  <1>1. m = [to |-> m.to, from |-> m.from, player |-> m.player, money |-> m.money, cod |-> m.cod]
    BY DEF Mails
  <1>2. r.to = m.to /\ r.from = m.from /\ r.player = m.player /\ r.money = a /\ r.cod = c
    BY <1>1 DEF Repriced
  <1> QED
    BY <1>2

(* Below 2^31 what is taken is what is demanded.                            *)
LEMMA SmallDemand ==
  ASSUME NEW cod \in Nat, cod < Half, NEW c \in Charged(cod)
  PROVE  c = cod
  <1> DEFINE d == cod - c
             n == 2 * Half
  <1>1. Half \in Nat /\ Half > 0 /\ c \in Int /\ -Half <= c /\ c <= Half /\ d % n = 0
    BY MailConstants DEF Charged
  <1>2. n \in Nat /\ n > 0 /\ d \in Int /\ -n < d /\ d < n
    BY <1>1
  <1> HIDE DEF d, n
  <1>3. d = 0
    BY <1>1, <1>2
  <1> QED
    BY <1>1, <1>3 DEF d

(* Taking an item out of a mail, and paying for it.                         *)
LEMMA TakeItemInv ==
  ASSUME EconomyInv, NEW p \in online, NEW id, NEW i, TakeMailItem(p, id, i),
         UNCHANGED <<house, trade>>
  PROVE  EconomyInv'
  <1> DEFINE row == Settled.mail[id]
             m == box[p].mails[id]
             l == Letter(m.from, p, TRUE, m.cod, 0, {})
             ls == IF m.cod > 0 THEN << l >> ELSE << >>
             m2 == ItemTaken(m, i)
             mm == [box[p].mails EXCEPT ![id] = m2]
             b == WithMails(p, mm)
             r == Repriced(row, row.money, 0)
             D == InState(p, b, "deleted")
             X == LostIn(p, b)
             gift(c) == IF m.cod < Half THEN 0 ELSE Minted(p, m.cod, c)
             qu == [NothingQueued EXCEPT ![p] = {i}]
  <1>1. /\ Opened(p, id) /\ i \in m.items /\ money[p] >= m.cod /\ CanStore(p, items)
        /\ RoomFor(1) /\ RoomForMails(Len(ls))
        /\ items' = [items EXCEPT ![p] = items[p] \cup {i}]
        /\ UNCHANGED <<online, net, disk, gone>>
    BY DEF TakeMailItem
  <1>2. /\ box' = Delivered(SavedBox([box EXCEPT ![p].mails[id] = m2], p), ls)
        /\ \E charge \in Charged(m.cod) :
              /\ money' = [money EXCEPT ![p] = Modified(money[p], -charge)]
              /\ Post(Saving(SavingMail(Mailed([Blank EXCEPT !.fees = -gift(charge)], ls),
                                        p, [box EXCEPT ![p].mails[id] = m2]),
                             {p}, money', net, qu))
    BY DEF TakeMailItem, ItemTaken
  <1>30. PICK charge \in Charged(m.cod) :
              /\ money' = [money EXCEPT ![p] = Modified(money[p], -charge)]
              /\ Post(Saving(SavingMail(Mailed([Blank EXCEPT !.fees = -gift(charge)], ls),
                                        p, [box EXCEPT ![p].mails[id] = m2]),
                             {p}, money', net, qu))
    BY <1>2
  <1> DEFINE v == Modified(money[p], -charge)
             f == -gift(charge)
             t == BoxTrans(p, b, ls, f, money', net, qu)
  <1>3. [box EXCEPT ![p].mails[id] = m2] = b
    <2> HIDE DEF m2
    <2> QED
      BY DEF WithMails
  <1>4. queue' = Append(queue, t) /\ box' = Delivered(SavedBox(b, p), ls)
    <2> HIDE DEF b, ls, qu, m2, gift
    <2> QED
      BY <1>2, <1>30, <1>3 DEF Post, BoxTrans
  <1>5. /\ p \in Players /\ box[p].loaded /\ id \in MailIds
        /\ m = Shown(Settled, id, "same")
        /\ row.to = p /\ row \in Mails /\ row # NoMail
    BY <1>1, OpenedMail
  <1>6. /\ m.from = row.from /\ m.player = row.player /\ m.cod = row.cod
        /\ m.items = Attached(Settled, id)
    BY <1>5, ShownParts
  <1>7. Sound(Settled) /\ Settled \in Database
    BY SettledSound
  <1>8. m.cod \in Nat /\ (m.cod > 0 => m.from \in Players) /\ row.money \in Int
    <2>1. row.cod \in Nat /\ row.money \in Int
      BY <1>5 DEF Mails
    <2>2. row.cod > 0 => row.from \in Players
      BY <1>5, <1>7 DEF Sound, Proper
    <2> QED
      BY <1>6, <2>1, <2>2
  <1>9. /\ money' = [money EXCEPT ![p] = v] /\ v \in 0..Cap
        /\ money[p] \in Int /\ v \in Int /\ f \in Int
        /\ (v - money[p]) + m.cod + f = 0
    <2>1. /\ money[p] \in 0..Cap /\ money[p] \in Int /\ charge \in Int /\ m.cod \in Nat
          /\ money[p] >= m.cod
      BY <1>1, <1>8, Carried, MailConstants DEF Charged
    <2> HIDE DEF m
    <2>2. ASSUME m.cod < Half
          PROVE  v \in 0..Cap /\ f \in Int /\ (v - money[p]) + m.cod + f = 0
      <3>1. charge = m.cod
        <4> HIDE DEF f, v
        <4> QED
          BY <2>1, <2>2, SmallDemand
      <3>3. f = 0
        <4> DEFINE g == gift(charge)
        <4>1. g = 0
          BY <2>2, Zenon
        <4>2. f = -g
          BY Zenon
        <4> HIDE DEF g, gift, f
        <4>3. g \in Int
          BY <4>1
        <4>4. f \in Int /\ f + g = 0
          BY <4>2, <4>3
        <4> QED
          BY <4>1, <4>4
      <3>2. v = money[p] - m.cod /\ v \in 0..Cap
        BY <2>1, <3>1, PaysExactly
      <3> HIDE DEF v, f
      <3> QED
        BY <2>1, <3>1, <3>2, <3>3, HoldingsConstants
    <2>3. ASSUME ~(m.cod < Half)
          PROVE  v \in 0..Cap /\ f \in Int /\ (v - money[p]) + m.cod + f = 0
      <3>1. f = -(m.cod - (money[p] - v))
        BY <2>3 DEF Minted
      <3>2. v \in 0..Cap
        BY <2>1, PaysSome
      <3> HIDE DEF v, f
      <3> QED
        BY <2>1, <3>1, <3>2, HoldingsConstants
    <2>4. v \in 0..Cap /\ f \in Int /\ (v - money[p]) + m.cod + f = 0
      BY <2>2, <2>3
    <2> HIDE DEF v, f
    <2> QED
      BY <1>30, <2>1, <2>4, HoldingsConstants DEF v
  <1>10. Sendable(ls) /\ Enclosed(ls) = {} /\ Cash(ls) = m.cod
    <2>1. CASE m.cod > 0
      <3>1. l \in Letters /\ l.from = p /\ l.cod = 0 /\ l.money = m.cod /\ l.items = {}
        BY <2>1, <1>5, <1>8 DEF Letter, Letters
      <3>2. ls = << l >>
        BY <2>1
      <3> HIDE DEF l, ls
      <3>3. Sendable(<< l >>) /\ Enclosed(<< l >>) = l.items /\ Cash(<< l >>) = l.money
        <4>1. (l.player => l.from \in Players) /\ (l.cod > 0 => l.player)
          BY <3>1, <1>5
        <4> QED
          BY <3>1, <4>1, OneLetter
      <3> QED
        BY <3>1, <3>2, <3>3
    <2>2. CASE ~(m.cod > 0)
      BY <2>2, <1>8, NoLetters
    <2> QED
      BY <2>1, <2>2
  <1>11. /\ r.to = row.to /\ r.from = row.from /\ r.player = row.player
         /\ r.money = row.money /\ r.cod = 0
         /\ r = Repriced(row, r.money, r.cod)
    <2> HIDE DEF row
    <2> QED
      BY <1>5, RecastFields
  <1>12. /\ mm = [box[p].mails EXCEPT ![id] = m2] /\ b = WithMails(p, mm)
         /\ D = InState(p, b, "deleted") /\ X = LostIn(p, b)
         /\ t = BoxTrans(p, b, ls, f, money', net, qu)
    OBVIOUS
  <1>13. m2 = Altered(r, Attached(Settled, id) \ {i}, {i})
    <2> HIDE DEF m, r
    <2> QED
      BY <1>5, <1>11, AlteredMail
  <1>14. qu[p] = {i}
    BY <1>5 DEF NothingQueued
  <1>15. i \in Attached(Settled, id)
    BY <1>1, <1>6
  <1> HIDE DEF row, m, l, ls, m2, mm, b, r, D, X, t, qu, v, f, gift
  <1>16. Touched(b, p, id, r, {i})
    BY <1>1, <1>12, <1>13, TouchedMail
  <1>17. Recast(Settled, p, id, r, {i})
    <2>1. id \in MailIds /\ Settled.mail[id] # NoMail /\ Settled.mail[id].to = p
      BY <1>5 DEF row
    <2>2. r = [Settled.mail[id] EXCEPT !.money = r.money, !.cod = r.cod]
      BY <1>11 DEF row, Repriced
    <2>3. r.money \in Int /\ r.cod \in Nat /\ (r.cod > 0 => r.player)
      BY <1>8, <1>11
    <2> QED
      BY <2>1, <2>2, <2>3, <1>15 DEF Recast
  <1>18. Cardinality(items[p] \cup {i}) <= Space[p]
    <2>1. items[p] \subseteq Items /\ IsFiniteSet(items[p])
      BY Carried, HoldingsConstants, FS_Subset
    <2>2. Cardinality(items[p] \cup {i}) <= Cardinality(items[p]) + 1
      <3>1. Cardinality(items[p]) \in Nat
        BY <2>1, FS_CardinalityType
      <3>2. i \notin items[p] => Cardinality(items[p] \cup {i}) = Cardinality(items[p]) + 1
        BY <2>1, FS_AddElement
      <3>3. i \in items[p] => items[p] \cup {i} = items[p]
        OBVIOUS
      <3> QED
        BY <3>1, <3>2, <3>3
    <2>3. Cardinality(items[p]) < Space[p]
      BY <1>1 DEF CanStore
    <2>4. Cardinality(items[p]) \in Nat /\ Space[p] \in Nat
      BY <2>1, <1>5, FS_CardinalityType, HoldingsConstants
    <2>5. Cardinality(items[p] \cup {i}) \in Nat
      BY <2>1, FS_AddElement, FS_CardinalityType
    <2> QED
      BY <2>2, <2>3, <2>4, <2>5
  <1>19. money'[p] = v
    BY <1>5, <1>9 DEF EconomyInv, MemoryTyped
  <1>20. BoxSaved(p, b, id, r, {i}, D, X, ls, f, v, money', qu, t)
    BY <1>5, <1>9, <1>10, <1>12, <1>14, <1>16, <1>17, <1>18, <1>19 DEF BoxSaved
  <1>21. BoxMemory(p, b, v, {i}, ls)
    BY <1>1, <1>4, <1>9 DEF BoxMemory, house
  <1>22. (v - money[p]) + Gain(id, r) + Cash(ls) + f = 0
    <2>1. Gain(id, r) = 0
      <3>1. id # Nobody
        BY <1>5, HoldingsConstants
      <3>2. Gain(id, r) = r.money - Settled.mail[id].money
        BY <3>1 DEF Gain
      <3> QED
        BY <3>2, <1>8, <1>11 DEF row
    <2> QED
      BY <2>1, <1>8, <1>9, <1>10
  <1> QED
    BY <1>4, <1>5, <1>9, <1>12, <1>20, <1>21, <1>22, BoxStep
LEMMA NoMailsNeeded == RoomForMails(0)
  <1>1. FreeIds \subseteq MailIds
    BY DEF FreeIds
  <1>2. IsFiniteSet(FreeIds)
    BY <1>1, HoldingsConstants, FS_Subset
  <1>3. Cardinality(FreeIds) \in Nat
    BY <1>2, FS_CardinalityType
  <1> QED
    BY <1>3 DEF RoomForMails

(* Nobody queued, nobody moved.                                             *)
LEMMA NothingMore ==
  ASSUME EconomyInv, NEW p \in online
  PROVE  /\ NothingQueued[p] = {}
         /\ items = [items EXCEPT ![p] = items[p] \cup {}]
         /\ Cardinality(items[p] \cup {}) <= Space[p]
  <1>1. p \in Players /\ items \in [Players -> SUBSET Items] /\ items[p] = Bag(Settled, p)
    BY Carried DEF EconomyInv, MemoryTyped
  <1>2. items[p] \cup {} = items[p]
    OBVIOUS
  <1>3. Cardinality(Bag(Settled, p)) <= Space[p]
    BY <1>1, SettledSound DEF Sound, BagsFit
  <1> QED
    BY <1>1, <1>2, <1>3 DEF NothingQueued

(* No letters and no fees.                                                  *)
LEMMA NothingMailed == Mailed([Blank EXCEPT !.fees = 0], << >>) = Blank
  <1>1. [Blank EXCEPT !.fees = 0] = Blank
    BY DEF Blank
  <1> QED
    BY <1>1, BlankTrans, OneMailed, NoLetters

(* Taking the money of a mail.                                              *)
LEMMA TakeMoneyInv ==
  ASSUME EconomyInv, NEW p \in online, NEW id, TakeMailMoney(p, id),
         UNCHANGED <<house, trade>>
  PROVE  EconomyInv'
  <1> DEFINE row == Settled.mail[id]
             m == box[p].mails[id]
             ls == << >>
             m2 == MoneyTaken(m)
             mm == [box[p].mails EXCEPT ![id] = m2]
             b == WithMails(p, mm)
             r == Repriced(row, 0, row.cod)
             D == InState(p, b, "deleted")
             X == LostIn(p, b)
             v == money[p] + m.money
             b0 == [box EXCEPT ![p].mails[id].money = 0, ![p].mails[id].state = "changed"]
             fee == 0
             t == BoxTrans(p, b, ls, fee, money', net, NothingQueued)
  <1>1. /\ Opened(p, id) /\ m.money > 0 /\ money[p] < Cap - m.money /\ RoomFor(1)
        /\ money' = [money EXCEPT ![p] = Modified(money[p], m.money)]
        /\ UNCHANGED <<online, net, items, disk, gone>>
    BY DEF TakeMailMoney
  <1>2. /\ Post(Saving(SavingMail(Blank, p, b0), {p}, money', net, NothingQueued))
        /\ box' = SavedBox(b0, p)
    BY DEF TakeMailMoney
  <1>3. /\ p \in Players /\ box[p].loaded /\ id \in MailIds /\ id \in DOMAIN box[p].mails
        /\ m = Shown(Settled, id, "same")
        /\ row.to = p /\ row \in Mails /\ row # NoMail
        /\ BoxOK(Settled, box[p], p, gone)
    BY <1>1, OpenedMail
  <1>4. b0 = b
    <2>1. box = [q \in Players |-> box[q]]
      BY DEF EconomyInv, BoxesOK
    <2>2. box[p] = [loaded |-> box[p].loaded, mails |-> box[p].mails, missed |-> box[p].missed]
      BY <1>3 DEF BoxOK, BoxShape
    <2>3. box[p].mails = [x \in DOMAIN box[p].mails |-> box[p].mails[x]]
      BY <1>3 DEF BoxOK, BoxShape
    <2> DEFINE m1 == [m EXCEPT !.money = 0]
               f == [box[p].mails EXCEPT ![id] = m1]
               b2 == [box EXCEPT ![p] = [box[p] EXCEPT !.mails = f]]
    <2>4. b0 = [b2 EXCEPT ![p] = [b2[p] EXCEPT !.mails = [b2[p].mails EXCEPT
                  ![id] = [b2[p].mails[id] EXCEPT !.state = "changed"]]]]
      OBVIOUS
    <2>5. [m1 EXCEPT !.state = "changed"] = m2
      BY DEF MoneyTaken
    <2>6. b2 = [box EXCEPT ![p] = [box[p] EXCEPT !.mails = f]]
          /\ f = [box[p].mails EXCEPT ![id] = m1]
      OBVIOUS
    <2> HIDE DEF b2, f, m1, m2, m, b0
    <2>7. b2[p] = [box[p] EXCEPT !.mails = f]
      BY <2>1, <2>6, <1>3
    <2>8. b2[p].mails = f /\ f[id] = m1
      BY <2>2, <2>6, <2>7, <1>3
    <2>9. [f EXCEPT ![id] = m2] = mm
      BY <2>3, <2>6
    <2>10. b0 = [b2 EXCEPT ![p] = [b2[p] EXCEPT !.mails = mm]]
      BY <2>4, <2>5, <2>8, <2>9
    <2>11. [b2[p] EXCEPT !.mails = mm] = [box[p] EXCEPT !.mails = mm]
      BY <2>2, <2>7
    <2>12. [b2 EXCEPT ![p] = [b2[p] EXCEPT !.mails = mm]]
             = [box EXCEPT ![p] = [box[p] EXCEPT !.mails = mm]]
      <3> DEFINE h == [box[p] EXCEPT !.mails = mm]
                 k == [box[p] EXCEPT !.mails = f]
      <3>1. b2 = [box EXCEPT ![p] = k]
        BY <2>6
      <3>2. [b2[p] EXCEPT !.mails = mm] = h
        BY <2>11
      <3> HIDE DEF h, k
      <3>3. [b2 EXCEPT ![p] = h] = [box EXCEPT ![p] = h]
        BY <2>1, <3>1
      <3> QED
        BY <3>2, <3>3 DEF h
    <2> QED
      BY <2>10, <2>12 DEF WithMails
  <1>5. m.money = row.money /\ m.money \in Nat /\ m.cod = row.cod /\ row.cod \in Nat
    <2>1. m.money = row.money /\ m.cod = row.cod
      BY <1>3, ShownParts
    <2>2. row.money \in Int /\ row.cod \in Nat
      BY <1>3 DEF Mails
    <2> QED
      BY <2>1, <2>2, <1>1
  <1>6. money' = [money EXCEPT ![p] = v] /\ v \in 0..Cap /\ money[p] \in Int
    <2>1. money[p] \in 0..Cap
      BY Carried
    <2> HIDE DEF m
    <2>2. Modified(money[p], m.money) = v /\ v \in 0..Cap
      BY <2>1, <1>1, <1>5, GetsExactly
    <2> QED
      BY <2>1, <2>2, <1>1
  <1>7. Mailed([Blank EXCEPT !.fees = fee], ls) = Blank
    BY NothingMailed
  <1>8. queue' = Append(queue, t) /\ box' = SavedBox(b, p)
    <2> HIDE DEF b0, b, ls, fee
    <2> QED
      BY <1>2, <1>4, <1>7 DEF Post, BoxTrans
  <1>9. /\ r.to = row.to /\ r.from = row.from /\ r.player = row.player
        /\ r.money = 0 /\ r.cod = row.cod
        /\ r = Repriced(row, r.money, r.cod)
    <2> HIDE DEF row
    <2> QED
      BY <1>3, RecastFields
  <1>10. /\ fee = 0 /\ fee \in Int /\ mm = [box[p].mails EXCEPT ![id] = m2] /\ b = WithMails(p, mm)
         /\ D = InState(p, b, "deleted") /\ X = LostIn(p, b)
         /\ t = BoxTrans(p, b, ls, fee, money', net, NothingQueued)
    OBVIOUS
  <1>11. m2 = Altered(r, Attached(Settled, id) \ {}, {})
    <2> HIDE DEF m, r
    <2> QED
      BY <1>3, <1>9, EmptiedMail
  <1>12. Sendable(ls) /\ Enclosed(ls) = {} /\ Cash(ls) = 0 /\ Len(ls) = 0 /\ ls = << >>
    BY NoLetters
  <1> HIDE DEF m2, mm, b, r, D, X, t, ls, fee
  <1>13. Touched(b, p, id, r, {})
    BY <1>1, <1>10, <1>11, TouchedMail
  <1>14. Recast(Settled, p, id, r, {})
    <2>1. row.cod > 0 => row.player
      BY <1>3, SettledSound DEF Sound, Proper
    <2>2. r = [row EXCEPT !.money = r.money, !.cod = r.cod]
      BY <1>9 DEF Repriced
    <2>3. r.money \in Int /\ r.cod \in Nat /\ (r.cod > 0 => r.player)
      BY <2>1, <1>5, <1>9
    <2> QED
      BY <2>2, <2>3, <1>3 DEF Recast
  <1>15. money'[p] = v
    BY <1>3, <1>6 DEF EconomyInv, MemoryTyped
  <1>16. BoxSaved(p, b, id, r, {}, D, X, ls, fee, v, money', NothingQueued, t)
    BY <1>3, <1>10, <1>12, <1>13, <1>14, <1>15, NothingMore DEF BoxSaved
  <1>17. Delivered(SavedBox(b, p), ls) = SavedBox(b, p)
    BY <1>3, <1>10, <1>12, <1>16, SavedNothingSent
  <1>18. BoxMemory(p, b, v, {}, ls)
    <2>1. items' = [items EXCEPT ![p] = items[p] \cup {}]
      BY <1>1, NothingMore
    <2>2. RoomForMails(Len(ls))
      BY <1>12, NoMailsNeeded
    <2> QED
      BY <2>1, <2>2, <1>1, <1>6, <1>8, <1>17 DEF BoxMemory, house
  <1>19. (v - money[p]) + Gain(id, r) + Cash(ls) + fee = 0
    <2>1. Gain(id, r) = 0 - m.money
      <3>1. id # Nobody
        BY <1>3, HoldingsConstants
      <3>2. Gain(id, r) = r.money - row.money
        BY <3>1 DEF Gain
      <3> QED
        BY <3>2, <1>5, <1>9
    <2> QED
      BY <2>1, <1>5, <1>6, <1>10, <1>12
  <1> HIDE DEF v
  <1> QED
    BY <1>3, <1>6, <1>8, <1>10, <1>16, <1>18, <1>19, BoxStep
(* Logging out: the mailbox and the purse are saved, and memory is given up.*)
LEMMA NoBoxOK ==
  ASSUME NEW s, NEW p, NEW gn
  PROVE  BoxOK(s, NoBox, p, gn)
  BY DEF BoxOK, BoxShape, BoxShows, BoxGone, NoBox, None

LEMMA LogOutRows ==
  ASSUME EconomyInv, NEW p \in online, NEW t,
         t = Saving(SavingMail(Blank, p, box), {p}, money, net, NothingQueued),
         NEW e, e = Execute(Settled, t)
  PROVE  /\ t.login = Nobody /\ Sound(e)
         /\ PursesAgree(e, online, money, net, items)
         /\ \A q \in Players \ online : SamePurse(Settled, e, q)
         /\ \A q \in Players \ {p} : SameMails(Settled, e, q) /\ BoxOK(e, box[q], q, gone)
         /\ Items \ e.kept \subseteq gone
         /\ HouseOK(e, auctions, aitems, due)
  <1> DEFINE ls == << >>
             D == InState(p, box, "deleted")
             X == LostIn(p, box)
             s1 == Cleared(Settled, D, Nobody, Nobody, {}, X)
             f == 0
             fe == f + MoneyIn(Settled, D)
             v == money[p]
  <1>1. Sendable(ls) /\ Enclosed(ls) = {} /\ Cash(ls) = 0 /\ Len(ls) = 0 /\ ls = << >>
    BY NoLetters
  <1>2. /\ D = InState(p, box, "deleted") /\ X = LostIn(p, box) /\ fe = f + MoneyIn(Settled, D)
        /\ f = 0 /\ f \in Int
        /\ s1 = Cleared(Settled, D, Nobody, Nobody, {}, X) /\ v = money[p]
    OBVIOUS
  <1> HIDE DEF ls, D, X, s1, fe, v, f
  <1>3. p \in Players /\ v \in 0..Cap /\ v \in Int
    BY <1>2, Carried, HoldingsConstants
  <1>4. Mailed([Blank EXCEPT !.fees = f], ls) = Blank
    BY <1>1, <1>2, NothingMailed
  <1>5. t = BoxTrans(p, box, ls, f, money, net, NothingQueued)
    BY <1>4 DEF BoxTrans
  <1>6. Touched(box, p, Nobody, Nobody, {})
    BY DEF Touched
  <1>7. BoxSaved(p, box, Nobody, Nobody, {}, D, X, ls, f, v, money, NothingQueued, t)
    BY <1>1, <1>2, <1>5, <1>6, NothingMore DEF BoxSaved
  <1>8. /\ Clears(Settled, p, D, Nobody, Nobody, {}, X) /\ Accounts(Settled, D, X, ls)
        /\ X \subseteq gone
    BY <1>7, SavedClears
  <1>9. RoomForMails(Len(ls))
    BY <1>1, NoMailsNeeded
  <1>10. Fresh(s1, box, ls)
    <2>1. \A i \in Enclosed(ls) : s1.attach[i] = Nobody
      BY <1>1
    <2>2. \A q \in Players : DOMAIN box[q].mails \subseteq DOMAIN box[q].mails
      OBVIOUS
    <2> QED
      BY <1>1, <1>2, <1>3, <1>8, <1>9, <2>1, <2>2, ClearedFresh
  <1>11. /\ OneClear(Settled, e, p, {}, s1, ls, fe) /\ Pursed(e, p, v, {})
         /\ t.login = Nobody /\ fe \in Int
         /\ MailSum(s1) = (MailSum(Settled) + Gain(Nobody, Nobody)) - (fe - f)
         /\ MailSum(Settled) \in Int
    BY <1>2, <1>3, <1>7, <1>10, SavedRows
  <1>12. (v - money[p]) + ((MailSum(s1) - MailSum(Settled)) + Cash(ls)) + fe = 0
    <2>1. Gain(Nobody, Nobody) = 0
      BY DEF Gain
    <2> QED
      BY <2>1, <1>1, <1>2, <1>3, <1>11
  <1>13. /\ Sound(e)
         /\ PursesAgree(e, online, [money EXCEPT ![p] = v], net,
                        [items EXCEPT ![p] = items[p] \cup {}])
         /\ \A q \in Players \ online : SamePurse(Settled, e, q)
         /\ \A q \in Players \ {p} : SameMails(Settled, e, q)
         /\ HouseOK(e, auctions, aitems, due)
    BY <1>1, <1>2, <1>3, <1>8, <1>10, <1>11, <1>12, ClearedRows
  <1>14. PursesAgree(e, online, money, net, items)
    <2>1. [money EXCEPT ![p] = v] = money
      BY <1>2, <1>3 DEF EconomyInv, MemoryTyped
    <2>2. [items EXCEPT ![p] = items[p] \cup {}] = items
      BY NothingMore
    <2> QED
      BY <1>13, <2>1, <2>2
  <1>15. Sound(Settled) /\ MailTyped(s1) /\ Sent(s1, e, ls) /\ e.kept = s1.kept
    BY <1>2, <1>3, <1>8, <1>11, SettledSound, ClearedMails DEF OneClear
  <1>16. BoxesOK(Settled, box, online, gone)
    BY DEF EconomyInv
  <1>17. ASSUME NEW q \in Players \ {p} PROVE BoxOK(e, box[q], q, gone)
    <2>1. BoxOK(Settled, box[q], q, gone)
      BY <1>16 DEF BoxesOK
    <2>2. BoxOK(s1, box[q], q, gone)
      BY <2>1, <1>2, <1>3, <1>8, <1>15, ClearedOthers
    <2>3. box[q].loaded => q \in online
      BY <1>16 DEF BoxesOK, NoBox
    <2>4. BoxOK(e, Delivered(box, ls)[q], q, gone)
      BY <1>1, <1>10, <1>15, <2>2, <2>3, SentDelivered
    <2> QED
      BY <2>4, <1>1, NoDelivery
  <1>18. Items \ e.kept \subseteq gone
    <2>1. s1.kept = Settled.kept \ X
      BY <1>2 DEF Cleared
    <2> QED
      BY <2>1, <1>8, <1>15, <1>16 DEF BoxesOK
  <1> QED
    BY <1>11, <1>13, <1>14, <1>17, <1>18

LEMMA LogOutInv ==
  ASSUME EconomyInv, NEW p \in online, LogOut(p)
  PROVE  EconomyInv'
  <1> DEFINE t == Saving(SavingMail(Blank, p, box), {p}, money, net, NothingQueued)
             e == Execute(Settled, t)
  <1>1. /\ RoomFor(1) /\ queue' = Append(queue, t) /\ box' = [box EXCEPT ![p] = NoBox]
        /\ trade' = IF Trading(p) THEN Ended(trade, {p, Partner(p)}) ELSE trade
        /\ disk' = disk /\ gone' = gone
        /\ auctions' = auctions /\ aitems' = aitems /\ due' = due
    BY DEF LogOut, Post, house
  <1>2. /\ online' = online \ {p}
        /\ money' = [q \in Players |-> IF q \in {p} THEN 0 ELSE money[q]]
        /\ net' = [q \in Players |-> IF q \in {p} THEN 0 ELSE net[q]]
        /\ items' = [q \in Players |-> IF q \in {p} THEN {} ELSE items[q]]
    BY DEF LogOut, Leave
  <1>3. t = Saving(SavingMail(Blank, p, box), {p}, money, net, NothingQueued)
        /\ e = Execute(Settled, t)
    OBVIOUS
  <1> HIDE DEF t, e
  <1>4. /\ t.login = Nobody /\ Sound(e)
        /\ PursesAgree(e, online, money, net, items)
        /\ \A q \in Players \ online : SamePurse(Settled, e, q)
        /\ \A q \in Players \ {p} : SameMails(Settled, e, q) /\ BoxOK(e, box[q], q, gone)
        /\ Items \ e.kept \subseteq gone
        /\ HouseOK(e, auctions, aitems, due)
    BY <1>3, LogOutRows
  <1>5. /\ MemoryTyped(online, money, net, items) /\ p \in Players
        /\ BoxesOK(Settled, box, online, gone) /\ TradesOK(trade, online)
        /\ online \subseteq Players
    BY DEF EconomyInv, MemoryTyped
  <1>6. MemoryTyped(online', money', net', items')
    <2>1. 0 \in 0..Cap /\ 0 \in Int
      BY HoldingsConstants
    <2>2. money' \in [Players -> 0..Cap]
      BY <2>1, <1>2, <1>5 DEF MemoryTyped
    <2>3. net' \in [Players -> Int]
      BY <2>1, <1>2, <1>5 DEF MemoryTyped
    <2>4. items' \in [Players -> SUBSET Items]
      BY <1>2, <1>5 DEF MemoryTyped
    <2>5. \A q \in Players \ online' : items'[q] = {}
      BY <1>2, <1>5 DEF MemoryTyped
    <2>6. online' \subseteq Players
      BY <1>2, <1>5
    <2> QED
      BY <2>2, <2>3, <2>4, <2>5, <2>6 DEF MemoryTyped
  <1>7. PursesAgree(e, online', money', net', items')
    <2>1. \A q \in online' : /\ q \in online /\ money'[q] = money[q] /\ net'[q] = net[q]
                             /\ items'[q] = items[q]
      BY <1>2, <1>5
    <2> QED
      BY <2>1, <1>4 DEF PursesAgree
  <1>8. box' = [q \in Players |-> box'[q]] /\ box'[p] = NoBox
        /\ \A q \in Players \ {p} : box'[q] = box[q]
    BY <1>1, <1>5 DEF BoxesOK
  <1>9. BoxesOK(e, box', online', gone')
    <2>1. \A q \in Players : BoxOK(e, box'[q], q, gone')
      BY <1>1, <1>4, <1>8, NoBoxOK
    <2>2. \A q \in Players \ online' : box'[q] = NoBox
      BY <1>2, <1>5, <1>8 DEF BoxesOK
    <2> QED
      BY <2>1, <2>2, <1>1, <1>4, <1>8 DEF BoxesOK
  <1>10. TradesOK(trade', online')
    <2>1. CASE Trading(p)
      <3>1. TradesOK(Ended(trade, {p, trade[p].with}), online \ {p})
        BY <2>1, <1>5, TradesEnd DEF Trading
      <3> QED
        BY <3>1, <2>1, <1>1, <1>2 DEF Partner
    <2>2. CASE ~Trading(p)
      <3>1. TradesOK(trade, online \ {p})
        BY <2>2, <1>5, TradesLeft DEF Trading
      <3> QED
        BY <3>1, <2>2, <1>1, <1>2
    <2> QED
      BY <2>1, <2>2
  <1>11. \A q \in Players \ online : SamePurse(Settled, e, q) /\ SameMails(Settled, e, q)
    BY <1>4
  <1>12. \A q \in online' : ~box'[q].loaded => ~box[q].loaded /\ SameMails(Settled, e, q)
    BY <1>2, <1>4, <1>5, <1>8
  <1>13. HouseOK(e, auctions', aitems', due')
    BY <1>1, <1>4
  <1>14. online' \subseteq online
    BY <1>2
  <1> QED
    BY <1>1, <1>3, <1>4, <1>6, <1>7, <1>9, <1>10, <1>11, <1>12, <1>13, <1>14, PostStep
-----------------------------------------------------------------------------

LEMMA LaidOnce ==
  ASSUME EconomyInv, NEW p \in online, trade[p] \in Trades
  PROVE  /\ AllLaid(p) \subseteq items[p]
         /\ \A s \in TradeSlots : Laid(p, s) \subseteq AllLaid(p)
         /\ \A s, o \in TradeSlots : s # o => Laid(p, s) \cap Laid(p, o) = {}
         /\ \A s \in TradeSlots : \/ Laid(p, s) = {}
                                  \/ Laid(p, s) = {trade[p].offer.slots[s]}
  <1> DEFINE sl == trade[p].offer.slots
  <1>1. Distinct(sl)
    BY DEF Trades, Offers, Slots
  <1>2. \A s \in TradeSlots : Laid(p, s) = IF sl[s] \in items[p] THEN {sl[s]} ELSE {}
    BY DEF Laid
  <1>3. Nobody \notin items[p]
    BY Carried, HoldingsConstants
  <1>4. AllLaid(p) = UNION {Laid(p, s) : s \in TradeSlots}
    BY DEF AllLaid
  <1> HIDE DEF sl
  <1>5. \A s \in TradeSlots : Laid(p, s) = {} \/ Laid(p, s) = {sl[s]}
    BY <1>2
  <1>6. \A s, o \in TradeSlots : s # o => Laid(p, s) \cap Laid(p, o) = {}
    BY <1>1, <1>2, <1>3 DEF Distinct
  <1>7. \A s \in TradeSlots : Laid(p, s) \subseteq AllLaid(p)
    BY <1>4
  <1>8. AllLaid(p) \subseteq items[p]
    BY <1>2, <1>4
  <1> QED
    BY <1>5, <1>6, <1>7, <1>8 DEF sl

LEMMA Apart ==
  ASSUME EconomyInv, NEW p \in online, NEW q \in online, p # q
  PROVE  items[p] \cap items[q] = {}
  BY Carried DEF Bag


LEMMA GetsFit ==
  ASSUME EconomyInv, NEW p, NEW q, Sides(p, q), NEW k \in 1..SlotCount
  PROVE  /\ Laid(q, k) # {} => Cardinality(Gets(p, q, k - 1)) < Space[p]
         /\ Gets(p, q, k) = Gets(p, q, k - 1) \cup Laid(q, k)
  <1>1. p \in online /\ q \in online /\ p # q /\ trade[q] \in Trades /\ CanStoreAll(p, q)
    BY DEF Sides
  <1>2. /\ AllLaid(q) \subseteq items[q]
        /\ \A s \in TradeSlots : Laid(q, s) \subseteq AllLaid(q)
        /\ \A s, o \in TradeSlots : s # o => Laid(q, s) \cap Laid(q, o) = {}
        /\ \A s \in TradeSlots : \/ Laid(q, s) = {}
                                 \/ Laid(q, s) = {trade[q].offer.slots[s]}
    BY <1>1, LaidOnce
  <1>3. SlotCount \in Nat /\ TradeSlots = 1..SlotCount /\ k \in TradeSlots
    BY TradeConstants DEF TradeSlots
  <1>4. 1..k = (1..(k - 1)) \cup {k} /\ 1..(k - 1) \subseteq TradeSlots /\ k \notin 1..(k - 1)
    BY <1>3
  <1>5. Gets(p, q, k) = Gets(p, q, k - 1) \cup Laid(q, k)
    BY <1>4 DEF Gets
  <1>6. ASSUME Laid(q, k) # {} PROVE Cardinality(Gets(p, q, k - 1)) < Space[p]
    <2> DEFINE x == trade[q].offer.slots[k]
               G == Gets(p, q, k - 1)
               A == (items[p] \ AllLaid(p)) \cup AllLaid(q)
    <2>1. Laid(q, k) = {x}
      BY <1>2, <1>3, <1>6
    <2>2. x \in AllLaid(q) /\ x \in items[q]
      BY <2>1, <1>2, <1>3
    <2>3. x \notin items[p]
      BY <2>2, <1>1, Apart
    <2>4. \A s \in 1..(k - 1) : x \notin Laid(q, s)
      BY <2>1, <1>2, <1>3, <1>4
    <2>5. G \cup {x} \subseteq A /\ x \notin G
      BY <2>2, <2>3, <2>4, <1>2, <1>4 DEF Gets
    <2>6. items[p] \subseteq Items /\ items[q] \subseteq Items /\ p \in Players
      BY <1>1, Carried
    <2>7. A \subseteq Items
      BY <2>6, <1>2
    <2>8. Cardinality(A) <= Space[p] /\ Space[p] \in Nat
      BY <1>1, <2>6, HoldingsConstants DEF CanStoreAll
    <2> HIDE DEF A, G, x
    <2>9. IsFiniteSet(A) /\ IsFiniteSet(G) /\ IsFiniteSet(G \cup {x})
      <3>1. IsFiniteSet(A)
        BY <2>7, HoldingsConstants, FS_Subset
      <3> QED
        BY <3>1, <2>5, FS_Subset
    <2>10. Cardinality(G \cup {x}) = Cardinality(G) + 1
      BY <2>5, <2>9, FS_AddElement
    <2>11. Cardinality(G \cup {x}) <= Cardinality(A)
      BY <2>5, <2>9, FS_Subset
    <2>12. Cardinality(A) \in Nat /\ Cardinality(G) \in Nat
      BY <2>9, FS_CardinalityType
    <2> QED
      BY <2>8, <2>10, <2>11, <2>12 DEF G
  <1> QED
    BY <1>5, <1>6


LEMMA MoveOne ==
  ASSUME EconomyInv, NEW p, NEW q, Sides(p, q), NEW k \in 1..SlotCount
  PROVE  MoveSlot(Halfway(p, q, k - 1), p, q, k) = Halfway(p, q, k)
  <1> DEFINE inv == Halfway(p, q, k - 1)
             a == Gets(p, q, k - 1)
             b == Gets(q, p, k - 1)
             mine == Laid(p, k)
             his == Laid(q, k)
  <1>1. p \in Players /\ q \in Players /\ p # q
    BY DEF Sides, EconomyInv, MemoryTyped
  <1>2. Sides(q, p)
    BY DEF Sides
  <1>3. /\ his # {} => Cardinality(a) < Space[p]
        /\ Gets(p, q, k) = a \cup his
    BY GetsFit
  <1>4. /\ mine # {} => Cardinality(b) < Space[q]
        /\ Gets(q, p, k) = b \cup mine
    BY <1>2, GetsFit
  <1>5. inv = [x \in Players |-> IF x = p THEN a ELSE IF x = q THEN b ELSE items[x]]
    BY DEF Halfway
  <1>6. MoveSlot(inv, p, q, k)
          = IF (mine = {} \/ Cardinality(inv[q]) < Space[q])
               /\ (his = {} \/ Cardinality(inv[p]) < Space[p])
            THEN [inv EXCEPT ![q] = inv[q] \cup mine,
                             ![p] = [inv EXCEPT ![q] = inv[q] \cup mine][p] \cup his]
            ELSE MoveSlot(inv, p, q, k)
    BY DEF MoveSlot, CanStore
  <1> HIDE DEF inv, a, b, mine, his
  <1>7. inv[p] = a /\ inv[q] = b
    BY <1>1, <1>5
  <1>8. MoveSlot(inv, p, q, k)
          = [inv EXCEPT ![q] = inv[q] \cup mine,
                        ![p] = [inv EXCEPT ![q] = inv[q] \cup mine][p] \cup his]
    BY <1>3, <1>4, <1>6, <1>7
  <1>9. [inv EXCEPT ![q] = inv[q] \cup mine][p] = a
    BY <1>1, <1>5, <1>7
  <1>10. [inv EXCEPT ![q] = b \cup mine, ![p] = a \cup his]
           = [x \in Players |-> IF x = p THEN a \cup his
                                ELSE IF x = q THEN b \cup mine ELSE items[x]]
    BY <1>1, <1>5
  <1> QED
    BY <1>3, <1>4, <1>7, <1>8, <1>9, <1>10 DEF Halfway, inv


LEMMA NothingMoved ==
  ASSUME EconomyInv, NEW p, NEW q, Sides(p, q)
  PROVE  LaidAside(p, q) = Halfway(p, q, 0)
  <1>1. /\ p \in Players /\ q \in Players /\ p # q
        /\ items \in [Players -> SUBSET Items]
    BY DEF Sides, EconomyInv, MemoryTyped
  <1>2. UNION {Laid(q, s) : s \in 1..0} = {} /\ UNION {Laid(p, s) : s \in 1..0} = {}
    OBVIOUS
  <1>3. Gets(p, q, 0) = items[p] \ AllLaid(p) /\ Gets(q, p, 0) = items[q] \ AllLaid(q)
    BY <1>2 DEF Gets
  <1> DEFINE a == items[p] \ AllLaid(p)
             b == items[q] \ AllLaid(q)
  <1>4. LaidAside(p, q) = [items EXCEPT ![p] = a, ![q] = b]
    BY <1>1 DEF LaidAside
  <1>5. Halfway(p, q, 0) = [x \in Players |-> IF x = p THEN a
                                              ELSE IF x = q THEN b ELSE items[x]]
    BY <1>3 DEF Halfway
  <1> HIDE DEF a, b
  <1> QED
    BY <1>1, <1>4, <1>5

LEMMA MovesExist ==
  ASSUME EconomyInv, NEW p, NEW q, Sides(p, q)
  PROVE  \E m : Moving(p, q, m)
  <1> DEFINE W == [s \in 0..SlotCount |-> Halfway(p, q, s)]
             V == [s \in 0..SlotCount |-> IF s = 0 THEN LaidAside(p, q)
                                          ELSE MoveSlot(W[s - 1], p, q, s)]
  <1>1. ASSUME NEW s \in 0..SlotCount PROVE W[s] = V[s]
    <2>1. CASE s = 0
      BY <2>1, NothingMoved
    <2>2. CASE s # 0
      <3>1. s \in 1..SlotCount /\ s - 1 \in 0..SlotCount
        BY <2>2, TradeConstants
      <3>2. MoveSlot(Halfway(p, q, s - 1), p, q, s) = Halfway(p, q, s)
        BY <3>1, MoveOne
      <3> QED
        BY <2>2, <3>1, <3>2
    <2> QED
      BY <2>1, <2>2
  <1>2. W = V
    <2>1. W = [s \in 0..SlotCount |-> W[s]] /\ V = [s \in 0..SlotCount |-> V[s]]
      OBVIOUS
    <2> HIDE DEF W, V
    <2> QED
      BY <1>1, <2>1
  <1>3. Moving(p, q, W)
    BY <1>2 DEF Moving
  <1> QED
    BY <1>3

LEMMA ExchangedMoves ==
  ASSUME EconomyInv, NEW p, NEW q, Sides(p, q)
  PROVE  \E m : Moving(p, q, m) /\ Exchanged(p, q) = m[SlotCount]
  <1>1. \E m : Moving(p, q, m)
    BY MovesExist
  <1>2. Exchanged(p, q) = (CHOOSE m : Moving(p, q, m))[SlotCount]
    BY DEF Moving, Exchanged, LaidAside
  <1>3. Moving(p, q, CHOOSE m : Moving(p, q, m))
    BY <1>1
  <1> QED
    BY <1>2, <1>3

LEMMA MovingIs ==
  ASSUME EconomyInv, NEW p, NEW q, Sides(p, q), NEW m, Moving(p, q, m)
  PROVE  m[SlotCount] = Halfway(p, q, SlotCount)
  <1> DEFINE G == {n \in Nat : n <= SlotCount => m[n] = Halfway(p, q, n)}
  <1>0. SlotCount \in Nat /\ 0 \in 0..SlotCount
    BY TradeConstants
  <1>1. 0 \in G
    <2>1. m[0] = LaidAside(p, q)
      BY <1>0 DEF Moving
    <2> QED
      BY <2>1, NothingMoved
  <1>2. ASSUME NEW n \in Nat, n \in G PROVE n + 1 \in G
    <2> SUFFICES ASSUME n + 1 <= SlotCount PROVE m[n + 1] = Halfway(p, q, n + 1)
      OBVIOUS
    <2> DEFINE k == n + 1
    <2>1. k \in 0..SlotCount /\ k \in 1..SlotCount /\ k - 1 = n /\ k # 0 /\ n <= SlotCount
      BY <1>0
    <2>2. m[n] = Halfway(p, q, n)
      BY <1>2, <2>1
    <2> HIDE DEF k
    <2>3. m[k] = MoveSlot(m[k - 1], p, q, k)
      BY <2>1 DEF Moving
    <2>4. MoveSlot(Halfway(p, q, k - 1), p, q, k) = Halfway(p, q, k)
      BY <2>1, MoveOne
    <2> QED
      BY <2>1, <2>2, <2>3, <2>4 DEF k
  <1>3. Nat \subseteq G
    <2> HIDE DEF G
    <2> QED
      BY <1>1, <1>2, NumberInduction
  <1> QED
    BY <1>0, <1>3


LEMMA ExchangedIs ==
  ASSUME EconomyInv, NEW p, NEW q, Sides(p, q)
  PROVE  Exchanged(p, q) = Swap(p, q)
  <1>1. Exchanged(p, q) = Halfway(p, q, SlotCount)
    BY ExchangedMoves, MovingIs
  <1>2. AllLaid(p) = UNION {Laid(p, s) : s \in 1..SlotCount}
        /\ AllLaid(q) = UNION {Laid(q, s) : s \in 1..SlotCount}
    BY DEF AllLaid, TradeSlots
  <1> QED
    BY <1>1, <1>2 DEF Halfway, Gets, Swap



LEMMA WhatIsQueued ==
  ASSUME EconomyInv, NEW p, NEW q, Sides(p, q), NEW Q, Q = BothQueued(p, q)
  PROVE  Switched(p, q, QueuedRows({p, q}, Q))
  <1>1. /\ p \in online /\ q \in online /\ p # q
        /\ trade[p] \in Trades /\ trade[q] \in Trades
    BY DEF Sides
  <1>2. p \in Players /\ q \in Players
    BY <1>1, Carried
  <1>3. AllLaid(p) \subseteq items[p] /\ AllLaid(q) \subseteq items[q]
    BY <1>1, LaidOnce
  <1>4. AllLaid(p) \cap AllLaid(q) = {}
    BY <1>1, <1>3, Apart
  <1>5. AllLaid(p) \cup AllLaid(q) \subseteq Items
    BY <1>1, <1>3, Carried
  <1>6. Q[p] = AllLaid(q) /\ Q[q] = AllLaid(p)
    BY <1>1, <1>2 DEF BothQueued, NothingQueued
  <1> HIDE DEF BothQueued
  <1>7. UNION {Q[x] : x \in {p, q}} = AllLaid(p) \cup AllLaid(q)
    BY <1>6
  <1>8. DOMAIN QueuedRows({p, q}, Q) = AllLaid(p) \cup AllLaid(q)
    BY <1>7 DEF QueuedRows
  <1>9. \A i \in AllLaid(p) \cup AllLaid(q) :
           QueuedRows({p, q}, Q)[i] = CHOOSE x \in {p, q} : i \in Q[x]
    BY <1>7 DEF QueuedRows
  <1>10. ASSUME NEW i \in AllLaid(p) PROVE QueuedRows({p, q}, Q)[i] = q
    <2>1. i \in Q[q] /\ i \notin Q[p]
      BY <1>4, <1>6
    <2>2. \A x \in {p, q} : i \in Q[x] <=> x = q
      BY <1>1, <2>1
    <2>3. (CHOOSE x \in {p, q} : i \in Q[x]) = q
      BY <2>2
    <2> QED
      BY <1>9, <2>3
  <1>11. ASSUME NEW i \in AllLaid(q) PROVE QueuedRows({p, q}, Q)[i] = p
    <2>1. i \in Q[p] /\ i \notin Q[q]
      BY <1>4, <1>6
    <2>2. \A x \in {p, q} : i \in Q[x] <=> x = p
      BY <1>1, <2>1
    <2>3. (CHOOSE x \in {p, q} : i \in Q[x]) = p
      BY <2>2
    <2> QED
      BY <1>9, <2>3
  <1> QED
    BY <1>4, <1>5, <1>8, <1>10, <1>11 DEF Switched


LEMMA SaveBoth ==
  ASSUME EconomyInv, NEW p, NEW q, Sides(p, q), NEW inv, inv = Exchanged(p, q), NEW m
  PROVE  TradeSave(p, q, inv, m)
           = Trans([x \in {p, q} |-> m[x]], [x \in {p, q} |-> net[x]],
                   QueuedRows({p, q}, BothQueued(p, q)),
                   None, None, {}, None, {}, None, 0)
  <1>1. p \in Players /\ q \in Players /\ p # q
    BY DEF Sides, EconomyInv, MemoryTyped
  <1>2. inv[p] \cap AllLaid(q) = AllLaid(q) /\ inv[q] \cap AllLaid(p) = AllLaid(p)
    BY <1>1, ExchangedIs DEF Swap
  <1>3. TradeSave(p, q, inv, m) = Saving(Blank, {p, q}, m, net, BothQueued(p, q))
    BY <1>2 DEF TradeSave, BothQueued
  <1> DEFINE Q == QueuedRows({p, q}, BothQueued(p, q))
             mo == [x \in {p, q} |-> m[x]]
             ne == [x \in {p, q} |-> net[x]]
  <1>4. Q = [i \in DOMAIN Q |-> Q[i]] /\ mo = [x \in DOMAIN mo |-> mo[x]]
        /\ ne = [x \in DOMAIN ne |-> ne[x]]
    BY DEF QueuedRows
  <1>5. Saving(Blank, {p, q}, m, net, BothQueued(p, q))
          = Trans(Override(None, mo), Override(None, ne), Override(None, Q),
                  None, None, {}, None, {}, None, 0)
    <2>1. Blank = Trans(None, None, None, None, None, {}, None, {}, None, 0)
      BY BlankTrans
    <2> QED
      BY <2>1, SavingTrans
  <1> HIDE DEF Q, mo, ne
  <1>6. Override(None, mo) = mo /\ Override(None, ne) = ne /\ Override(None, Q) = Q
    BY <1>4, OverrideNone
  <1>7. TradeSave(p, q, inv, m) = Trans(mo, ne, Q, None, None, {}, None, {}, None, 0)
    BY <1>3, <1>5, <1>6
  <1> QED
    BY <1>7 DEF Q, mo, ne

LEMMA SwapRows ==
  ASSUME EconomyInv, NEW p, NEW q, Sides(p, q), NEW inv, inv = Exchanged(p, q), NEW m,
         NEW t, t = TradeSave(p, q, inv, m), NEW e, e = Execute(Settled, t)
  PROVE  Swapped(Settled, e, p, q, m[p], m[q]) /\ t.login = Nobody
  <1> DEFINE B == BothQueued(p, q)
             Q == QueuedRows({p, q}, B)
             mo == [x \in {p, q} |-> m[x]]
             ne == [x \in {p, q} |-> net[x]]
  <1>1. p \in Players /\ q \in Players /\ p # q
    BY DEF Sides, EconomyInv, MemoryTyped
  <1>2. t = Trans(mo, ne, Q, None, None, {}, None, {}, None, 0)
    BY SaveBoth
  <1>3. /\ DOMAIN Q = AllLaid(p) \cup AllLaid(q)
        /\ \A i \in AllLaid(p) : Q[i] = q
        /\ \A i \in AllLaid(q) : Q[i] = p
        /\ AllLaid(p) \cap AllLaid(q) = {} /\ AllLaid(p) \cup AllLaid(q) \subseteq Items
    <2>1. B = BothQueued(p, q)
      OBVIOUS
    <2> HIDE DEF B
    <2>2. Switched(p, q, Q)
      BY <2>1, WhatIsQueued
    <2> QED
      BY <2>2 DEF Switched
  <1>4. /\ DOMAIN mo = {p, q} /\ mo[p] = m[p] /\ mo[q] = m[q]
        /\ DOMAIN ne = {p, q} /\ ne[p] = net[p] /\ ne[q] = net[q]
    OBVIOUS
  <1> HIDE DEF B, Q, mo, ne
  <1>5. /\ NewRows(<< >>) = None /\ NewAttached(<< >>) = None /\ Settled \in Database
    BY NoLetters, SettledSound
  <1>6. DOMAIN None = {}
    BY DEF None
  <1>7. Executed(Settled, e, mo, ne, Q, None, None, {}, None, {}, None, 0)
    <2>1. /\ DOMAIN mo \subseteq Players /\ DOMAIN ne \subseteq Players
          /\ DOMAIN Q \subseteq Items /\ DOMAIN None \subseteq Lots
      BY <1>1, <1>3, <1>4, <1>6
    <2>2. e = Execute(Settled, Trans(mo, ne, Q, None, None, {}, None, {}, None, 0))
      BY <1>2
    <2> QED
      BY <1>5, <2>1, <2>2, ExecuteParts
  <1>8. Sent(Settled, e, << >>)
    <2>1. Executed(Settled, e, mo, ne, Q, NewRows(<< >>), None, {}, NewAttached(<< >>),
                   {}, None, 0)
      BY <1>5, <1>7
    <2> QED
      BY <2>1, SentRows
  <1>9. /\ e = [money |-> e.money, net |-> e.net, row |-> e.row, mail |-> e.mail,
                 attach |-> e.attach, kept |-> e.kept, lot |-> e.lot, fees |-> e.fees]
        /\ e.money = [x \in Players |-> IF x \in DOMAIN mo THEN mo[x] ELSE Settled.money[x]]
        /\ e.net = [x \in Players |-> IF x \in DOMAIN ne THEN ne[x] ELSE Settled.net[x]]
        /\ e.row = [i \in Items |-> IF i \in DOMAIN Q THEN Q[i] ELSE Settled.row[i]]
        /\ e.kept = Settled.kept \ {}
        /\ e.lot = [a \in Lots |-> IF a \in DOMAIN None THEN None[a] ELSE Settled.lot[a]]
        /\ e.fees = Settled.fees + 0
    BY <1>7 DEF Executed
  <1>10. e.money = [x \in Players |-> IF x = p THEN m[p] ELSE IF x = q THEN m[q]
                                      ELSE Settled.money[x]]
    BY <1>4, <1>9
  <1>11. e.net = [x \in Players |-> IF x \in {p, q} THEN net[x] ELSE Settled.net[x]]
    BY <1>4, <1>9
  <1>12. e.row = [i \in Items |-> IF i \in AllLaid(p) THEN q
                                  ELSE IF i \in AllLaid(q) THEN p ELSE Settled.row[i]]
    BY <1>3, <1>9
  <1>13. e.lot = [a \in Lots |-> Settled.lot[a]] /\ e.kept = Settled.kept
    BY <1>6, <1>9
  <1>14. e.fees = Settled.fees
    <2>1. Settled.fees \in Int
      BY <1>5, RowTypes
    <2> QED
      BY <1>9, <2>1
  <1>15. t.login = Nobody
    BY <1>2 DEF Trans
  <1> QED
    BY <1>8, <1>9, <1>10, <1>11, <1>12, <1>13, <1>14, <1>15 DEF Swapped

LEMMA SwapSides ==
  ASSUME EconomyInv, NEW p, NEW q, Sides(p, q)
  PROVE  /\ p \in Players /\ q \in Players /\ p # q /\ p \in online /\ q \in online
         /\ AllLaid(p) \subseteq items[p] /\ AllLaid(q) \subseteq items[q]
         /\ items[p] \cap items[q] = {}
         /\ items[p] \subseteq Items /\ items[q] \subseteq Items
         /\ items[p] = Bag(Settled, p) /\ items[q] = Bag(Settled, q)
         /\ p # Nobody /\ q # Nobody
  <1>1. /\ p \in online /\ q \in online /\ p # q
        /\ trade[p] \in Trades /\ trade[q] \in Trades
    BY DEF Sides
  <1>2. /\ p \in Players /\ q \in Players /\ items[p] \subseteq Items /\ items[q] \subseteq Items
        /\ items[p] = Bag(Settled, p) /\ items[q] = Bag(Settled, q)
    BY <1>1, Carried
  <1>3. AllLaid(p) \subseteq items[p] /\ AllLaid(q) \subseteq items[q]
    BY <1>1, LaidOnce
  <1>4. items[p] \cap items[q] = {}
    BY <1>1, Apart
  <1>5. p # Nobody /\ q # Nobody
    BY <1>2, HoldingsConstants
  <1> QED
    BY <1>1, <1>2, <1>3, <1>4, <1>5

LEMMA SwapBags ==
  ASSUME EconomyInv, NEW p, NEW q, Sides(p, q), NEW v, NEW w, NEW e,
         Swapped(Settled, e, p, q, v, w), NEW x \in Players
  PROVE  /\ x \notin {p, q} => Bag(e, x) = Bag(Settled, x)
         /\ x = p => Bag(e, x) = (items[p] \ AllLaid(p)) \cup AllLaid(q)
         /\ x = q => Bag(e, x) = (items[q] \ AllLaid(q)) \cup AllLaid(p)
  <1>1. /\ p # q /\ AllLaid(p) \subseteq items[p] /\ AllLaid(q) \subseteq items[q]
        /\ items[p] \cap items[q] = {}
        /\ items[p] \subseteq Items /\ items[q] \subseteq Items
        /\ items[p] = Bag(Settled, p) /\ items[q] = Bag(Settled, q)
    BY SwapSides
  <1>2. \A i \in Items : e.row[i] = IF i \in AllLaid(p) THEN q
                                    ELSE IF i \in AllLaid(q) THEN p ELSE Settled.row[i]
    BY DEF Swapped
  <1>3. /\ \A i \in Items : i \in items[p] <=> Settled.row[i] = p
        /\ \A i \in Items : i \in items[q] <=> Settled.row[i] = q
    BY <1>1 DEF Bag
  <1>4. ASSUME x \notin {p, q} PROVE Bag(e, x) = Bag(Settled, x)
    <2>1. \A i \in Items : e.row[i] = x <=> Settled.row[i] = x
      BY <1>1, <1>2, <1>3, <1>4
    <2> QED
      BY <2>1 DEF Bag
  <1>5. Bag(e, p) = (items[p] \ AllLaid(p)) \cup AllLaid(q)
    <2>1. \A i \in Items : e.row[i] = p <=> i \in (items[p] \ AllLaid(p)) \cup AllLaid(q)
      BY <1>1, <1>2, <1>3
    <2> QED
      BY <1>1, <2>1 DEF Bag
  <1>6. Bag(e, q) = (items[q] \ AllLaid(q)) \cup AllLaid(p)
    <2>1. \A i \in Items : e.row[i] = q <=> i \in (items[q] \ AllLaid(q)) \cup AllLaid(p)
      BY <1>1, <1>2, <1>3
    <2> QED
      BY <1>1, <2>1 DEF Bag
  <1> QED
    BY <1>4, <1>5, <1>6

(* Each item keeps one place: only rows of inventories name another owner.  *)
LEMMA SwapPlaces ==
  ASSUME EconomyInv, NEW p, NEW q, Sides(p, q), NEW v, NEW w, NEW e,
         Swapped(Settled, e, p, q, v, w)
  PROVE  /\ OnePlace(e) /\ e.row \in [Items -> Players \cup {Nobody}]
         /\ \A i \in Items : e.attach[i] = Settled.attach[i]
  <1>1. /\ p \in Players /\ q \in Players /\ p \in online /\ q \in online
        /\ AllLaid(p) \subseteq items[p] /\ AllLaid(q) \subseteq items[q]
    BY SwapSides
  <1>2. /\ \A i \in Items : e.row[i] = IF i \in AllLaid(p) THEN q
                                       ELSE IF i \in AllLaid(q) THEN p ELSE Settled.row[i]
        /\ e.row = [i \in Items |-> e.row[i]]
        /\ Sent(Settled, e, << >>) /\ e.kept = Settled.kept
        /\ \A a \in Lots : e.lot[a] = Settled.lot[a]
    BY DEF Swapped
  <1>3. \A i \in Items : e.attach[i] = Settled.attach[i]
    <2>1. Enclosed(<< >>) = {}
      BY NoLetters
    <2> QED
      BY <1>2, <2>1 DEF Sent
  <1>4. \A i \in Items : LotsOf(e, i) = LotsOf(Settled, i)
    BY <1>2 DEF LotsOf
  <1>5. Settled \in Database /\ OnePlace(Settled)
    BY SettledSound DEF Sound
  <1>6. \A i \in Items : Settled.row[i] \in Players \cup {Nobody} /\ Placed(Settled, i)
    BY <1>5 DEF Database, OnePlace
  <1>7. ASSUME NEW i \in Items PROVE Placed(e, i)
    <2>1. CASE i \in AllLaid(p) \cup AllLaid(q)
      <3>1. /\ i \in Settled.kept /\ Settled.attach[i] = Nobody /\ LotsOf(Settled, i) = {}
        BY <1>1, <2>1, Carried
      <3>2. e.row[i] \in Players
        BY <1>1, <1>2, <2>1
      <3> QED
        BY <1>2, <1>3, <1>4, <3>1, <3>2 DEF Placed
    <2>2. CASE i \notin AllLaid(p) \cup AllLaid(q)
      <3>1. e.row[i] = Settled.row[i]
        BY <1>2, <2>2
      <3> QED
        BY <1>2, <1>3, <1>4, <1>6, <3>1, PlacedSame
    <2> QED
      BY <2>1, <2>2
  <1>8. \A i \in Items : e.row[i] \in Players \cup {Nobody}
    BY <1>1, <1>2, <1>6
  <1>9. OnePlace(e)
    BY <1>7 DEF OnePlace
  <1>10. e.row \in [Items -> Players \cup {Nobody}]
    BY <1>2, <1>8
  <1> QED
    BY <1>3, <1>9, <1>10

(* What two purses exchange stays in the sum.                               *)
LEMMA SwapSum ==
  ASSUME EconomyInv, NEW p, NEW q, Sides(p, q), NEW v, NEW w, v \in Int, w \in Int,
         v + w = money[p] + money[q], NEW e,
         Swapped(Settled, e, p, q, v, w)
  PROVE  PurseSum(e) = PurseSum(Settled)
  <1> DEFINE f == [x \in Players |-> Settled.money[x] - Settled.net[x]]
             h == [x \in Players |-> IF x = p THEN v - net[p] ELSE f[x]]
             g == [x \in Players |-> e.money[x] - e.net[x]]
  <1>1. /\ p \in Players /\ q \in Players /\ p # q /\ p \in online /\ q \in online
    BY SwapSides
  <1>2. /\ Settled \in Database /\ PursesAgree(Settled, online, money, net, items)
    BY SettledSound DEF EconomyInv
  <1>3. money[p] \in Int /\ money[q] \in Int /\ net[p] \in Int /\ net[q] \in Int
    <2>1. money[p] \in 0..Cap /\ money[q] \in 0..Cap /\ net[p] \in Int /\ net[q] \in Int
      BY <1>1, Carried
    <2> QED
      BY <2>1, HoldingsConstants
  <1>4. \A x \in Players : f[x] \in Int
    BY <1>2, RowTypes
  <1>5. f[p] = money[p] - net[p] /\ f[q] = money[q] - net[q]
    BY <1>1, <1>2 DEF PursesAgree
  <1>6. /\ \A x \in Players : e.money[x] = IF x = p THEN v ELSE IF x = q THEN w
                                           ELSE Settled.money[x]
        /\ \A x \in Players : e.net[x] = IF x \in {p, q} THEN net[x] ELSE Settled.net[x]
    BY DEF Swapped
  <1>7. g[p] = v - net[p] /\ g[q] = w - net[q] /\ h[p] = v - net[p] /\ h[q] = f[q]
    BY <1>1, <1>6
  <1>8. \A x \in Players \ {p} : h[x] = f[x]
    OBVIOUS
  <1>9. \A x \in Players \ {q} : g[x] = h[x]
    BY <1>1, <1>6
  <1>10. PurseSum(Settled) = Total(f, Players) /\ PurseSum(e) = Total(g, Players)
    BY DEF PurseSum
  <1> HIDE DEF f, g, h
  <1>11. \A x \in Players : h[x] \in Int
    BY <1>3, <1>4, <1>7, <1>8
  <1>12. IsFiniteSet(Players) /\ h[p] \in Int /\ g[q] \in Int
    BY <1>1, <1>3, <1>7, <1>11, HoldingsConstants
  <1>13. Total(h, Players) = (Total(f, Players) - f[p]) + h[p]
    BY <1>1, <1>4, <1>8, <1>12, TotalUpdate
  <1>14. Total(g, Players) = (Total(h, Players) - h[q]) + g[q]
    BY <1>1, <1>9, <1>11, <1>12, TotalUpdate
  <1>15. Total(f, Players) \in Int
    BY <1>4, <1>12, TotalType
  <1> QED
    BY <1>3, <1>5, <1>7, <1>10, <1>13, <1>14, <1>15

(* Checked purses pay and hold exactly what was laid.                       *)
LEMMA PurseIs ==
  ASSUME EconomyInv, NEW p \in online, NEW q \in online,
         trade[p] \in Trades, trade[q] \in Trades, Affords(p), Holds(p, q)
  PROVE  /\ Purse(p, q) = (money[p] - trade[p].offer.gold) + trade[q].offer.gold
         /\ Purse(p, q) \in 0..Cap /\ Purse(p, q) \in Int /\ money[p] \in Int
         /\ trade[p].offer.gold \in Int /\ trade[q].offer.gold \in Int
  <1> DEFINE a == trade[p].offer.gold
             b == trade[q].offer.gold
             m == money[p]
             r == Modified(m, -a)
  <1>1. a \in Nat /\ b \in Nat
    BY DEF Trades, Offers
  <1>2. m \in 0..Cap
    BY Carried
  <1>3. m >= a /\ m < Cap - b
    BY DEF Affords, Holds
  <1>4. Purse(p, q) = Modified(r, b)
    BY DEF Purse
  <1> HIDE DEF a, b, m
  <1>5. r = m - a /\ m - a \in 0..Cap
    BY <1>1, <1>2, <1>3, PaysExactly
  <1> HIDE DEF r
  <1>6. r < Cap - b /\ r \in 0..Cap
    BY <1>1, <1>2, <1>3, <1>5, HoldingsConstants
  <1>7. Modified(r, b) = r + b /\ r + b \in 0..Cap
    BY <1>1, <1>6, GetsExactly
  <1> QED
    BY <1>1, <1>2, <1>4, <1>5, <1>7, HoldingsConstants DEF a, b, m

LEMMA TradeSides ==
  ASSUME EconomyInv, NEW p \in online, ExecuteTrade(p), NEW q, q = Partner(p)
  PROVE  /\ Sides(p, q) /\ trade[p] # NoTrade /\ q = trade[p].with
         /\ Affords(p) /\ Affords(q) /\ Holds(p, q) /\ Holds(q, p)
         /\ p \in Players /\ q \in Players /\ q \in online
         /\ TradesOK(trade, online) /\ online \subseteq Players
  <1>1. Trading(p) /\ Refused(p, TRUE) = {} /\ CanStoreAll(p, q) /\ CanStoreAll(q, p)
    BY DEF ExecuteTrade
  <1>2. /\ TradesOK(trade, online) /\ online \subseteq Players /\ p \in Players
        /\ trade \in [Players -> Trades] /\ trade[p] # NoTrade /\ trade[p] \in Trades
        /\ Partner(p) = trade[p].with /\ Partner(p) \in Players /\ Partner(p) # p
        /\ trade[Partner(p)].with = p /\ trade[Partner(p)] \in Trades
        /\ Partner(p) \in online
    BY <1>1, TradingOnes
  <1>3. Refused(p, TRUE)
          = IF ~Affords(p) THEN {p}
            ELSE IF ~Affords(q) THEN {q}
            ELSE IF ~Holds(p, q) THEN {p}
            ELSE IF ~Holds(q, p) THEN {q} ELSE {}
    BY DEF Refused
  <1>4. Affords(p) /\ Affords(q) /\ Holds(p, q) /\ Holds(q, p)
    BY <1>1, <1>3
  <1>5. Sides(p, q)
    BY <1>1, <1>2 DEF Sides
  <1> QED
    BY <1>2, <1>4, <1>5

(* The rows after an exchange.                                              *)
LEMMA SwapSound ==
  ASSUME EconomyInv, NEW p, NEW q, Sides(p, q), NEW v \in 0..Cap, NEW w \in 0..Cap,
         v + w = money[p] + money[q], NEW e,
         Swapped(Settled, e, p, q, v, w)
  PROVE  /\ Sound(e)
         /\ \A x \in Players : SameMails(Settled, e, x)
         /\ \A x \in Players \ online : SamePurse(Settled, e, x)
         /\ BoxesOK(e, box, online, gone)
         /\ HouseOK(e, auctions, aitems, due)
  <1>1. /\ p \in Players /\ q \in Players /\ p # q /\ p \in online /\ q \in online
    BY SwapSides
  <1>2. /\ Settled \in Database /\ Sound(Settled) /\ BagsFit(Settled)
        /\ HouseOK(Settled, auctions, aitems, due)
        /\ BoxesOK(Settled, box, online, gone)
    BY SettledSound DEF EconomyInv, Sound
  <1>3. /\ Settled.money \in [Players -> 0..Cap] /\ Settled.net \in [Players -> Int]
        /\ Settled.lot \in [Lots -> Auctioned \cup {NoLot}]
        /\ Settled.kept \in SUBSET Items /\ Settled.fees \in Int
        /\ \A a \in Lots : Settled.lot[a].bidder = Nobody => Settled.lot[a].bid = 0
    BY <1>2 DEF Database, Sound, Proper
  <1>4. /\ e = [money |-> e.money, net |-> e.net, row |-> e.row, mail |-> e.mail,
                attach |-> e.attach, kept |-> e.kept, lot |-> e.lot, fees |-> e.fees]
        /\ e.money = [x \in Players |-> IF x = p THEN v ELSE IF x = q THEN w
                                        ELSE Settled.money[x]]
        /\ e.net = [x \in Players |-> IF x \in {p, q} THEN net[x] ELSE Settled.net[x]]
        /\ Sent(Settled, e, << >>) /\ e.kept = Settled.kept
        /\ e.lot = [a \in Lots |-> Settled.lot[a]] /\ e.fees = Settled.fees
    BY DEF Swapped
  <1>5. OnePlace(e) /\ e.row \in [Items -> Players \cup {Nobody}]
    BY SwapPlaces
  <1>6. net \in [Players -> Int]
    BY DEF EconomyInv, MemoryTyped
  <1>7. e.money \in [Players -> 0..Cap] /\ e.net \in [Players -> Int]
    BY <1>3, <1>4, <1>6
  <1>8. e.lot = Settled.lot
    BY <1>3, <1>4
  <1>9. BagsFit(e)
    <2> SUFFICES ASSUME NEW x \in Players PROVE Cardinality(Bag(e, x)) <= Space[x]
      BY DEF BagsFit
    <2>1. CASE x = p
      <3>1. Bag(e, x) = (items[p] \ AllLaid(p)) \cup AllLaid(q)
        BY <2>1, SwapBags
      <3> QED
        BY <2>1, <3>1 DEF Sides, CanStoreAll
    <2>2. CASE x = q
      <3>1. Bag(e, x) = (items[q] \ AllLaid(q)) \cup AllLaid(p)
        BY <2>2, SwapBags
      <3> QED
        BY <2>2, <3>1 DEF Sides, CanStoreAll
    <2>3. CASE x \notin {p, q}
      <3>1. Bag(e, x) = Bag(Settled, x)
        BY <2>3, SwapBags
      <3> QED
        BY <1>2, <3>1 DEF BagsFit
    <2> QED
      BY <2>1, <2>2, <2>3
  <1>10. \A x \in Players \ online : SamePurse(Settled, e, x)
    <2> SUFFICES ASSUME NEW x \in Players \ online PROVE SamePurse(Settled, e, x)
      OBVIOUS
    <2>1. x \notin {p, q}
      BY <1>1
    <2>2. Bag(e, x) = Bag(Settled, x)
      BY <2>1, SwapBags
    <2>3. e.money[x] = Settled.money[x] /\ e.net[x] = Settled.net[x]
      BY <1>4, <2>1
    <2> QED
      BY <2>2, <2>3 DEF SamePurse
  <1>11. Items \ e.kept \subseteq gone
    BY <1>2, <1>4 DEF BoxesOK
  <1>12. /\ MailTyped(e) /\ MailSum(e) = MailSum(Settled) + Cash(<< >>)
         /\ \A x \in Players : SameMails(Settled, e, x)
         /\ BoxesOK(e, Delivered(box, << >>), online, gone)
    <2>1. /\ Sendable(<< >>) /\ Len(<< >>) = 0
          /\ \A i \in Enclosed(<< >>) : Settled.attach[i] = Nobody
      BY NoLetters
    <2>2. RoomForMails(Len(<< >>))
      BY <2>1, NoMailsNeeded
    <2> QED
      BY <1>4, <1>11, <2>1, <2>2, LettersStep DEF Cash
  <1>13. BoxesOK(e, box, online, gone)
    BY <1>12, NoDelivery
  <1>14. HouseOK(e, auctions, aitems, due)
    <2>1. \A a \in Lots : /\ e.lot[a] = Settled.lot[a]
                          /\ Settled.lot[a].item \in Settled.kept
                             <=> Settled.lot[a].item \in e.kept
      BY <1>4
    <2> QED
      BY <1>2, <2>1, HouseSame
  <1>15. PurseSum(e) = PurseSum(Settled)
    <2>1. v \in Int /\ w \in Int
      BY HoldingsConstants
    <2> QED
      BY <2>1, SwapSum
  <1>16. MailSum(e) = MailSum(Settled)
    <2>1. MailSum(Settled) \in Int /\ Cash(<< >>) = 0
      BY <1>2, SumTypes, NoLetters
    <2> QED
      BY <1>12, <2>1
  <1>17. LotSum(e) = LotSum(Settled)
    BY <1>8, LotsKept
  <1>18. PurseSum(e) + MailSum(e) + LotSum(e) + e.fees
           = PurseSum(Settled) + MailSum(Settled) + LotSum(Settled) + Settled.fees
    BY <1>4, <1>15, <1>16, <1>17
  <1>19. /\ e.lot \in [Lots -> Auctioned \cup {NoLot}] /\ e.kept \in SUBSET Items
         /\ e.fees \in Int
         /\ \A a \in Lots : e.lot[a].bidder = Nobody => e.lot[a].bid = 0
    BY <1>3, <1>4, <1>8
  <1>20. Sound(e)
    BY <1>2, <1>4, <1>5, <1>7, <1>9, <1>12, <1>18, <1>19, SoundParts
  <1> QED
    BY <1>10, <1>12, <1>13, <1>14, <1>20

LEMMA SwapMemory ==
  ASSUME EconomyInv, NEW p, NEW q, Sides(p, q), NEW v \in 0..Cap, NEW w \in 0..Cap, NEW e,
         Swapped(Settled, e, p, q, v, w), Sound(e),
         NEW mo, mo = [money EXCEPT ![p] = v, ![q] = w], NEW it, it = Swap(p, q)
  PROVE  MemoryTyped(online, mo, net, it) /\ PursesAgree(e, online, mo, net, it)
  <1>1. /\ p \in Players /\ q \in Players /\ p # q /\ p \in online /\ q \in online
        /\ AllLaid(p) \subseteq items[p] /\ AllLaid(q) \subseteq items[q]
        /\ items[p] \subseteq Items /\ items[q] \subseteq Items
    BY SwapSides
  <1>2. /\ MemoryTyped(online, money, net, items)
        /\ PursesAgree(Settled, online, money, net, items)
    BY DEF EconomyInv
  <1>3. /\ online \subseteq Players /\ money \in [Players -> 0..Cap]
        /\ net \in [Players -> Int] /\ items \in [Players -> SUBSET Items]
        /\ \A x \in Players \ online : items[x] = {}
    BY <1>2 DEF MemoryTyped
  <1>4. mo = [x \in Players |-> IF x = p THEN v ELSE IF x = q THEN w ELSE money[x]]
    BY <1>1, <1>3
  <1>5. mo \in [Players -> 0..Cap]
    BY <1>3, <1>4
  <1>6. /\ it = [x \in Players |-> it[x]]
        /\ it[p] = (items[p] \ AllLaid(p)) \cup AllLaid(q)
        /\ it[q] = (items[q] \ AllLaid(q)) \cup AllLaid(p)
        /\ \A x \in Players \ {p, q} : it[x] = items[x]
    BY <1>1 DEF Swap
  <1>7. \A x \in Players : it[x] \in SUBSET Items
    BY <1>1, <1>3, <1>6
  <1>8. \A x \in Players \ online : it[x] = {}
    BY <1>1, <1>3, <1>6
  <1>9. MemoryTyped(online, mo, net, it)
    BY <1>3, <1>5, <1>6, <1>7, <1>8 DEF MemoryTyped
  <1>10. ASSUME NEW x \in online
         PROVE  e.money[x] - e.net[x] = mo[x] - net[x] /\ it[x] = Bag(e, x)
    <2>1. /\ e.money[x] = IF x = p THEN v ELSE IF x = q THEN w ELSE Settled.money[x]
          /\ e.net[x] = IF x \in {p, q} THEN net[x] ELSE Settled.net[x]
          /\ x \in Players
      BY <1>3 DEF Swapped
    <2>2. /\ x \notin {p, q} => Bag(e, x) = Bag(Settled, x)
          /\ x = p => Bag(e, x) = (items[p] \ AllLaid(p)) \cup AllLaid(q)
          /\ x = q => Bag(e, x) = (items[q] \ AllLaid(q)) \cup AllLaid(p)
      BY <2>1, SwapBags
    <2>3. /\ Settled.money[x] - Settled.net[x] = money[x] - net[x]
          /\ items[x] = Bag(Settled, x)
      BY <1>2 DEF PursesAgree
    <2>4. it[x] = Bag(e, x)
      BY <1>6, <2>1, <2>2, <2>3
    <2>5. e.money[x] - e.net[x] = mo[x] - net[x]
      BY <1>1, <1>4, <2>1, <2>3
    <2> QED
      BY <2>4, <2>5
  <1> QED
    BY <1>9, <1>10 DEF PursesAgree

LEMMA ExecuteTradeInv ==
  ASSUME EconomyInv, NEW p \in online, ExecuteTrade(p), UNCHANGED <<mailbox, house>>
  PROVE  EconomyInv'
  <1> DEFINE q == Partner(p)
             v == Purse(p, q)
             w == Purse(q, p)
             t == TradeSave(p, q, items', money')
             e == Execute(Settled, t)
  <1>1. /\ items' = Exchanged(p, q)
        /\ money' = [money EXCEPT ![p] = v, ![q] = w]
        /\ queue' = Append(queue, t)
        /\ trade' = Ended(trade, {p, q})
        /\ RoomFor(1) /\ online' = online /\ net' = net /\ disk' = disk
    BY DEF ExecuteTrade, Post
  <1>2. /\ box' = box /\ gone' = gone /\ auctions' = auctions /\ aitems' = aitems
        /\ due' = due
    BY DEF mailbox, house
  <1>3. q = Partner(p) /\ e = Execute(Settled, t) /\ t = TradeSave(p, q, items', money')
        /\ v = Purse(p, q) /\ w = Purse(q, p)
    OBVIOUS
  <1> HIDE DEF q, v, w, t, e
  <1>4. /\ Sides(p, q) /\ trade[p] # NoTrade /\ q = trade[p].with
        /\ Affords(p) /\ Affords(q) /\ Holds(p, q) /\ Holds(q, p)
        /\ p \in Players /\ q \in Players /\ q \in online
        /\ TradesOK(trade, online) /\ online \subseteq Players
    BY <1>3, TradeSides
  <1>5. trade[p] \in Trades /\ trade[q] \in Trades /\ p # q
    BY <1>4 DEF Sides
  <1>6. /\ v = (money[p] - trade[p].offer.gold) + trade[q].offer.gold
        /\ v \in 0..Cap /\ v \in Int /\ money[p] \in Int
        /\ trade[p].offer.gold \in Int /\ trade[q].offer.gold \in Int
    BY <1>3, <1>4, <1>5, PurseIs
  <1>7. /\ w = (money[q] - trade[q].offer.gold) + trade[p].offer.gold
        /\ w \in 0..Cap /\ w \in Int /\ money[q] \in Int
    BY <1>3, <1>4, <1>5, PurseIs
  <1>8. v + w = money[p] + money[q]
    BY <1>6, <1>7
  <1>9. money'[p] = v /\ money'[q] = w
    <2>1. money \in [Players -> 0..Cap]
      BY DEF EconomyInv, MemoryTyped
    <2> QED
      BY <1>1, <1>4, <1>5, <2>1
  <1>10. Swapped(Settled, e, p, q, v, w) /\ t.login = Nobody
    <2>1. Swapped(Settled, e, p, q, money'[p], money'[q]) /\ t.login = Nobody
      BY <1>1, <1>3, <1>4, SwapRows
    <2> QED
      BY <1>9, <2>1
  <1>11. /\ Sound(e)
         /\ \A x \in Players : SameMails(Settled, e, x)
         /\ \A x \in Players \ online : SamePurse(Settled, e, x)
         /\ BoxesOK(e, box, online, gone)
         /\ HouseOK(e, auctions, aitems, due)
    BY <1>4, <1>6, <1>7, <1>8, <1>10, SwapSound
  <1>12. items' = Swap(p, q)
    BY <1>1, <1>4, ExchangedIs
  <1>13. MemoryTyped(online, money', net, items') /\ PursesAgree(e, online, money', net, items')
    BY <1>1, <1>4, <1>6, <1>7, <1>10, <1>11, <1>12, SwapMemory
  <1>14. TradesOK(trade', online)
    BY <1>1, <1>4, TradesEnd
  <1>15. MemoryTyped(online', money', net', items')
         /\ PursesAgree(e, online', money', net', items')
    BY <1>1, <1>13
  <1>16. /\ BoxesOK(e, box', online', gone') /\ HouseOK(e, auctions', aitems', due')
         /\ TradesOK(trade', online') /\ online' \subseteq online
    BY <1>1, <1>2, <1>11, <1>14
  <1>17. /\ \A x \in Players \ online : SamePurse(Settled, e, x) /\ SameMails(Settled, e, x)
         /\ \A x \in online' : ~box'[x].loaded => ~box[x].loaded /\ SameMails(Settled, e, x)
    BY <1>1, <1>2, <1>4, <1>11
  <1> QED
    BY <1>1, <1>3, <1>10, <1>11, <1>15, <1>16, <1>17, PostStep
-----------------------------------------------------------------------------
(* Every step keeps the invariant.                                          *)
LEMMA MailInv ==
  ASSUME EconomyInv, NEW p \in online, MailStep(p, Gold, Demands),
         UNCHANGED <<house, trade>>
  PROVE  EconomyInv'
  <1>0. 0 \in Nat /\ Gold \subseteq Nat /\ Demands \subseteq Nat
    BY EconomyConstants
  <1>1. ASSUME NEW q \in Players, NEW i \in items[p], NEW cod \in Demands,
               SendMail(p, q, {i}, 0, cod)
        PROVE  EconomyInv'
    BY <1>0, <1>1, SendInv
  <1>2. ASSUME NEW q \in Players, NEW gold \in Gold, SendMail(p, q, {}, gold, 0)
        PROVE  EconomyInv'
    BY <1>0, <1>2, SendInv
  <1>3. ASSUME NEW id \in DOMAIN box[p].mails, DeleteMail(p, id)
        PROVE  EconomyInv'
    BY <1>3, DeleteInv
  <1>4. ASSUME NEW id, ReturnToSender(p, id)
        PROVE  EconomyInv'
    BY <1>4, ReturnInv
  <1>5. ASSUME NEW id, NEW i, TakeMailItem(p, id, i)
        PROVE  EconomyInv'
    BY <1>5, TakeItemInv
  <1>6. ASSUME NEW id, TakeMailMoney(p, id)
        PROVE  EconomyInv'
    BY <1>6, TakeMoneyInv
  <1> QED
    BY <1>1, <1>2, <1>3, <1>4, <1>5, <1>6 DEF MailStep

LEMMA StillInv ==
  ASSUME EconomyInv, UNCHANGED vars
  PROVE  EconomyInv'
  <1>1. /\ UNCHANGED <<online, money, net, items, disk, queue>>
        /\ UNCHANGED <<box, gone, auctions, aitems, due, trade>>
    BY DEF vars, holdings, mailbox, house
  <1>2. Settled' = Settled
    BY <1>1 DEF Settled
  <1> QED
    BY <1>1, <1>2 DEF EconomyInv

LEMMA NextInv ==
  ASSUME EconomyInv, [Next]_vars
  PROVE  EconomyInv'
  <1>1. CASE DoTrade
    <2>1. PICK p \in online : TradeStep(p, Gold)
      BY <1>1 DEF DoTrade
    <2>2. UNCHANGED <<mailbox, house>>
      BY <1>1 DEF DoTrade
    <2>3. CASE ExecuteTrade(p)
      BY <2>2, <2>3, ExecuteTradeInv
    <2>4. CASE ~ExecuteTrade(p)
      BY <2>1, <2>2, <2>4, TradeInv
    <2> QED
      BY <2>3, <2>4
  <1>2. CASE DoMail
    BY <1>2, MailInv DEF DoMail
  <1>3. CASE DoList
    BY <1>3, ListInv DEF DoList
  <1>4. CASE DoAuction
    BY <1>4, AuctionInv DEF DoAuction
  <1>5. CASE DoSweep
    <2>1. UNCHANGED trade
      BY <1>5 DEF DoSweep
    <2>2. ASSUME NEW S \in SUBSET Lots, SweepBegin(S) PROVE EconomyInv'
      BY <2>1, <2>2, SweepInv
    <2>3. ASSUME NEW a \in Lots, SweepSkip(a) PROVE EconomyInv'
      BY <2>1, <2>3, SweepInv
    <2>4. ASSUME NEW a \in Lots, SweepEnd(a) PROVE EconomyInv'
      BY <2>1, <2>4, SweepEndInv
    <2> QED
      BY <1>5, <2>2, <2>3, <2>4 DEF DoSweep
  <1>6. CASE DoWorld
    BY <1>6, WorldInv DEF DoWorld
  <1>7. CASE DoWork
    BY <1>7, WorkTransactionInv, WorkLoginInv DEF DoWork
  <1>8. CASE DoLogin
    BY <1>8, LoginInv DEF DoLogin
  <1>9. CASE Crash
    BY <1>9, CrashInv
  <1>10. CASE \E p \in online : LogOut(p)
    BY <1>10, LogOutInv
  <1>11. CASE UNCHANGED vars
    BY <1>11, StillInv
  <1> QED
    BY <1>1, <1>2, <1>3, <1>4, <1>5, <1>6, <1>7, <1>8, <1>9, <1>10, <1>11 DEF Next

(* The rows after every element of the queue are sound - every item has one *)
(* place, no wealth is made or lost, nobody has more than fits - and memory *)
(* tells what the last of them will: whatever the handlers, the worker,     *)
(* logins, logouts and crashes of Economy do.                               *)
THEOREM EconomyInvariant == Spec => []EconomyInv
  <1>1. Init => EconomyInv
    BY InitInv
  <1>2. EconomyInv /\ [Next]_vars => EconomyInv'
    BY NextInv
  <1> QED
    BY <1>1, <1>2, PTL DEF Spec
-----------------------------------------------------------------------------
(* What the invariant says of the properties the runs check.                *)
LEMMA TypeFollows ==
  ASSUME EconomyInv
  PROVE  TypeOK
  <1>1. /\ online \subseteq Players /\ money \in [Players -> 0..Cap]
        /\ net \in [Players -> Int] /\ items \in [Players -> SUBSET Items]
        /\ \A p \in Players \ online : items[p] = {}
    BY DEF EconomyInv, MemoryTyped
  <1>2. /\ disk.money \in [Players -> 0..Cap]
        /\ disk.row \in [Items -> Players \cup {Nobody}]
        /\ disk.attach \in [Items -> MailIds \cup {Nobody}]
    BY SettledSound DEF Database
  <1>3. \A p \in Players : Cardinality(items[p]) <= Space[p]
    <2> SUFFICES ASSUME NEW p \in Players PROVE Cardinality(items[p]) <= Space[p]
      OBVIOUS
    <2>1. CASE p \in online
      <3>1. items[p] = Bag(Settled, p)
        BY <2>1, Carried
      <3> QED
        BY <3>1, SettledSound DEF Sound, BagsFit
    <2>2. CASE p \notin online
      <3>1. items[p] = {}
        BY <1>1, <2>2
      <3>2. Cardinality({}) = 0 /\ Space[p] \in Nat
        BY FS_EmptySet, HoldingsConstants
      <3> QED
        BY <3>1, <3>2
    <2> QED
      BY <2>1, <2>2
  <1>4. \A p \in Players \ online : box[p] = NoBox
    BY DEF EconomyInv, BoxesOK
  <1>5. Len(queue) <= MaxPending /\ aitems \subseteq Items /\ due \subseteq Lots
    BY DEF EconomyInv, HouseOK
  <1>6. TradesPaired
    BY DEF EconomyInv, TradesOK, TradesPaired, Trading, Partner
  <1> QED
    BY <1>1, <1>2, <1>3, <1>4, <1>5, <1>6 DEF TypeOK

LEMMA PlacesAre ==
  ASSUME NEW d, d \in Database, NEW i \in d.kept, Placed(d, i)
  PROVE  Places(d, i) = 1
  <1> DEFINE P == {p \in Players : d.row[i] = p}
             M == {id \in MailIds : d.attach[i] = id}
             L == {a \in Lots : d.lot[a].item = i}
  <1>1. Nobody \notin Players /\ Nobody \notin MailIds
    BY HoldingsConstants
  <1>2. L = LotsOf(d, i)
    BY DEF LotsOf
  <1>3. \/ P = {d.row[i]} /\ M = {} /\ L = {}
        \/ P = {} /\ M = {d.attach[i]} /\ L = {}
        \/ P = {} /\ M = {} /\ \E a \in Lots : L = {a}
    <2> HIDE DEF L
    <2>1. \/ d.row[i] \in Players /\ d.attach[i] = Nobody /\ L = {}
          \/ d.row[i] = Nobody /\ d.attach[i] \in MailIds /\ L = {}
          \/ d.row[i] = Nobody /\ d.attach[i] = Nobody /\ \E a \in Lots : L = {a}
      BY <1>2 DEF Placed
    <2>2. /\ d.row[i] \in Players => P = {d.row[i]}
          /\ d.row[i] = Nobody => P = {}
          /\ d.attach[i] \in MailIds => M = {d.attach[i]}
          /\ d.attach[i] = Nobody => M = {}
      BY <1>1
    <2> HIDE DEF P, M
    <2> QED
      BY <2>1, <2>2
  <1>4. Places(d, i) = Cardinality(P) + Cardinality(M) + Cardinality(L)
    BY DEF Places
  <1> HIDE DEF P, M, L
  <1>5. Cardinality({}) = 0 /\ \A x : Cardinality({x}) = 1
    BY FS_EmptySet, FS_Singleton
  <1>6. CASE P = {d.row[i]} /\ M = {} /\ L = {}
    <2>1. Cardinality(P) = 1 /\ Cardinality(M) = 0 /\ Cardinality(L) = 0
      BY <1>5, <1>6, Zenon
    <2> QED
      BY <1>4, <2>1
  <1>7. CASE P = {} /\ M = {d.attach[i]} /\ L = {}
    <2>1. Cardinality(P) = 0 /\ Cardinality(M) = 1 /\ Cardinality(L) = 0
      BY <1>5, <1>7, Zenon
    <2> QED
      BY <1>4, <2>1
  <1>8. CASE P = {} /\ M = {} /\ \E a \in Lots : L = {a}
    <2>1. Cardinality(P) = 0 /\ Cardinality(M) = 0 /\ Cardinality(L) = 1
      BY <1>5, <1>8, Zenon
    <2> QED
      BY <1>4, <2>1
  <1> QED
    BY <1>3, <1>6, <1>7, <1>8

LEMMA PlacesFollow ==
  ASSUME EconomyInv
  PROVE  OneRowPerItem
  <1>1. disk \in Database /\ OnePlace(disk)
    BY SettledSound DEF Sound
  <1>2. disk.kept \subseteq Items
    BY <1>1 DEF Database
  <1>3. \A i \in disk.kept : Places(disk, i) = 1
    BY <1>1, <1>2, PlacesAre DEF OnePlace
  <1>4. Items \ Settled.kept \subseteq gone
    BY DEF EconomyInv, BoxesOK
  <1> QED
    BY <1>3, <1>4 DEF OneRowPerItem

LEMMA MemoryFollows ==
  ASSUME EconomyInv
  PROVE  MemoryAgrees
  <1>1. /\ PursesAgree(Settled, online, money, net, items)
        /\ BoxesOK(Settled, box, online, gone) /\ HouseOK(Settled, auctions, aitems, due)
        /\ online \subseteq Players /\ Settled \in Database
    BY SettledSound DEF EconomyInv, MemoryTyped
  <1>2. ExchangesSaved
    BY <1>1 DEF ExchangesSaved, PursesAgree, Bag
  <1>3. ASSUME NEW p \in online, NEW id \in DOMAIN box[p].mails,
               box[p].mails[id].state = "same"
        PROVE  /\ Settled.mail[id] = [to |-> p, from |-> box[p].mails[id].from,
                                      player |-> box[p].mails[id].player,
                                      money |-> box[p].mails[id].money,
                                      cod |-> box[p].mails[id].cod]
               /\ box[p].mails[id].items = {i \in Items : Settled.attach[i] = id}
    <2>1. BoxOK(Settled, box[p], p, gone)
      BY <1>1 DEF BoxesOK
    <2>2. id \in MailIds /\ Settled.mail[id].to = p
          /\ box[p].mails[id] = Shown(Settled, id, "same")
      BY <1>3, <2>1 DEF BoxOK, BoxShows, BoxShape
    <2>3. /\ box[p].mails[id].from = Settled.mail[id].from
          /\ box[p].mails[id].player = Settled.mail[id].player
          /\ box[p].mails[id].money = Settled.mail[id].money
          /\ box[p].mails[id].cod = Settled.mail[id].cod
          /\ box[p].mails[id].items = {i \in Items : Settled.attach[i] = id}
      BY <2>2 DEF Shown, Attached
    <2>4. \/ Settled.mail[id] \in Mails \/ Settled.mail[id] = NoMail
      BY <1>1, <2>2, RowTypes
    <2>5. Settled.mail[id] = [to |-> Settled.mail[id].to, from |-> Settled.mail[id].from,
                              player |-> Settled.mail[id].player,
                              money |-> Settled.mail[id].money,
                              cod |-> Settled.mail[id].cod]
      BY <2>4 DEF Mails, NoMail
    <2> QED
      BY <2>2, <2>3, <2>5
  <1>4. MailboxAgrees
    BY <1>3 DEF MailboxAgrees
  <1>5. EveryMailListed
    <2> SUFFICES ASSUME NEW p \in online, box[p].loaded, NEW id \in MailIds,
                        Settled.mail[id].to = p
                 PROVE  id \in DOMAIN box[p].mails \cup box[p].missed
      BY DEF EveryMailListed
    <2>1. BoxFull(Settled, box[p], p)
      BY <1>1 DEF BoxesOK, BoxOK
    <2> QED
      BY <2>1 DEF BoxFull
  <1>6. AuctionsAgree
    BY <1>1 DEF HouseOK, AuctionsAgree, Listed
  <1> QED
    BY <1>2, <1>4, <1>5, <1>6 DEF MemoryAgrees

(* Types, with the bags within their space and trades that have two ends.   *)
THEOREM EconomyTypeCorrect == Spec => []TypeOK
  <1>1. EconomyInv => TypeOK
    BY TypeFollows
  <1> QED
    BY <1>1, EconomyInvariant, PTL

(* A crash at any moment leaves every item in one place, and only what was  *)
(* deleted with a mail, or was won by somebody out of the world, is gone.   *)
THEOREM EconomyOnePlace == Spec => []OneRowPerItem
  <1>1. EconomyInv => OneRowPerItem
    BY PlacesFollow
  <1> QED
    BY <1>1, EconomyInvariant, PTL

(* No money appears or vanishes in trades, mails and auctions, in whatever  *)
(* order they are saved and wherever the server dies.                       *)
THEOREM EconomyConservesMoney == Spec => []MoneyConserved
  <1>1. EconomyInv => MoneyConserved
    BY SettledSound DEF Sound, Conserved, MoneyConserved, Origin
  <1> QED
    BY <1>1, EconomyInvariant, PTL

(* Purses, bags, mailboxes and the list of auctions show what the rows will *)
(* be once everything posted is executed.                                   *)
THEOREM EconomyMemoryAgrees == Spec => []MemoryAgrees
  <1>1. EconomyInv => MemoryAgrees
    BY MemoryFollows
  <1> QED
    BY <1>1, EconomyInvariant, PTL

-----------------------------------------------------------------------------

LEMMA TradeStepMoves ==
  ASSUME NEW x \in online, TradeStep(x, Gold), <<money, items>>' # <<money, items>>
  PROVE  ExecuteTrade(x)
  <1>1. ~(UNCHANGED holdings)
    BY DEF holdings
  <1> QED
    BY <1>1 DEF TradeStep, InitiateTrade, SetTradeGold, SetTradeItem, ClearTradeItem,
                UnacceptTrade, CancelTrade, AcceptRefused, AcceptStands, AcceptNoRoom

LEMMA EndsByExchange ==
  ASSUME EconomyInv, NEW p \in Players, NEW q \in Players, [Next]_vars, Ends(p, q)
  PROVE  \E x \in {p, q} : ExecuteTrade(x) /\ x \in online
  <1>1. /\ trade[p] # NoTrade /\ trade[p].with = q /\ trade' # trade
        /\ <<money, items>>' # <<money, items>> /\ {p, q} \subseteq online'
        /\ trade'[p] = NoTrade
    BY DEF Ends, Trading, Partner
  <1>2. /\ p \in online /\ q \in online /\ trade[q].with = p /\ trade[q] # NoTrade
        /\ \A x \in Players : trade[x] # NoTrade /\ trade[x].with = p => x = q
    <2>1. TradesOK(trade, online) /\ online \subseteq Players
      BY DEF EconomyInv, MemoryTyped
    <2>2. /\ p \in online /\ q \in online /\ trade[q].with = p /\ trade[q] # NoTrade
      BY <1>1, <2>1, TradePair
    <2>3. ASSUME NEW x \in Players, trade[x] # NoTrade, trade[x].with = p PROVE x = q
      BY <1>1, <2>1, <2>3 DEF TradesOK
    <2> QED
      BY <2>2, <2>3
  <1>3. ASSUME NEW S, trade' = Ended(trade, S) PROVE p \in S
    BY <1>1, <1>3 DEF Ended
  <1>4. CASE DoTrade
    <2>1. PICK x \in online : TradeStep(x, Gold)
      BY <1>4 DEF DoTrade
    <2>2. ExecuteTrade(x)
      BY <1>1, <2>1, TradeStepMoves
    <2>3. x \in Players /\ Trading(x) /\ trade' = Ended(trade, {x, Partner(x)})
      BY <2>2 DEF ExecuteTrade, EconomyInv, MemoryTyped
    <2>4. p \in {x, trade[x].with} /\ trade[x] # NoTrade
      BY <1>3, <2>3 DEF Partner, Trading
    <2>5. x \in {p, q}
      BY <1>2, <2>3, <2>4
    <2> QED
      BY <2>2, <2>5
  <1>5. CASE \E x \in online : LogOut(x)
    <2>1. PICK x \in online : LogOut(x)
      BY <1>5
    <2>2. online' = online \ {x}
      BY <2>1 DEF LogOut, Leave
    <2>3. Trading(x) /\ trade' = Ended(trade, {x, Partner(x)})
      BY <1>1, <2>1 DEF LogOut
    <2>4. p \in {x, trade[x].with} /\ trade[x] # NoTrade /\ x \in Players
      BY <1>3, <2>3 DEF Partner, Trading, EconomyInv, MemoryTyped
    <2>5. x \in {p, q}
      BY <1>2, <2>4
    <2> QED
      BY <1>1, <2>2, <2>5
  <1>6. CASE Crash
    BY <1>1, <1>6 DEF Crash, Leave, EconomyInv, MemoryTyped
  <1>7. CASE UNCHANGED vars \/ DoMail \/ DoList \/ DoAuction \/ DoSweep \/ DoWorld
             \/ DoWork \/ DoLogin
    BY <1>1, <1>7 DEF vars, DoMail, DoList, DoAuction, DoSweep, DoWorld, DoWork, DoLogin
  <1> QED
    BY <1>4, <1>5, <1>6, <1>7 DEF Next


(* Who executes gets what both had agreed to, and so does the partner.      *)
LEMMA ExchangeIsAgreed ==
  ASSUME EconomyInv, NEW x \in online, ExecuteTrade(x), NEW y, y = Partner(x)
  PROVE  /\ trade[x].accepted => Receives(x, y)
         /\ trade[y].accepted => Receives(y, x)
  <1>1. /\ Sides(x, y) /\ trade[x] # NoTrade /\ y = trade[x].with
        /\ Affords(x) /\ Affords(y) /\ Holds(x, y) /\ Holds(y, x)
        /\ x \in Players /\ y \in Players /\ y \in online
        /\ TradesOK(trade, online) /\ online \subseteq Players
    BY TradeSides
  <1>2. trade[x] \in Trades /\ trade[y] \in Trades /\ x # y
    BY <1>1 DEF Sides
  <1>3. trade[y].with = x /\ StandsBy(trade, x) /\ StandsBy(trade, y)
    BY <1>1, TradePair
  <1>4. items' = Exchanged(x, y) /\ money' = [money EXCEPT ![x] = Purse(x, y), ![y] = Purse(y, x)]
    BY DEF ExecuteTrade
  <1>5. items' = Swap(x, y)
    BY <1>1, <1>4, ExchangedIs
  <1>6. money'[x] = Purse(x, y) /\ money'[y] = Purse(y, x)
    <2>1. money \in [Players -> 0..Cap]
      BY DEF EconomyInv, MemoryTyped
    <2> QED
      BY <1>1, <1>2, <1>4, <2>1
  <1>7. /\ Purse(x, y) = (money[x] - trade[x].offer.gold) + trade[y].offer.gold
        /\ Purse(y, x) = (money[y] - trade[y].offer.gold) + trade[x].offer.gold
    BY <1>1, <1>2, PurseIs
  <1>8. /\ AllLaid(x) \subseteq items[x] /\ AllLaid(y) \subseteq items[y]
        /\ items[x] \cap items[y] = {}
    BY <1>1, SwapSides
  <1>9. /\ items'[x] \ items[x] = AllLaid(y) /\ items'[y] \ items[y] = AllLaid(x)
    BY <1>1, <1>2, <1>5, <1>8 DEF Swap
  <1>10. /\ AllLaid(x) = {trade[x].offer.slots[s] : s \in TradeSlots} \cap items[x]
         /\ AllLaid(y) = {trade[y].offer.slots[s] : s \in TradeSlots} \cap items[y]
    BY DEF AllLaid, Laid
  <1>11. ASSUME trade[x].accepted PROVE Receives(x, y)
    <2>1. /\ trade[x].agreed.slots = trade[y].offer.slots
          /\ ~trade[x].refused => trade[x].agreed.gold = trade[y].offer.gold
      BY <1>1, <1>3, <1>11 DEF StandsBy
    <2> QED
      BY <1>6, <1>7, <1>9, <1>10, <2>1 DEF Receives
  <1>12. ASSUME trade[y].accepted PROVE Receives(y, x)
    <2>1. /\ trade[y].agreed.slots = trade[x].offer.slots
          /\ ~trade[y].refused => trade[y].agreed.gold = trade[x].offer.gold
      BY <1>3, <1>12 DEF StandsBy
    <2> QED
      BY <1>6, <1>7, <1>9, <1>10, <2>1 DEF Receives
  <1> QED
    BY <1>11, <1>12

LEMMA EndsAsAgreed ==
  ASSUME EconomyInv, NEW p \in Players, NEW q \in Players, [Next]_vars, Ends(p, q)
  PROVE  Receives(p, q)
  <1>1. PICK x \in {p, q} : ExecuteTrade(x) /\ x \in online
    BY EndsByExchange
  <1>2. trade[p].accepted /\ Partner(p) = q
    BY DEF Ends
  <1>3. CASE x = p
    BY <1>1, <1>2, <1>3, ExchangeIsAgreed
  <1>4. CASE x = q
    <2>1. Partner(q) = p
      <3>1. TradesOK(trade, online) /\ online \subseteq Players
        BY DEF EconomyInv, MemoryTyped
      <3> QED
        BY <3>1, TradePair DEF Ends, Trading, Partner
    <2> QED
      BY <1>1, <1>2, <1>4, <2>1, ExchangeIsAgreed
  <1> QED
    BY <1>1, <1>3, <1>4

(* An exchange gives the one who accepted the items in the slots it saw, as *)
(* far as their owner still has them, and the money it saw, unless the      *)
(* partner has named since an amount it had not got.                        *)
THEOREM EconomyAgreedExchange == Spec => AgreedExchange
  <1> DEFINE A == \A p, q \in Players :
        (/\ p # q /\ Trading(p) /\ Partner(p) = q /\ trade[p].accepted
         /\ trade'[p] = NoTrade
         /\ <<money, items>>' # <<money, items>>
         /\ {p, q} \subseteq online')
        => /\ items'[p] \ items[p]
                = {trade[p].agreed.slots[s] : s \in TradeSlots} \cap items[q]
           /\ ~trade[p].refused =>
                money'[p] = money[p] - trade[p].offer.gold
                            + trade[p].agreed.gold
  <1>1. EconomyInv /\ [Next]_vars => A
    BY EndsAsAgreed DEF Ends, Receives
  <1>2. EconomyInv /\ [Next]_vars => [A]_<<holdings, trade>>
    BY <1>1
  <1>3. AgreedExchange <=> [][A]_<<holdings, trade>>
    BY DEF AgreedExchange
  <1> HIDE DEF A
  <1> QED
    BY <1>2, <1>3, EconomyInvariant, PTL DEF Spec
=============================================================================
