------------------------ MODULE DungeonFinderProofs ------------------------
(***************************************************************************)
(* The invariants and the action properties of DungeonFinder, for any      *)
(* players, queues, roles, group sizes and number of proposals.            *)
(*                                                                         *)
(* Good(L) says that the stores L of LFGMgr have their types and agree     *)
(* with each other; Known(L) that what LFGMgr knows of the dungeon groups  *)
(* is so; Sound(L) adds that the groups to come are nowhere yet and that   *)
(* the roles of every entry, and the players of every proposal, fit.  For  *)
(* each function of the manager there is a lemma that it keeps these, and  *)
(* how the stores it leaves are related to those it found (QLess, GSame,   *)
(* Added, ...); most also hold for what it does to part of the players.    *)
(* Recursive functions get a predicate of their own (Is...), in which they *)
(* are any function with that recursion, and are followed number by number *)
(* with NumberInduction.                                                   *)
(*                                                                         *)
(* A step of Next is then StepOK: it keeps Sound, it requeues the innocent *)
(* of a failed proposal, it groups players by their consent only, and it   *)
(* keeps Fit of every dungeon group which is filled up only when no more   *)
(* of it is left in the finder.                                            *)
(***************************************************************************)
EXTENDS DungeonFinder, FiniteSetTheorems, TLAPS

-----------------------------------------------------------------------------
(* Numbers, sequences and finite sets *)

LEMMA LeastNumber ==
  ASSUME NEW B, B \subseteq Nat, B # {}
  PROVE  \E k \in B : \A n \in B : k <= n
  <1> DEFINE R == OpToRel(<, Nat)
  <1>1. IsWellFoundedOn(R, Nat)
    BY NatLessThanWellFounded
  <1>2. \A i, j \in Nat : i < j => <<i, j>> \in R
    BY DEF OpToRel
  <1> HIDE DEF R
  <1>3. \E x \in B : \A y \in B : <<y, x>> \notin R
    BY <1>1, WFMin
  <1>4. PICK k \in B : \A y \in B : <<y, k>> \notin R
    BY <1>3
  <1>5. ASSUME NEW n \in B PROVE k <= n
    <2>1. k \in Nat /\ n \in Nat
      OBVIOUS
    <2>2. ~(n < k)
      BY <1>2, <1>4, <2>1
    <2>3. QED
      BY <2>1, <2>2
  <1>6. QED
    BY <1>5

LEMMA NumberInduction ==
  ASSUME NEW G, 0 \in G, \A n \in Nat : n \in G => n + 1 \in G
  PROVE  Nat \subseteq G
  <1> SUFFICES ASSUME NEW n \in Nat, n \notin G PROVE FALSE
    OBVIOUS
  <1> DEFINE B == Nat \ G
  <1>1. B \subseteq Nat /\ B # {}
    OBVIOUS
  <1>2. PICK k \in B : \A j \in B : k <= j
    <2> HIDE DEF B
    <2> QED
      BY <1>1, LeastNumber
  <1>3. k # 0 /\ k - 1 \in Nat /\ ~(k <= k - 1) /\ (k - 1) + 1 = k
    BY <1>2
  <1>4. k - 1 \in G
    BY <1>2, <1>3
  <1>5. QED
    BY <1>2, <1>3, <1>4

LEMMA MinOf ==
  ASSUME NEW B, B \subseteq Nat, B # {}
  PROVE  Min(B) \in B
  <1>1. \E k \in B : \A n \in B : k <= n
    BY LeastNumber
  <1>2. QED
    BY <1>1 DEF Min

(* An ordering of a finite set has that set's elements.                     *)
LEMMA SetToSeqElements ==
  ASSUME NEW S, IsFiniteSet(S)
  PROVE  SetToSeq(S) \in Seq(S)
  <1> DEFINE n == Cardinality(S)
  <1>1. n \in Nat
    BY FS_CardinalityType
  <1>2. ExistsBijection(1..n, S)
    BY FS_CardinalityType
  <1>3. PICK b : b \in Bijection(1..n, S)
    BY <1>2 DEF ExistsBijection
  <1>4. b \in [1..n -> S] /\ \A i, j \in 1..n : b[i] = b[j] => i = j
    BY <1>3 DEF Bijection, Injection, IsInjective
  <1>5. b \in [1..n -> S] /\ IsInjective(b)
    BY <1>4 DEF IsInjective
  <1>6. SetToSeq(S) \in [1..n -> S]
    BY <1>5 DEF SetToSeq
  <1> HIDE DEF n
  <1>7. QED
    BY <1>1, <1>6

LEMMA SmallerSet ==
  ASSUME NEW S, NEW T, IsFiniteSet(T), S \subseteq T
  PROVE  IsFiniteSet(S) /\ Cardinality(S) \in Nat /\ Cardinality(S) <= Cardinality(T)
  BY FS_Subset, FS_CardinalityType

LEMMA RangeAppend ==
  ASSUME NEW T, NEW s \in Seq(T), NEW e \in T
  PROVE  Append(s, e) \in Seq(T) /\ Range(Append(s, e)) = Range(s) \cup {e}
  <1>1. /\ Append(s, e) \in Seq(T) /\ Len(Append(s, e)) = Len(s) + 1
        /\ Len(s) \in Nat /\ DOMAIN s = 1..Len(s)
        /\ DOMAIN Append(s, e) = 1..(Len(s) + 1)
    OBVIOUS
  <1>2. \A i \in 1..Len(s) : Append(s, e)[i] = s[i]
    OBVIOUS
  <1>3. Append(s, e)[Len(s) + 1] = e
    OBVIOUS
  <1>4. 1..(Len(s) + 1) = (1..Len(s)) \cup {Len(s) + 1}
    BY <1>1
  <1>5. QED
    BY <1>1, <1>2, <1>3, <1>4 DEF Range

LEMMA RangeConcat ==
  ASSUME NEW T, NEW s \in Seq(T), NEW u \in Seq(T)
  PROVE  s \o u \in Seq(T) /\ Range(s \o u) = Range(s) \cup Range(u)
  <1>1. /\ s \o u \in Seq(T) /\ Len(s \o u) = Len(s) + Len(u)
        /\ Len(s) \in Nat /\ Len(u) \in Nat
        /\ DOMAIN s = 1..Len(s) /\ DOMAIN u = 1..Len(u)
        /\ DOMAIN (s \o u) = 1..(Len(s) + Len(u))
    OBVIOUS
  <1>2. ASSUME NEW x \in Range(s \o u) PROVE x \in Range(s) \cup Range(u)
    <2>1. PICK i \in 1..(Len(s) + Len(u)) : x = (s \o u)[i]
      BY <1>1 DEF Range
    <2>2. CASE i <= Len(s)
      <3>1. i \in 1..Len(s) /\ (s \o u)[i] = s[i]
        BY <1>1, <2>1, <2>2
      <3>2. QED
        BY <1>1, <2>1, <3>1 DEF Range
    <2>3. CASE ~(i <= Len(s))
      <3>1. i - Len(s) \in 1..Len(u) /\ (s \o u)[i] = u[i - Len(s)]
        BY <1>1, <2>1, <2>3
      <3>2. QED
        BY <1>1, <2>1, <3>1 DEF Range
    <2>4. QED
      BY <2>2, <2>3
  <1>3. ASSUME NEW x \in Range(s) PROVE x \in Range(s \o u)
    <2>1. PICK i \in 1..Len(s) : x = s[i]
      BY <1>1 DEF Range
    <2>2. i \in 1..(Len(s) + Len(u)) /\ (s \o u)[i] = s[i]
      BY <1>1
    <2>3. QED
      BY <1>1, <2>1, <2>2 DEF Range
  <1>4. ASSUME NEW x \in Range(u) PROVE x \in Range(s \o u)
    <2>1. PICK i \in 1..Len(u) : x = u[i]
      BY <1>1 DEF Range
    <2>2. /\ i + Len(s) \in 1..(Len(s) + Len(u)) /\ ~(i + Len(s) <= Len(s))
          /\ (i + Len(s)) - Len(s) = i
      BY <1>1
    <2>3. (s \o u)[i + Len(s)] = u[i]
      BY <1>1, <2>2
    <2>4. QED
      BY <1>1, <2>1, <2>2, <2>3 DEF Range
  <1>5. QED
    BY <1>1, <1>2, <1>3, <1>4

LEMMA RangeTail ==
  ASSUME NEW T, NEW s \in Seq(T), NEW k \in 1..Len(s)
  PROVE  /\ SubSeq(s, Len(s) - k + 1, Len(s)) \in Seq(T)
         /\ Range(SubSeq(s, Len(s) - k + 1, Len(s))) \subseteq Range(s)
  <1> DEFINE m == Len(s) - k + 1
  <1>1. /\ Len(s) \in Nat /\ m \in 1..Len(s) /\ Len(s) - m + 1 = k
    OBVIOUS
  <1> HIDE DEF m
  <1>2. SubSeq(s, m, Len(s)) = [i \in 1..k |-> s[i + m - 1]]
    BY <1>1
  <1>3. \A i \in 1..k : i + m - 1 \in 1..Len(s)
    BY <1>1
  <1>4. \A i \in 1..Len(s) : s[i] \in T
    OBVIOUS
  <1>5. [i \in 1..k |-> s[i + m - 1]] \in Seq(T)
    BY <1>1, <1>3, <1>4
  <1>6. Range([i \in 1..k |-> s[i + m - 1]]) \subseteq Range(s)
    BY <1>3 DEF Range
  <1>7. QED
    BY <1>2, <1>5, <1>6 DEF m

LEMMA RangeInside ==
  ASSUME NEW T, NEW s \in Seq(T)
  PROVE  /\ Range(s) \subseteq T /\ Len(s) \in Nat /\ DOMAIN s = 1..Len(s)
         /\ \A i \in 1..Len(s) : s[i] \in Range(s)
  BY DEF Range
(* Minus, element by element.                                               *)
IsKeptUpTo(f, s, E) ==
  f = [i \in 0..Len(s) |-> (IF i = 0 THEN <<>> ELSE IF s[i] \in E THEN f[i - 1] ELSE Append(f[i - 1], s[i]))]
KeptUpTo(s, E) == CHOOSE f : IsKeptUpTo(f, s, E)

LEMMA KeptUpToExists ==
  ASSUME NEW s, NEW E, Len(s) \in Nat
  PROVE  \E f : IsKeptUpTo(f, s, E)
  <1> DEFINE Fills(g, k) == \A i \in 0..k : g[i] = (IF i = 0 THEN <<>> ELSE IF s[i] \in E THEN g[i - 1] ELSE Append(g[i - 1], s[i]))
             G == {k \in Nat : \E g : Fills(g, k)}
  <1>1. 0 \in G
    <2>1. Fills([i \in 0..0 |-> <<>>], 0)
      OBVIOUS
    <2>2. \E g : Fills(g, 0)
      <3> HIDE DEF Fills
      <3> QED
        BY <2>1
    <2> HIDE DEF Fills
    <2>3. QED
      BY <2>2
  <1>2. ASSUME NEW k \in Nat, k \in G PROVE k + 1 \in G
    <2>1. PICK g : Fills(g, k)
      BY <1>2
    <2> DEFINE h == [i \in 0..(k + 1) |-> IF i <= k THEN g[i] ELSE (IF i = 0 THEN <<>> ELSE IF s[i] \in E THEN g[i - 1] ELSE Append(g[i - 1], s[i]))]
    <2>2. ASSUME NEW i \in 0..(k + 1) PROVE h[i] = (IF i = 0 THEN <<>> ELSE IF s[i] \in E THEN h[i - 1] ELSE Append(h[i - 1], s[i]))
      <3>1. i \in Nat /\ h[i] = IF i <= k THEN g[i] ELSE (IF i = 0 THEN <<>> ELSE IF s[i] \in E THEN g[i - 1] ELSE Append(g[i - 1], s[i]))
        OBVIOUS
      <3>2. i <= k => i \in 0..k
        BY <3>1
      <3>3. h[i] = (IF i = 0 THEN <<>> ELSE IF s[i] \in E THEN g[i - 1] ELSE Append(g[i - 1], s[i]))
        BY <2>1, <3>1, <3>2
      <3>4. ~(i = 0) => i - 1 \in 0..(k + 1) /\ i - 1 <= k
        BY <3>1
      <3>5. ~(i = 0) => h[i - 1] = g[i - 1]
        BY <3>4
      <3> HIDE DEF h
      <3>6. QED
        BY <3>3, <3>5
    <2> HIDE DEF h
    <2>3. Fills(h, k + 1)
      BY <2>2
    <2>4. \E g1 : Fills(g1, k + 1)
      <3> HIDE DEF Fills
      <3> QED
        BY <2>3
    <2> HIDE DEF Fills
    <2>5. QED
      BY <2>4
  <1>3. Nat \subseteq G
    <2> HIDE DEF G
    <2> QED
      BY <1>1, <1>2, NumberInduction
  <1>4. PICK g : Fills(g, Len(s))
    BY <1>3
  <1> DEFINE h == [i \in 0..Len(s) |-> g[i]]
  <1>5. ASSUME NEW i \in 0..Len(s) PROVE h[i] = (IF i = 0 THEN <<>> ELSE IF s[i] \in E THEN h[i - 1] ELSE Append(h[i - 1], s[i]))
    <2>1. h[i] = g[i] /\ (~(i = 0) => i - 1 \in 0..Len(s))
      OBVIOUS
    <2>2. ~(i = 0) => h[i - 1] = g[i - 1]
      BY <2>1
    <2>3. g[i] = (IF i = 0 THEN <<>> ELSE IF s[i] \in E THEN g[i - 1] ELSE Append(g[i - 1], s[i]))
      BY <1>4
    <2> HIDE DEF h
    <2>4. QED
      BY <2>1, <2>2, <2>3
  <1>6. h = [i \in 0..Len(s) |-> h[i]]
    OBVIOUS
  <1> HIDE DEF h
  <1>7. h = [i \in 0..Len(s) |-> (IF i = 0 THEN <<>> ELSE IF s[i] \in E THEN h[i - 1] ELSE Append(h[i - 1], s[i]))]
    BY <1>5, <1>6
  <1>8. IsKeptUpTo(h, s, E)
    BY <1>7 DEF IsKeptUpTo
  <1>9. QED
    BY <1>8

LEMMA KeptUpToSteps ==
  ASSUME NEW s, NEW E, Len(s) \in Nat
  PROVE  /\ Minus(s, E) = KeptUpTo(s, E)[Len(s)]
         /\ \A i \in 0..Len(s) : KeptUpTo(s, E)[i] = (IF i = 0 THEN <<>> ELSE IF s[i] \in E THEN KeptUpTo(s, E)[i - 1] ELSE Append(KeptUpTo(s, E)[i - 1], s[i]))
  <1>1. KeptUpTo(s, E) = [i \in 0..Len(s) |-> (IF i = 0 THEN <<>> ELSE IF s[i] \in E THEN KeptUpTo(s, E)[i - 1] ELSE Append(KeptUpTo(s, E)[i - 1], s[i]))]
    <2>1. IsKeptUpTo(KeptUpTo(s, E), s, E)
      BY KeptUpToExists DEF KeptUpTo
    <2>2. QED
      BY <2>1 DEF IsKeptUpTo
  <1>2. Minus(s, E) = KeptUpTo(s, E)[Len(s)]
    BY DEF Minus, KeptUpTo, IsKeptUpTo
  <1>3. QED
    BY <1>1, <1>2


LEMMA MinusElements ==
  ASSUME NEW T, NEW s \in Seq(T), NEW E
  PROVE  Minus(s, E) \in Seq(T) /\ Range(Minus(s, E)) = Range(s) \ E
  <1> DEFINE K == KeptUpTo(s, E)
             Good(i) == /\ K[i] \in Seq(T)
                        /\ Range(K[i]) = {s[j] : j \in 1..i} \ E
             G == {i \in Nat : i <= Len(s) => Good(i)}
  <1>1. /\ Len(s) \in Nat /\ Minus(s, E) = K[Len(s)]
        /\ \A i \in 0..Len(s) : K[i] = (IF i = 0 THEN <<>> ELSE IF s[i] \in E
                                        THEN K[i - 1] ELSE Append(K[i - 1], s[i]))
    BY KeptUpToSteps
  <1> HIDE DEF K
  <1>2. 0 \in G
    <2>1. K[0] = <<>>
      BY <1>1
    <2>2. <<>> \in Seq(T) /\ Range(<<>>) = {} /\ 1..0 = {}
      BY DEF Range
    <2>3. {s[j] : j \in 1..0} = {}
      BY <2>2
    <2>4. Good(0)
      BY <2>1, <2>2, <2>3
    <2>5. QED
      BY <2>4
  <1>3. ASSUME NEW n \in Nat, n \in G PROVE n + 1 \in G
    <2> SUFFICES ASSUME n + 1 <= Len(s) PROVE Good(n + 1)
      OBVIOUS
    <2>1. /\ n <= Len(s) /\ n + 1 \in 0..Len(s) /\ n + 1 # 0 /\ (n + 1) - 1 = n
          /\ n + 1 \in 1..Len(s) /\ 1..(n + 1) = (1..n) \cup {n + 1}
      BY <1>1
    <2>2. Good(n)
      BY <1>3, <2>1
    <2>3. {s[j] : j \in 1..(n + 1)} = {s[j] : j \in 1..n} \cup {s[n + 1]}
      BY <2>1
    <2>4. s[n + 1] \in T
      BY <2>1
    <2>5. CASE s[n + 1] \in E
      <3>1. K[n + 1] = K[n]
        BY <1>1, <2>1, <2>5
      <3>2. QED
        BY <2>2, <2>3, <2>5, <3>1
    <2>6. CASE s[n + 1] \notin E
      <3>1. K[n + 1] = Append(K[n], s[n + 1])
        BY <1>1, <2>1, <2>6
      <3>2. /\ Append(K[n], s[n + 1]) \in Seq(T)
            /\ Range(Append(K[n], s[n + 1])) = Range(K[n]) \cup {s[n + 1]}
        BY <2>2, <2>4, RangeAppend
      <3>3. QED
        BY <2>2, <2>3, <2>6, <3>1, <3>2
    <2>7. QED
      BY <2>5, <2>6
  <1>4. Nat \subseteq G
    <2> HIDE DEF G
    <2> QED
      BY <1>2, <1>3, NumberInduction
  <1>5. Good(Len(s))
    <2> HIDE DEF Good
    <2>1. Len(s) \in G /\ Len(s) <= Len(s)
      BY <1>1, <1>4
    <2>2. QED
      BY <2>1
  <1>6. {s[j] : j \in 1..Len(s)} = Range(s)
    BY DEF Range
  <1>7. QED
    BY <1>1, <1>5, <1>6

-----------------------------------------------------------------------------
(* What holds of the stores L of LFGMgr between two calls *)

Fields == {"pl", "mem", "gr", "grp", "data", "fresh", "cur", "cache", "open", "prop",
           "chk", "last", "before", "away"}

PlayersOK(L) ==
  /\ L.pl \in [Players -> [Queues -> PlayerData]]
  /\ L.gr \in [Groups -> GroupData]
  /\ L.grp \in [Players -> Groups \cup {NoGroup}]
  /\ L.mem \in [Players -> SUBSET Queues] /\ L.open \in [Players -> SUBSET Queues]
  /\ L.away \subseteq Players

ProposalOK(pr) ==
  /\ DOMAIN pr = {"queue", "entries", "group", "isNew", "from", "answer"}
  /\ pr.queue \in Queues /\ pr.entries \in Seq(Entries)
  /\ pr.group \in LfgGroups \cup {NoGroup}
  /\ pr.group # NoGroup => pr.group \in Range(pr.entries)
  /\ DOMAIN pr.answer \subseteq Players /\ DOMAIN pr.from = DOMAIN pr.answer
  /\ \A p \in DOMAIN pr.answer :
        /\ pr.from[p] \in Groups \cup {NoGroup}
        /\ pr.from[p] = NoGroup => p \in Range(pr.entries)
ProposalsOK(L) ==
  /\ L.last \in Nat /\ DOMAIN L.prop \subseteq 1..L.last
  /\ \A i \in DOMAIN L.prop : ProposalOK(L.prop[i])

CheckOK(c) == c \in [queue : Queues, asked : SUBSET Players, given : SUBSET Players]
ChecksOK(L) ==
  DOMAIN L.chk \subseteq Groups /\ \A g \in DOMAIN L.chk : CheckOK(L.chk[g])

\* A player's entry stands for that player alone.
DataOK(d) ==
  /\ DOMAIN d \subseteq Entries
  /\ \A e \in DOMAIN d : d[e] \subseteq Players /\ (e \in Players => d[e] = {e})
QueueOK(L, q) ==
  /\ DataOK(L.data[q])
  /\ L.fresh[q] \in Seq(Entries) /\ L.cur[q] \in Seq(Entries)
  /\ Range(L.cache[q]) \subseteq Verdicts
  /\ Listed(L, q) \subseteq DOMAIN L.data[q]
  /\ UNION DOMAIN L.cache[q] \subseteq DOMAIN L.data[q]
QueuesOK(L) ==
  /\ DOMAIN L.data = Queues /\ DOMAIN L.fresh = Queues
  /\ DOMAIN L.cur = Queues /\ DOMAIN L.cache = Queues
  /\ \A q \in Queues : QueueOK(L, q)

Good(L) ==
  /\ DOMAIN L = Fields /\ L.before \in Nat
  /\ PlayersOK(L) /\ ProposalsOK(L) /\ ChecksOK(L) /\ QueuesOK(L)

(* M has of L's proposals, role checks and entries what was not taken out,   *)
(* and the entries of a proposal taken out are listed or have no data.       *)
ProposalsLess(L, M) ==
  /\ M.last = L.last /\ DOMAIN M.prop \subseteq DOMAIN L.prop
  /\ \A i \in DOMAIN M.prop : M.prop[i] = L.prop[i]
ChecksLess(L, M) ==
  DOMAIN M.chk \subseteq DOMAIN L.chk /\ \A g \in DOMAIN M.chk : M.chk[g] = L.chk[g]
Proposed(L, q, e) ==
  \E i \in DOMAIN L.prop : L.prop[i].queue = q /\ e \in Range(L.prop[i].entries)
QueueLess(L, M, q) ==
  /\ DOMAIN M.data[q] \subseteq DOMAIN L.data[q]
  /\ \A e \in DOMAIN M.data[q] : M.data[q][e] = L.data[q][e]
  /\ \A e \in DOMAIN M.data[q] : e \in Listed(L, q) => e \in Listed(M, q)
  /\ \A i \in DOMAIN L.prop \ DOMAIN M.prop : L.prop[i].queue = q =>
        \A e \in DOMAIN M.data[q] : e \in Range(L.prop[i].entries) => e \in Listed(M, q)
  /\ \A e \in Listed(M, q) : e \in Listed(L, q) \/ Proposed(L, q, e)
QLess(L, M) ==
  ProposalsLess(L, M) /\ ChecksLess(L, M) /\ \A q \in Queues : QueueLess(L, M, q)

(* The groups of M, and what LFGMgr knows of them, are those of L.           *)
GSame(L, M) ==
  /\ M.grp = L.grp
  /\ \A p \in Players : \A q \in Queues : M.pl[p][q].group = L.pl[p][q].group
  /\ \A g \in Groups : M.gr[g].players = L.gr[g].players /\ M.gr[g].queue = L.gr[g].queue
  /\ L.gr[Party].old = "none" => M.gr[Party].old = "none"

Lesser(L, M) == QLess(L, M) /\ GSame(L, M)

(* M differs from L in the states of players and groups only.                *)
OnlyStates(L, M) ==
  /\ DOMAIN M = Fields /\ M.before = L.before
  /\ M.data = L.data /\ M.fresh = L.fresh /\ M.cur = L.cur /\ M.cache = L.cache
  /\ M.prop = L.prop /\ M.chk = L.chk /\ M.last = L.last
  /\ PlayersOK(M) /\ GSame(L, M)

LEMMA QLessItself ==
  ASSUME NEW L, NEW M, M.data = L.data, M.fresh = L.fresh, M.cur = L.cur,
         M.prop = L.prop, M.chk = L.chk, M.last = L.last
  PROVE  QLess(L, M)
  <1>1. ASSUME NEW q \in Queues PROVE QueueLess(L, M, q)
    BY DEF QueueLess, Listed
  <1>2. QED
    BY <1>1 DEF QLess, ProposalsLess, ChecksLess

LEMMA QueueLessTransitive ==
  ASSUME NEW L, NEW M, NEW N, NEW q, QueueLess(L, M, q), QueueLess(M, N, q),
         ProposalsLess(L, M)
  PROVE  QueueLess(L, N, q)
  <1>1. /\ DOMAIN N.data[q] \subseteq DOMAIN L.data[q]
        /\ \A e \in DOMAIN N.data[q] : N.data[q][e] = L.data[q][e]
        /\ \A e \in DOMAIN N.data[q] : e \in Listed(L, q) => e \in Listed(N, q)
    BY DEF QueueLess
  <1>2. ASSUME NEW i \in DOMAIN L.prop \ DOMAIN N.prop, L.prop[i].queue = q,
               NEW e \in DOMAIN N.data[q], e \in Range(L.prop[i].entries)
        PROVE  e \in Listed(N, q)
    <2>1. e \in DOMAIN M.data[q]
      BY DEF QueueLess
    <2>2. CASE i \in DOMAIN M.prop
      <3>1. M.prop[i] = L.prop[i]
        BY <2>2 DEF ProposalsLess
      <3>2. QED
        BY <1>2, <2>2, <3>1 DEF QueueLess
    <2>3. CASE i \notin DOMAIN M.prop
      <3>1. e \in Listed(M, q)
        BY <1>2, <2>1, <2>3 DEF QueueLess
      <3>2. QED
        BY <3>1 DEF QueueLess
    <2>4. QED
      BY <2>2, <2>3
  <1>3. ASSUME NEW e \in Listed(N, q) PROVE e \in Listed(L, q) \/ Proposed(L, q, e)
    <2>1. e \in Listed(M, q) \/ Proposed(M, q, e)
      BY DEF QueueLess
    <2>2. Proposed(M, q, e) => Proposed(L, q, e)
      BY DEF ProposalsLess, Proposed
    <2>3. QED
      BY <2>1, <2>2 DEF QueueLess
  <1>4. QED
    BY <1>1, <1>2, <1>3 DEF QueueLess

LEMMA QLessTransitive ==
  ASSUME NEW L, NEW M, NEW N, QLess(L, M), QLess(M, N)
  PROVE  QLess(L, N)
  <1>1. ProposalsLess(L, N) /\ ChecksLess(L, N)
    BY DEF QLess, ProposalsLess, ChecksLess
  <1>2. ASSUME NEW q \in Queues PROVE QueueLess(L, N, q)
    BY QueueLessTransitive DEF QLess
  <1>3. QED
    BY <1>1, <1>2 DEF QLess

LEMMA LesserTransitive ==
  ASSUME NEW L, NEW M, NEW N, Lesser(L, M), Lesser(M, N)
  PROVE  Lesser(L, N)
  <1>1. QLess(L, N)
    BY QLessTransitive DEF Lesser
  <1>2. GSame(L, N)
    BY DEF Lesser, GSame
  <1>3. QED
    BY <1>1, <1>2 DEF Lesser

LEMMA LesserItself ==
  ASSUME NEW L
  PROVE  Lesser(L, L)
  BY QLessItself DEF Lesser, GSame

LEMMA OnlyStatesLesser ==
  ASSUME NEW L, NEW M, Good(L), OnlyStates(L, M)
  PROVE  Good(M) /\ Lesser(L, M)
  <1>1. QLess(L, M)
    BY QLessItself DEF OnlyStates
  <1>2. ASSUME NEW q \in Queues PROVE QueueOK(M, q)
    BY DEF Good, QueuesOK, QueueOK, OnlyStates, Listed
  <1>3. QueuesOK(M)
    BY <1>2 DEF Good, QueuesOK, OnlyStates
  <1>4. ProposalsOK(M) /\ ChecksOK(M)
    BY DEF Good, ProposalsOK, ChecksOK, OnlyStates
  <1>5. QED
    BY <1>1, <1>3, <1>4 DEF Good, Lesser, OnlyStates

LEMMA OnlyStatesTransitive ==
  ASSUME NEW L, NEW M, NEW N, OnlyStates(L, M), OnlyStates(M, N)
  PROVE  OnlyStates(L, N)
  <1>1. GSame(L, N)
    BY DEF OnlyStates, GSame
  <1>2. QED
    BY <1>1 DEF OnlyStates

-----------------------------------------------------------------------------
(* Changes of states *)

LEMMA MovedPlayer ==
  ASSUME NEW d \in PlayerData, NEW s \in States
  PROVE  MovedTo(d, s) \in PlayerData /\ MovedTo(d, s).group = d.group
  BY DEF MovedTo, PlayerData

LEMMA MovedGroup ==
  ASSUME NEW d \in GroupData, NEW s \in States
  PROVE  /\ MovedTo(d, s) \in GroupData /\ MovedTo(d, s).players = d.players
         /\ MovedTo(d, s).queue = d.queue
         /\ MovedTo(d, s).old = IF s \in Lasting THEN s ELSE d.old
  BY DEF MovedTo, GroupData

LEMMA RestoredPlayer ==
  ASSUME NEW d \in PlayerData
  PROVE  Restored(d) \in PlayerData /\ Restored(d).group = d.group
  BY DEF Restored, PlayerData

LEMMA RestoredGroup ==
  ASSUME NEW d \in GroupData
  PROVE  /\ Restored(d) \in GroupData /\ Restored(d).players = d.players
         /\ Restored(d).queue = d.queue /\ Restored(d).old = d.old
  BY DEF Restored, GroupData

LEMMA PlayersChange ==
  ASSUME NEW L, Good(L), NEW M, NEW f, M = [L EXCEPT !.pl = f],
         f \in [Players -> [Queues -> PlayerData]],
         \A p \in Players : \A q \in Queues : f[p][q].group = L.pl[p][q].group
  PROVE  OnlyStates(L, M) /\ M.mem = L.mem /\ M.gr = L.gr /\ M.away = L.away /\ M.open = L.open
         /\ M.pl = f
  <1>1. DOMAIN L = Fields
    BY DEF Good
  <1>2. /\ DOMAIN M = Fields /\ M.pl = f /\ M.mem = L.mem /\ M.gr = L.gr
        /\ M.grp = L.grp /\ M.data = L.data /\ M.fresh = L.fresh
    BY <1>1 DEF Fields
  <1>3. /\ M.cur = L.cur /\ M.cache = L.cache /\ M.open = L.open
        /\ M.prop = L.prop /\ M.chk = L.chk /\ M.last = L.last /\ M.before = L.before
        /\ M.away = L.away
    BY <1>1 DEF Fields
  <1>4. PlayersOK(M)
    BY <1>2, <1>3 DEF Good, PlayersOK
  <1>5. GSame(L, M)
    BY <1>2 DEF GSame
  <1>6. QED
    BY <1>2, <1>3, <1>4, <1>5 DEF OnlyStates

LEMMA SetStatesOnly ==
  ASSUME NEW L, Good(L), NEW S, NEW q, NEW s \in States
  PROVE  /\ OnlyStates(L, SetStates(L, S, q, s)) /\ SetStates(L, S, q, s).gr = L.gr
         /\ SetStates(L, S, q, s).away = L.away /\ SetStates(L, S, q, s).mem = L.mem
         /\ SetStates(L, S, q, s).open = L.open
  <1> DEFINE f == [p \in Players |->
                     IF p \in S THEN [L.pl[p] EXCEPT ![q] = MovedTo(@, s)] ELSE L.pl[p]]
  <1>1. L.pl \in [Players -> [Queues -> PlayerData]]
    BY DEF Good, PlayersOK
  <1>2. ASSUME NEW p \in Players
        PROVE  f[p] \in [Queues -> PlayerData] /\ \A r \in Queues : f[p][r].group = L.pl[p][r].group
    <2>1. CASE q \in Queues /\ p \in S
      <3>1. MovedTo(L.pl[p][q], s) \in PlayerData /\ MovedTo(L.pl[p][q], s).group = L.pl[p][q].group
        BY <1>1, <2>1, MovedPlayer
      <3>2. f[p] = [L.pl[p] EXCEPT ![q] = MovedTo(L.pl[p][q], s)]
        BY <2>1
      <3>3. QED
        BY <1>1, <2>1, <3>1, <3>2
    <2>2. CASE q \notin Queues \/ p \notin S
      <3>1. f[p] = L.pl[p]
        BY <1>1, <2>2
      <3>2. QED
        BY <1>1, <3>1
    <2>3. QED
      BY <2>1, <2>2
  <1>3. SetStates(L, S, q, s) = [L EXCEPT !.pl = f]
    BY DEF SetStates
  <1>4. f \in [Players -> [Queues -> PlayerData]]
        /\ \A p \in Players : \A r \in Queues : f[p][r].group = L.pl[p][r].group
    BY <1>2
  <1> HIDE DEF f
  <1>5. QED
    BY <1>3, <1>4, PlayersChange

LEMMA RestoreStatesOnly ==
  ASSUME NEW L, Good(L), NEW S, NEW q
  PROVE  /\ OnlyStates(L, RestoreStates(L, S, q)) /\ RestoreStates(L, S, q).gr = L.gr
         /\ RestoreStates(L, S, q).mem = L.mem
  <1> DEFINE f == [p \in Players |->
                     IF p \in S THEN [L.pl[p] EXCEPT ![q] = Restored(@)] ELSE L.pl[p]]
  <1>1. L.pl \in [Players -> [Queues -> PlayerData]]
    BY DEF Good, PlayersOK
  <1>2. ASSUME NEW p \in Players
        PROVE  f[p] \in [Queues -> PlayerData] /\ \A r \in Queues : f[p][r].group = L.pl[p][r].group
    <2>1. CASE q \in Queues /\ p \in S
      <3>1. Restored(L.pl[p][q]) \in PlayerData /\ Restored(L.pl[p][q]).group = L.pl[p][q].group
        BY <1>1, <2>1, RestoredPlayer
      <3>2. f[p] = [L.pl[p] EXCEPT ![q] = Restored(L.pl[p][q])]
        BY <2>1
      <3>3. QED
        BY <1>1, <2>1, <3>1, <3>2
    <2>2. CASE q \notin Queues \/ p \notin S
      <3>1. f[p] = L.pl[p]
        BY <1>1, <2>2
      <3>2. QED
        BY <1>1, <3>1
    <2>3. QED
      BY <2>1, <2>2
  <1>3. RestoreStates(L, S, q) = [L EXCEPT !.pl = f]
    BY DEF RestoreStates
  <1>4. f \in [Players -> [Queues -> PlayerData]]
        /\ \A p \in Players : \A r \in Queues : f[p][r].group = L.pl[p][r].group
    BY <1>2
  <1> HIDE DEF f
  <1>5. QED
    BY <1>3, <1>4, PlayersChange

LEMMA InOthersOnly ==
  ASSUME NEW L, Good(L), NEW S, NEW q, NEW s \in States
  PROVE  /\ OnlyStates(L, InOthers(L, S, q, s)) /\ InOthers(L, S, q, s).gr = L.gr
         /\ InOthers(L, S, q, s).away = L.away /\ InOthers(L, S, q, s).mem = L.mem
         /\ InOthers(L, S, q, s).open = L.open
  <1> DEFINE f == [p \in Players |-> [r \in Queues |->
                     IF p \in S /\ r \in L.mem[p] \ {q} THEN MovedTo(L.pl[p][r], s)
                     ELSE L.pl[p][r]]]
  <1>1. L.pl \in [Players -> [Queues -> PlayerData]]
    BY DEF Good, PlayersOK
  <1>2. ASSUME NEW p \in Players, NEW r \in Queues
        PROVE  f[p][r] \in PlayerData /\ f[p][r].group = L.pl[p][r].group
    <2>1. MovedTo(L.pl[p][r], s) \in PlayerData /\ MovedTo(L.pl[p][r], s).group = L.pl[p][r].group
      BY <1>1, MovedPlayer
    <2>2. f[p][r] = IF p \in S /\ r \in L.mem[p] \ {q} THEN MovedTo(L.pl[p][r], s)
                    ELSE L.pl[p][r]
      OBVIOUS
    <2>3. QED
      BY <1>1, <2>1, <2>2
  <1>3. InOthers(L, S, q, s) = [L EXCEPT !.pl = f]
    BY DEF InOthers
  <1>4. f \in [Players -> [Queues -> PlayerData]]
    <2>1. \A p \in Players : f[p] = [r \in Queues |-> f[p][r]]
      OBVIOUS
    <2>2. f = [p \in Players |-> f[p]]
      OBVIOUS
    <2> HIDE DEF f
    <2>3. \A p \in Players : f[p] \in [Queues -> PlayerData]
      BY <1>2, <2>1
    <2>4. QED
      BY <2>2, <2>3
  <1>5. \A p \in Players : \A r \in Queues : f[p][r].group = L.pl[p][r].group
    BY <1>2
  <1> HIDE DEF f
  <1>6. QED
    BY <1>3, <1>4, <1>5, PlayersChange

LEMMA StartOthersOnly ==
  ASSUME NEW L, Good(L), NEW S, NEW q
  PROVE  /\ OnlyStates(L, StartAllOtherQueue(L, S, q)) /\ StartAllOtherQueue(L, S, q).gr = L.gr
         /\ StartAllOtherQueue(L, S, q).away = L.away /\ StartAllOtherQueue(L, S, q).mem = L.mem
  <1>1. "queued" \in States
    BY DEF States
  <1>2. QED
    BY <1>1, InOthersOnly DEF StartAllOtherQueue

LEMMA StopOthersOnly ==
  ASSUME NEW L, Good(L), NEW S, NEW q
  PROVE  /\ OnlyStates(L, StopAllOtherQueue(L, S, q)) /\ StopAllOtherQueue(L, S, q).gr = L.gr
         /\ StopAllOtherQueue(L, S, q).away = L.away /\ StopAllOtherQueue(L, S, q).mem = L.mem
  <1>1. "waite" \in States
    BY DEF States
  <1>2. QED
    BY <1>1, InOthersOnly DEF StopAllOtherQueue

(* The group's side: what is known of a group but its state stays.          *)
LEMMA GroupsChange ==
  ASSUME NEW L, Good(L), NEW M, NEW f, M = [L EXCEPT !.gr = f],
         f \in [Groups -> GroupData],
         \A g \in Groups : f[g].players = L.gr[g].players /\ f[g].queue = L.gr[g].queue,
         L.gr[Party].old = "none" => f[Party].old = "none"
  PROVE  OnlyStates(L, M) /\ M.pl = L.pl /\ M.mem = L.mem /\ M.away = L.away
  <1>1. DOMAIN L = Fields
    BY DEF Good
  <1>2. /\ DOMAIN M = Fields /\ M.pl = L.pl /\ M.mem = L.mem /\ M.gr = f
        /\ M.grp = L.grp /\ M.data = L.data /\ M.fresh = L.fresh
    BY <1>1 DEF Fields
  <1>3. /\ M.cur = L.cur /\ M.cache = L.cache /\ M.open = L.open
        /\ M.prop = L.prop /\ M.chk = L.chk /\ M.last = L.last /\ M.before = L.before
        /\ M.away = L.away
    BY <1>1 DEF Fields
  <1>4. PlayersOK(M)
    BY <1>2, <1>3 DEF Good, PlayersOK
  <1>5. GSame(L, M)
    BY <1>2 DEF GSame
  <1>6. QED
    BY <1>2, <1>3, <1>4, <1>5 DEF OnlyStates

LEMMA SetGroupStateOnly ==
  ASSUME NEW L, Good(L), NEW g \in Groups, NEW s \in States,
         s \in Lasting => g \in LfgGroups \/ s = "none"
  PROVE  /\ OnlyStates(L, SetGroupState(L, g, s)) /\ SetGroupState(L, g, s).mem = L.mem
         /\ SetGroupState(L, g, s).away = L.away
  <1> DEFINE d == IF s = "none" THEN [MovedTo(L.gr[g], s) EXCEPT !.dungeon = NoQueue]
                  ELSE MovedTo(L.gr[g], s)
             f == [L.gr EXCEPT ![g] = d]
  <1>1. L.gr \in [Groups -> GroupData]
    BY DEF Good, PlayersOK
  <1>2. /\ MovedTo(L.gr[g], s) \in GroupData /\ MovedTo(L.gr[g], s).players = L.gr[g].players
        /\ MovedTo(L.gr[g], s).queue = L.gr[g].queue
        /\ MovedTo(L.gr[g], s).old = IF s \in Lasting THEN s ELSE L.gr[g].old
    BY <1>1, MovedGroup
  <1>3. /\ d \in GroupData /\ d.players = L.gr[g].players /\ d.queue = L.gr[g].queue
        /\ d.old = IF s \in Lasting THEN s ELSE L.gr[g].old
    BY <1>2 DEF GroupData
  <1>4. SetGroupState(L, g, s) = [L EXCEPT !.gr = f]
    BY DEF SetGroupState
  <1>5. Party \in Groups /\ Party \notin LfgGroups
    BY FinderAssumption DEF Groups
  <1> HIDE DEF d
  <1>6. f \in [Groups -> GroupData]
    BY <1>1, <1>3
  <1>7. \A x \in Groups : f[x].players = L.gr[x].players /\ f[x].queue = L.gr[x].queue
    BY <1>1, <1>3
  <1>8. L.gr[Party].old = "none" => f[Party].old = "none"
    BY <1>1, <1>3, <1>5
  <1> HIDE DEF f
  <1>9. QED
    BY <1>4, <1>6, <1>7, <1>8, GroupsChange

LEMMA RestoreGroupOnly ==
  ASSUME NEW L, Good(L), NEW g \in Groups
  PROVE  OnlyStates(L, RestoreGroup(L, g))
  <1> DEFINE f == [L.gr EXCEPT ![g] = Restored(L.gr[g])]
  <1>1. L.gr \in [Groups -> GroupData]
    BY DEF Good, PlayersOK
  <1>2. /\ Restored(L.gr[g]) \in GroupData /\ Restored(L.gr[g]).players = L.gr[g].players
        /\ Restored(L.gr[g]).queue = L.gr[g].queue /\ Restored(L.gr[g]).old = L.gr[g].old
    BY <1>1, RestoredGroup
  <1>3. RestoreGroup(L, g) = [L EXCEPT !.gr = f]
    BY DEF RestoreGroup
  <1>5. Party \in Groups
    BY DEF Groups
  <1>6. f \in [Groups -> GroupData]
    BY <1>1, <1>2
  <1>7. \A x \in Groups : f[x].players = L.gr[x].players /\ f[x].queue = L.gr[x].queue
    BY <1>1, <1>2
  <1>8. L.gr[Party].old = "none" => f[Party].old = "none"
    BY <1>1, <1>2, <1>5
  <1> HIDE DEF f
  <1>9. QED
    BY <1>3, <1>6, <1>7, <1>8, GroupsChange

LEMMA MembershipOnly ==
  ASSUME NEW L, Good(L), NEW f, f \in [Players -> SUBSET Queues]
  PROVE  /\ OnlyStates(L, [L EXCEPT !.mem = f])
         /\ [L EXCEPT !.mem = f].pl = L.pl /\ [L EXCEPT !.mem = f].gr = L.gr
  <1> DEFINE M == [L EXCEPT !.mem = f]
  <1>1. DOMAIN L = Fields
    BY DEF Good
  <1>2. /\ DOMAIN M = Fields /\ M.pl = L.pl /\ M.mem = f /\ M.gr = L.gr
        /\ M.grp = L.grp /\ M.data = L.data /\ M.fresh = L.fresh
    BY <1>1 DEF Fields
  <1>3. /\ M.cur = L.cur /\ M.cache = L.cache /\ M.open = L.open
        /\ M.prop = L.prop /\ M.chk = L.chk /\ M.last = L.last /\ M.before = L.before
        /\ M.away = L.away
    BY <1>1 DEF Fields
  <1> HIDE DEF M
  <1>4. PlayersOK(M)
    BY <1>2, <1>3 DEF Good, PlayersOK
  <1>5. GSame(L, M)
    BY <1>2 DEF GSame
  <1>6. OnlyStates(L, M) /\ M.pl = L.pl /\ M.gr = L.gr
    BY <1>2, <1>3, <1>4, <1>5 DEF OnlyStates
  <1>7. QED
    BY <1>6 DEF M

LEMMA ForgetOnly ==
  ASSUME NEW L, Good(L), NEW p \in Players, NEW q
  PROVE  OnlyStates(L, Forget(L, p, q))
  <1> DEFINE f == [L.mem EXCEPT ![p] = @ \ {q}]
  <1>1. f \in [Players -> SUBSET Queues]
    BY DEF Good, PlayersOK
  <1>2. Forget(L, p, q) = [L EXCEPT !.mem = f]
    BY DEF Forget
  <1> HIDE DEF f
  <1>3. QED
    BY <1>1, <1>2, MembershipOnly

-----------------------------------------------------------------------------
(* The queues *)

(* Nothing of M differs from L but the queues.                              *)
SameElsewhere(L, M) ==
  /\ DOMAIN M = Fields
  /\ M.pl = L.pl /\ M.gr = L.gr /\ M.mem = L.mem /\ M.grp = L.grp /\ M.open = L.open
  /\ M.away = L.away /\ M.prop = L.prop /\ M.chk = L.chk /\ M.last = L.last
  /\ M.before = L.before
SameQueue(L, M, q) ==
  /\ M.data[q] = L.data[q] /\ M.fresh[q] = L.fresh[q]
  /\ M.cur[q] = L.cur[q] /\ M.cache[q] = L.cache[q]
QueueDomains(L) ==
  /\ DOMAIN L.data = Queues /\ DOMAIN L.fresh = Queues
  /\ DOMAIN L.cur = Queues /\ DOMAIN L.cache = Queues
SameButQueue(L, M, q) ==
  SameElsewhere(L, M) /\ QueueDomains(M) /\ \A r \in Queues \ {q} : SameQueue(L, M, r)

LEMMA QueueKept ==
  ASSUME NEW L, NEW M, NEW q, QueueOK(L, q), SameQueue(L, M, q)
  PROVE  QueueOK(M, q) /\ Listed(M, q) = Listed(L, q)
  <1>1. Listed(M, q) = Listed(L, q)
    BY DEF Listed, SameQueue
  <1>2. QED
    BY <1>1 DEF QueueOK, SameQueue

LEMMA ListedTyped ==
  ASSUME NEW L, NEW q, QueueOK(L, q)
  PROVE  Listed(L, q) \subseteq Entries /\ DOMAIN L.data[q] \subseteq Entries
  BY DEF QueueOK, DataOK

(* To change one queue, look at that queue.                                 *)
LEMMA OneQueueGood ==
  ASSUME NEW L, Good(L), NEW q \in Queues, NEW M, SameButQueue(L, M, q), QueueOK(M, q)
  PROVE  /\ Good(M) /\ GSame(L, M)
         /\ QueueLess(L, M, q) => Lesser(L, M)
  <1>1. QueuesOK(L)
    BY DEF Good
  <1>2. ASSUME NEW r \in Queues, r # q PROVE QueueOK(M, r) /\ QueueLess(L, M, r)
    <2>1. SameQueue(L, M, r)
      BY <1>2 DEF SameButQueue
    <2>2. QueueOK(L, r)
      BY <1>1 DEF QueuesOK
    <2>3. QueueOK(M, r) /\ Listed(M, r) = Listed(L, r)
      BY <2>1, <2>2, QueueKept
    <2>4. QED
      BY <2>1, <2>3 DEF QueueLess, SameButQueue, SameElsewhere, SameQueue
  <1>3. QueuesOK(M)
    BY <1>2 DEF QueuesOK, SameButQueue, QueueDomains
  <1>4. SameElsewhere(L, M)
    BY DEF SameButQueue
  <1>5. PlayersOK(M) /\ ProposalsOK(M) /\ ChecksOK(M) /\ M.before \in Nat
    BY <1>4 DEF Good, PlayersOK, ProposalsOK, ChecksOK, SameElsewhere
  <1>6. GSame(L, M)
    BY <1>4 DEF GSame, SameElsewhere
  <1>7. ProposalsLess(L, M) /\ ChecksLess(L, M)
    BY <1>4 DEF ProposalsLess, ChecksLess, SameElsewhere
  <1>8. Good(M)
    BY <1>3, <1>4, <1>5 DEF Good, SameElsewhere
  <1>9. QueueLess(L, M, q) => QLess(L, M)
    BY <1>2, <1>7 DEF QLess
  <1>10. QED
    BY <1>6, <1>8, <1>9 DEF Lesser

(* RemoveFromQueue *)
QueueMinus(L, M, q, E) ==
  /\ M.data[q] = Restrict(L.data[q], DOMAIN L.data[q] \ E)
  /\ M.fresh[q] = Minus(L.fresh[q], E) /\ M.cur[q] = Minus(L.cur[q], E)
  /\ M.cache[q] = Restrict(L.cache[q], {k \in DOMAIN L.cache[q] : k \cap E = {}})

LEMMA RemoveEntriesFields ==
  ASSUME NEW L, Good(L), NEW q \in Queues, NEW E
  PROVE  /\ SameButQueue(L, RemoveEntries(L, q, E), q)
         /\ QueueMinus(L, RemoveEntries(L, q, E), q, E)
  <1> DEFINE M == RemoveEntries(L, q, E)
             f == [L.fresh EXCEPT ![q] = Minus(@, E)]
             c == [L.cur EXCEPT ![q] = Minus(@, E)]
             d == [L.data EXCEPT ![q] = Restrict(@, DOMAIN @ \ E)]
             h == [L.cache EXCEPT ![q] = Restrict(@, {k \in DOMAIN @ : k \cap E = {}})]
  <1>1. DOMAIN L = Fields
    BY DEF Good
  <1>2. M = [L EXCEPT !.fresh = f, !.cur = c, !.data = d, !.cache = h]
    BY DEF RemoveEntries
  <1>3. /\ DOMAIN f = DOMAIN L.fresh /\ DOMAIN c = DOMAIN L.cur
        /\ DOMAIN d = DOMAIN L.data /\ DOMAIN h = DOMAIN L.cache
        /\ \A r : r # q => f[r] = L.fresh[r] /\ c[r] = L.cur[r] /\ d[r] = L.data[r] /\ h[r] = L.cache[r]
    OBVIOUS
  <1>4. QueueDomains(L)
    BY DEF Good, QueuesOK, QueueDomains
  <1>5. /\ f[q] = Minus(L.fresh[q], E) /\ c[q] = Minus(L.cur[q], E)
        /\ d[q] = Restrict(L.data[q], DOMAIN L.data[q] \ E)
        /\ h[q] = Restrict(L.cache[q], {k \in DOMAIN L.cache[q] : k \cap E = {}})
    BY <1>4 DEF QueueDomains
  <1> HIDE DEF f, c, d, h, M
  <1>6. SameElsewhere(L, M)
    BY <1>1, <1>2 DEF Fields, SameElsewhere
  <1>7. M.fresh = f /\ M.cur = c /\ M.data = d /\ M.cache = h
    BY <1>1, <1>2 DEF Fields
  <1>8. SameButQueue(L, M, q)
    BY <1>3, <1>4, <1>6, <1>7 DEF SameButQueue, SameQueue, QueueDomains
  <1>9. QueueMinus(L, M, q, E)
    BY <1>5, <1>7 DEF QueueMinus
  <1>10. QED
    BY <1>8, <1>9 DEF M

LEMMA QueueWithout ==
  ASSUME NEW L, NEW M, NEW q, NEW E, QueueOK(L, q), QueueMinus(L, M, q, E)
  PROVE  /\ QueueOK(M, q) /\ Listed(M, q) = Listed(L, q) \ E
         /\ DOMAIN M.data[q] = DOMAIN L.data[q] \ E
         /\ \A e \in DOMAIN M.data[q] : M.data[q][e] = L.data[q][e]
  <1>1. /\ M.fresh[q] \in Seq(Entries) /\ M.cur[q] \in Seq(Entries)
        /\ Range(M.fresh[q]) = Range(L.fresh[q]) \ E
        /\ Range(M.cur[q]) = Range(L.cur[q]) \ E
    BY MinusElements DEF QueueOK, QueueMinus
  <1>2. Listed(M, q) = Listed(L, q) \ E
    BY <1>1 DEF Listed
  <1>3. /\ DOMAIN M.data[q] = DOMAIN L.data[q] \ E
        /\ \A e \in DOMAIN M.data[q] : M.data[q][e] = L.data[q][e]
    BY DEF Restrict, QueueMinus
  <1>4. DataOK(M.data[q])
    BY <1>3 DEF QueueOK, DataOK
  <1>5. /\ DOMAIN M.cache[q] = {k \in DOMAIN L.cache[q] : k \cap E = {}}
        /\ \A k \in DOMAIN M.cache[q] : M.cache[q][k] = L.cache[q][k]
    BY DEF Restrict, QueueMinus
  <1>51. \A k \in DOMAIN M.cache[q] : k \in DOMAIN L.cache[q] /\ k \cap E = {}
                                     /\ M.cache[q][k] = L.cache[q][k]
    BY <1>5
  <1> DEFINE D == DOMAIN M.cache[q]
             C == DOMAIN L.cache[q]
  <1>6. Range(M.cache[q]) \subseteq Range(L.cache[q])
    BY <1>51 DEF Range
  <1>61. \A k \in D : k \in C /\ k \cap E = {}
    BY <1>51
  <1> HIDE DEF D, C
  <1>62. UNION D \subseteq (UNION C) \ E
    BY <1>61
  <1>7. UNION DOMAIN M.cache[q] \subseteq (UNION DOMAIN L.cache[q]) \ E
    BY <1>62 DEF D, C
  <1>8. QED
    BY <1>1, <1>2, <1>3, <1>4, <1>6, <1>7 DEF QueueOK

LEMMA RemoveEntriesLesser ==
  ASSUME NEW L, Good(L), NEW q \in Queues, NEW E
  PROVE  /\ Good(RemoveEntries(L, q, E)) /\ Lesser(L, RemoveEntries(L, q, E))
         /\ SameButQueue(L, RemoveEntries(L, q, E), q)
         /\ DOMAIN RemoveEntries(L, q, E).data[q] = DOMAIN L.data[q] \ E
         /\ Listed(RemoveEntries(L, q, E), q) = Listed(L, q) \ E
  <1> DEFINE M == RemoveEntries(L, q, E)
  <1>1. SameButQueue(L, M, q) /\ QueueMinus(L, M, q, E)
    BY RemoveEntriesFields
  <1>2. QueueOK(L, q)
    BY DEF Good, QueuesOK
  <1> HIDE DEF M
  <1>3. /\ QueueOK(M, q) /\ Listed(M, q) = Listed(L, q) \ E
        /\ DOMAIN M.data[q] = DOMAIN L.data[q] \ E
        /\ \A e \in DOMAIN M.data[q] : M.data[q][e] = L.data[q][e]
    BY <1>1, <1>2, QueueWithout
  <1>4. QueueLess(L, M, q)
    BY <1>1, <1>3 DEF QueueLess, SameButQueue, SameElsewhere
  <1>5. Good(M) /\ Lesser(L, M)
    BY <1>1, <1>3, <1>4, OneQueueGood
  <1>6. QED
    BY <1>1, <1>3, <1>5 DEF M

(* AddQueueData *)
LEMMA AddQueueDataFields ==
  ASSUME NEW L, Good(L), NEW q \in Queues, NEW e \in Entries, NEW S \in SUBSET Players,
         e \in Players => S = {e}, NEW M, M = AddQueueData(L, q, e, S)
  PROVE  /\ Good(M) /\ SameButQueue(L, M, q) /\ GSame(L, M)
         /\ DOMAIN M.data[q] = DOMAIN L.data[q] \cup {e} /\ M.data[q][e] = S
         /\ \A x \in DOMAIN L.data[q] \ {e} : M.data[q][x] = L.data[q][x]
         /\ Listed(M, q) = Listed(L, q) \cup {e}
         /\ M.mem = L.mem /\ M.prop = L.prop /\ M.chk = L.chk /\ M.last = L.last
  <1> DEFINE g == [x \in DOMAIN L.data[q] \cup {e} |-> IF x = e THEN S ELSE L.data[q][x]]
             d == [L.data EXCEPT ![q] = g]
             f == [L.fresh EXCEPT ![q] = Append(@, e)]
  <1>1. DOMAIN L = Fields
    BY DEF Good
  <1>2. QueueDomains(L) /\ QueueOK(L, q)
    BY DEF Good, QueuesOK, QueueDomains
  <1>3. M = [L EXCEPT !.data = d, !.fresh = f]
    BY DEF AddQueueData
  <1>4. /\ DOMAIN f = DOMAIN L.fresh /\ DOMAIN d = DOMAIN L.data
        /\ \A r : r # q => f[r] = L.fresh[r] /\ d[r] = L.data[r]
    OBVIOUS
  <1>5. d[q] = g /\ f[q] = Append(L.fresh[q], e)
    BY <1>2 DEF QueueDomains
  <1>6. /\ DOMAIN g = DOMAIN L.data[q] \cup {e} /\ g[e] = S
        /\ \A x \in DOMAIN L.data[q] \ {e} : g[x] = L.data[q][x]
    OBVIOUS
  <1> HIDE DEF g, d, f
  <1>7. SameElsewhere(L, M) /\ M.cur = L.cur /\ M.cache = L.cache
    BY <1>1, <1>3 DEF Fields, SameElsewhere
  <1>8. M.data = d /\ M.fresh = f
    BY <1>1, <1>3 DEF Fields
  <1>9. SameButQueue(L, M, q)
    BY <1>2, <1>4, <1>7, <1>8 DEF SameButQueue, SameQueue, QueueDomains
  <1>10. M.fresh[q] \in Seq(Entries) /\ Range(M.fresh[q]) = Range(L.fresh[q]) \cup {e}
    <2>1. L.fresh[q] \in Seq(Entries)
      BY <1>2 DEF QueueOK
    <2>2. /\ Append(L.fresh[q], e) \in Seq(Entries)
          /\ Range(Append(L.fresh[q], e)) = Range(L.fresh[q]) \cup {e}
      BY <2>1, RangeAppend
    <2>3. QED
      BY <1>5, <1>8, <2>2
  <1>11. Listed(M, q) = Listed(L, q) \cup {e}
    BY <1>7, <1>10 DEF Listed
  <1>12. DataOK(M.data[q])
    <2>1. DataOK(L.data[q])
      BY <1>2 DEF QueueOK
    <2>2. DataOK(g)
      BY <2>1, <1>6 DEF DataOK
    <2>3. QED
      BY <1>5, <1>8, <2>2
  <1>13. QueueOK(M, q)
    BY <1>2, <1>5, <1>6, <1>7, <1>8, <1>10, <1>11, <1>12 DEF QueueOK
  <1>14. Good(M) /\ GSame(L, M)
    BY <1>9, <1>13, OneQueueGood
  <1>15. QED
    BY <1>5, <1>6, <1>7, <1>8, <1>9, <1>11, <1>14 DEF SameElsewhere

LEMMA AddToQueueListed ==
  ASSUME NEW L, Good(L), NEW q \in Queues, NEW s \in Seq(Entries),
         NEW M, M = AddToQueue(L, q, s)
  PROVE  /\ Good(M) /\ SameButQueue(L, M, q) /\ M.data = L.data
         /\ Listed(M, q) = Listed(L, q) \cup (Range(s) \cap DOMAIN L.data[q])
  <1> DEFINE u == Minus(s, Entries \ DOMAIN L.data[q])
             f == [L.fresh EXCEPT ![q] = @ \o u]
  <1>1. DOMAIN L = Fields
    BY DEF Good
  <1>2. QueueDomains(L) /\ QueueOK(L, q)
    BY DEF Good, QueuesOK, QueueDomains
  <1>3. M = [L EXCEPT !.fresh = f]
    BY DEF AddToQueue
  <1>4. u \in Seq(Entries) /\ Range(u) = Range(s) \ (Entries \ DOMAIN L.data[q])
    BY MinusElements
  <1>5. Range(u) = Range(s) \cap DOMAIN L.data[q]
    <2>1. Range(s) \subseteq Entries
      BY RangeInside
    <2>2. QED
      BY <1>4, <2>1
  <1> HIDE DEF u
  <1>6. DOMAIN f = DOMAIN L.fresh /\ \A r : r # q => f[r] = L.fresh[r]
    OBVIOUS
  <1>7. f[q] = L.fresh[q] \o u
    BY <1>2 DEF QueueDomains
  <1> HIDE DEF f
  <1>8. /\ SameElsewhere(L, M) /\ M.cur = L.cur /\ M.cache = L.cache /\ M.data = L.data
        /\ M.fresh = f
    BY <1>1, <1>3 DEF Fields, SameElsewhere
  <1>9. SameButQueue(L, M, q)
    BY <1>2, <1>6, <1>8 DEF SameButQueue, SameQueue, QueueDomains
  <1>10. M.fresh[q] \in Seq(Entries) /\ Range(M.fresh[q]) = Range(L.fresh[q]) \cup Range(u)
    <2>1. L.fresh[q] \in Seq(Entries)
      BY <1>2 DEF QueueOK
    <2>2. /\ L.fresh[q] \o u \in Seq(Entries)
          /\ Range(L.fresh[q] \o u) = Range(L.fresh[q]) \cup Range(u)
      BY <1>4, <2>1, RangeConcat
    <2>3. QED
      BY <1>7, <1>8, <2>2
  <1>11. Listed(M, q) = Listed(L, q) \cup (Range(s) \cap DOMAIN L.data[q])
    BY <1>5, <1>8, <1>10 DEF Listed
  <1>12. QueueOK(M, q)
    BY <1>2, <1>8, <1>10, <1>11 DEF QueueOK
  <1>13. Good(M)
    BY <1>9, <1>12, OneQueueGood
  <1>14. QED
    BY <1>8, <1>9, <1>11, <1>13

(* The end of a proposal that failed: it is taken out, its entries are      *)
(* listed again or have lost their data, and nothing else changes but       *)
(* states.                                                                  *)
LEMMA RemoveProposalLesser ==
  ASSUME NEW L, Good(L), NEW id \in DOMAIN L.prop, NEW timeout,
         NEW M, M = RemoveProposal(L, id, timeout)
  PROVE  Good(M) /\ Lesser(L, M) /\ DOMAIN M.prop = DOMAIN L.prop \ {id}
  <1> DEFINE pr == L.prop[id]
             q == pr.queue
             S == DOMAIN pr.answer
             Home(p) == IF pr.from[p] = NoGroup THEN p ELSE pr.from[p]
             denied == {p \in S : pr.answer[p] \in IF timeout THEN {"deny", "pending"}
                                                              ELSE {"deny"}}
             out == {Home(p) : p \in denied}
             back == {p \in S : Home(p) \notin out}
             parties == {Home(p) : p \in S} \cap Groups
             A == StartAllOtherQueue(L, S, q)
             B == RestoreStates(A, S \ back, q)
             C == SetStates(B, back, q, "queued")
             G == [g \in Groups |->
                      IF g \notin parties THEN C.gr[g]
                      ELSE IF g \in out THEN Restored(C.gr[g])
                      ELSE MovedTo(C.gr[g], "queued")]
             m == [p \in Players |-> IF p \in out THEN C.mem[p] \ {q} ELSE C.mem[p]]
             N == [C EXCEPT !.gr = G, !.mem = m, !.prop = Drop(@, id)]
             R == RemoveEntries(N, q, out)
             s == Minus(pr.entries, out)
  <1>1. M = AddToQueue(R, q, s)
    BY DEF RemoveProposal
  <1>2. ProposalOK(pr) /\ q \in Queues /\ pr.entries \in Seq(Entries)
    BY DEF Good, ProposalsOK, ProposalOK
  <1> HIDE DEF Home, out, back, parties
  <1>3. s \in Seq(Entries) /\ Range(s) = Range(pr.entries) \ out
    BY <1>2, MinusElements
  <1>4. Good(A) /\ OnlyStates(L, A)
    BY StartOthersOnly, OnlyStatesLesser
  <1> HIDE DEF A
  <1>5. Good(B) /\ OnlyStates(A, B)
    BY <1>4, RestoreStatesOnly, OnlyStatesLesser
  <1> HIDE DEF B
  <1>6. Good(C) /\ OnlyStates(B, C)
    <2>1. "queued" \in States
      BY DEF States
    <2>2. QED
      BY <1>5, <2>1, SetStatesOnly, OnlyStatesLesser
  <1> HIDE DEF C
  <1>7. OnlyStates(L, C)
    BY <1>4, <1>5, <1>6, OnlyStatesTransitive
  <1>8. PlayersOK(C) /\ DOMAIN C = Fields /\ L.prop = C.prop
    BY <1>6, <1>7 DEF Good, OnlyStates
  <1>9. /\ G \in [Groups -> GroupData]
        /\ \A g \in Groups : G[g].players = C.gr[g].players /\ G[g].queue = C.gr[g].queue
        /\ C.gr[Party].old = "none" => G[Party].old = "none"
    <2>1. ASSUME NEW g \in Groups
          PROVE  /\ G[g] \in GroupData /\ G[g].players = C.gr[g].players
                 /\ G[g].queue = C.gr[g].queue /\ G[g].old = C.gr[g].old
      <3>1. C.gr[g] \in GroupData
        BY <1>8 DEF PlayersOK
      <3>2. "queued" \in States /\ "queued" \notin Lasting
        BY DEF States, Lasting
      <3>3. /\ MovedTo(C.gr[g], "queued") \in GroupData
            /\ MovedTo(C.gr[g], "queued").players = C.gr[g].players
            /\ MovedTo(C.gr[g], "queued").queue = C.gr[g].queue
            /\ MovedTo(C.gr[g], "queued").old = C.gr[g].old
        BY <3>1, <3>2, MovedGroup
      <3>4. /\ Restored(C.gr[g]) \in GroupData /\ Restored(C.gr[g]).players = C.gr[g].players
            /\ Restored(C.gr[g]).queue = C.gr[g].queue /\ Restored(C.gr[g]).old = C.gr[g].old
        BY <3>1, RestoredGroup
      <3>5. \/ G[g] = C.gr[g] \/ G[g] = Restored(C.gr[g]) \/ G[g] = MovedTo(C.gr[g], "queued")
        OBVIOUS
      <3> HIDE DEF G
      <3>6. QED
        BY <3>1, <3>3, <3>4, <3>5
    <2>2. G = [g \in Groups |-> G[g]]
      OBVIOUS
    <2> HIDE DEF G
    <2>3. Party \in Groups
      BY DEF Groups
    <2>4. QED
      BY <2>1, <2>2, <2>3
  <1>10. m \in [Players -> SUBSET Queues]
    BY <1>8 DEF PlayersOK
  <1> HIDE DEF G, m
  <1>11. /\ DOMAIN N = Fields /\ N.pl = C.pl /\ N.gr = G /\ N.mem = m /\ N.grp = C.grp
         /\ N.open = C.open /\ N.away = C.away /\ N.before = C.before
    BY <1>8 DEF Fields
  <1>12. /\ N.data = C.data /\ N.fresh = C.fresh /\ N.cur = C.cur /\ N.cache = C.cache
         /\ N.chk = C.chk /\ N.last = C.last /\ N.prop = Drop(L.prop, id)
    BY <1>8 DEF Fields
  <1> HIDE DEF N
  <1>13. /\ N.data = L.data /\ N.fresh = L.fresh /\ N.cur = L.cur /\ N.cache = L.cache
         /\ N.chk = L.chk /\ N.last = L.last
    BY <1>7, <1>12 DEF OnlyStates
  <1>14. /\ DOMAIN N.prop = DOMAIN L.prop \ {id}
         /\ \A i \in DOMAIN N.prop : N.prop[i] = L.prop[i]
    BY <1>12 DEF Drop, Restrict
  <1>15. GSame(L, N)
    <2>1. GSame(C, N)
      BY <1>9, <1>11 DEF GSame
    <2>2. GSame(L, C)
      BY <1>7 DEF OnlyStates
    <2>3. QED
      BY <2>1, <2>2 DEF GSame
  <1>16. Good(N)
    <2>1. PlayersOK(N)
      BY <1>8, <1>9, <1>10, <1>11 DEF PlayersOK
    <2>2. ProposalsOK(N) /\ ChecksOK(N)
      BY <1>13, <1>14 DEF Good, ProposalsOK, ChecksOK
    <2>3. ASSUME NEW r \in Queues PROVE QueueOK(N, r)
      <3>1. QueueOK(L, r) /\ SameQueue(L, N, r)
        BY <1>13 DEF Good, QueuesOK, SameQueue
      <3>2. QED
        BY <3>1, QueueKept
    <2>4. QueuesOK(N)
      BY <1>13, <2>3 DEF Good, QueuesOK
    <2>5. N.before \in Nat
      BY <1>6, <1>11 DEF Good
    <2>6. QED
      BY <1>11, <2>1, <2>2, <2>4, <2>5 DEF Good
  <1>17. /\ Good(R) /\ Lesser(N, R) /\ SameButQueue(N, R, q)
         /\ DOMAIN R.data[q] = DOMAIN N.data[q] \ out
         /\ Listed(R, q) = Listed(N, q) \ out
    BY <1>2, <1>16, RemoveEntriesLesser
  <1> HIDE DEF R, s, q
  <1>18. /\ Good(M) /\ SameButQueue(R, M, q) /\ M.data = R.data
         /\ Listed(M, q) = Listed(R, q) \cup (Range(s) \cap DOMAIN R.data[q])
    BY <1>1, <1>2, <1>3, <1>17, AddToQueueListed
  <1>19. Listed(N, q) = Listed(L, q)
    BY <1>13 DEF Listed
  <1>20. M.prop = N.prop /\ M.chk = N.chk /\ M.last = N.last /\ GSame(N, M)
    <2>1. SameElsewhere(N, R) /\ SameElsewhere(R, M)
      BY <1>17, <1>18 DEF SameButQueue
    <2>2. QED
      BY <2>1 DEF SameElsewhere, GSame
  <1>21. ProposalsLess(L, M) /\ ChecksLess(L, M)
    BY <1>13, <1>14, <1>20 DEF ProposalsLess, ChecksLess
  <1>22. GSame(L, M)
    BY <1>15, <1>20 DEF GSame
  <1>23. /\ DOMAIN M.data[q] = DOMAIN L.data[q] \ out
         /\ \A e \in DOMAIN M.data[q] : M.data[q][e] = L.data[q][e]
    <2>1. DOMAIN M.data[q] = DOMAIN L.data[q] \ out
      BY <1>13, <1>17, <1>18
    <2>2. \A e \in DOMAIN R.data[q] : R.data[q][e] = N.data[q][e]
      BY <1>2, <1>17 DEF Lesser, QLess, QueueLess
    <2>3. QED
      BY <1>13, <1>18, <2>1, <2>2
  <1>24. Listed(M, q) = (Listed(L, q) \ out)
                          \cup ((Range(pr.entries) \ out) \cap DOMAIN M.data[q])
    BY <1>3, <1>17, <1>18, <1>19
  <1>25. QueueLess(L, M, q)
    <2>1. \A e \in DOMAIN M.data[q] : e \in Listed(L, q) => e \in Listed(M, q)
      BY <1>23, <1>24
    <2>2. ASSUME NEW i \in DOMAIN L.prop \ DOMAIN M.prop, NEW e \in DOMAIN M.data[q],
                 e \in Range(L.prop[i].entries)
          PROVE  e \in Listed(M, q)
      <3>1. i = id
        BY <1>14, <1>20
      <3>2. QED
        BY <1>23, <1>24, <2>2, <3>1
    <2>3. ASSUME NEW e \in Listed(M, q) PROVE e \in Listed(L, q) \/ Proposed(L, q, e)
      BY <1>24 DEF Proposed, q
    <2>4. QED
      BY <1>23, <2>1, <2>2, <2>3 DEF QueueLess
  <1>26. ASSUME NEW r \in Queues, r # q PROVE QueueLess(L, M, r)
    <2>1. SameQueue(N, R, r) /\ SameQueue(R, M, r)
      BY <1>17, <1>18, <1>26 DEF SameButQueue
    <2>2. /\ M.data[r] = L.data[r] /\ M.fresh[r] = L.fresh[r] /\ M.cur[r] = L.cur[r]
      BY <1>13, <2>1 DEF SameQueue
    <2>3. Listed(M, r) = Listed(L, r)
      BY <2>2 DEF Listed
    <2>4. \A i \in DOMAIN L.prop \ DOMAIN M.prop : L.prop[i].queue # r
      BY <1>14, <1>20, <1>26 DEF q
    <2>5. QED
      BY <2>2, <2>3, <2>4 DEF QueueLess
  <1>27. QLess(L, M)
    BY <1>21, <1>25, <1>26 DEF QLess
  <1>28. QED
    BY <1>14, <1>18, <1>20, <1>22, <1>27 DEF Lesser

-----------------------------------------------------------------------------
(* Answers, role checks and leaving *)

LEMMA LesserThenStates ==
  ASSUME NEW L, NEW M, NEW N, Good(M), Lesser(L, M), OnlyStates(M, N)
  PROVE  Good(N) /\ Lesser(L, N)
  <1>1. Good(N) /\ Lesser(M, N)
    BY OnlyStatesLesser
  <1>2. QED
    BY <1>1, LesserTransitive

(* M has L's proposals, but for p's answer to the one with number id.       *)
Answered(L, M, id, p, a) ==
  /\ DOMAIN M.prop = DOMAIN L.prop
  /\ \A i \in DOMAIN L.prop \ {id} : M.prop[i] = L.prop[i]
  /\ M.prop[id] = [L.prop[id] EXCEPT !.answer = [@ EXCEPT ![p] = a]]

LEMMA AnswerFields ==
  ASSUME NEW L, Good(L), NEW id \in DOMAIN L.prop, NEW p \in DOMAIN L.prop[id].answer,
         NEW a, NEW M, M = [L EXCEPT !.prop[id].answer[p] = a]
  PROVE  /\ Good(M) /\ Answered(L, M, id, p, a)
         /\ ProposalOK(M.prop[id]) /\ M.prop[id].queue = L.prop[id].queue
         /\ M.prop[id].entries = L.prop[id].entries /\ M.prop[id].group = L.prop[id].group
         /\ M.prop[id].from = L.prop[id].from
         /\ DOMAIN M.prop[id].answer = DOMAIN L.prop[id].answer
         /\ M.prop[id].answer[p] = a
         /\ \A x \in DOMAIN L.prop[id].answer \ {p} :
               M.prop[id].answer[x] = L.prop[id].answer[x]
         /\ M.data = L.data /\ M.fresh = L.fresh /\ M.cur = L.cur /\ M.cache = L.cache
         /\ M.chk = L.chk /\ M.last = L.last /\ GSame(L, M) /\ M.away = L.away
         /\ M.pl = L.pl /\ M.gr = L.gr /\ M.grp = L.grp
  <1> DEFINE pr == L.prop[id]
             f == [pr EXCEPT !.answer = [pr.answer EXCEPT ![p] = a]]
             P == [L.prop EXCEPT ![id] = f]
  <1>1. DOMAIN L = Fields /\ ProposalsOK(L) /\ ProposalOK(pr)
    BY DEF Good, ProposalsOK
  <1>2. M = [L EXCEPT !.prop = P]
    OBVIOUS
  <1>3. /\ f.queue = pr.queue /\ f.entries = pr.entries /\ f.group = pr.group
        /\ f.from = pr.from /\ DOMAIN f = DOMAIN pr
    BY <1>1 DEF ProposalOK
  <1>4. f.answer = [pr.answer EXCEPT ![p] = a]
    BY <1>1 DEF ProposalOK
  <1>5. /\ DOMAIN f.answer = DOMAIN pr.answer /\ f.answer[p] = a
        /\ \A x \in DOMAIN pr.answer \ {p} : f.answer[x] = pr.answer[x]
    BY <1>4
  <1>6. DOMAIN P = DOMAIN L.prop /\ P[id] = f /\ \A i \in DOMAIN L.prop \ {id} : P[i] = L.prop[i]
    OBVIOUS
  <1>7. P[id] = [pr EXCEPT !.answer = [@ EXCEPT ![p] = a]]
    BY <1>6
  <1> HIDE DEF P, f
  <1>8. /\ M.prop = P /\ DOMAIN M = Fields /\ M.pl = L.pl /\ M.gr = L.gr /\ M.mem = L.mem
        /\ M.grp = L.grp /\ M.open = L.open /\ M.away = L.away
    BY <1>1, <1>2 DEF Fields
  <1>9. /\ M.data = L.data /\ M.fresh = L.fresh /\ M.cur = L.cur /\ M.cache = L.cache
        /\ M.chk = L.chk /\ M.last = L.last /\ M.before = L.before
    BY <1>1, <1>2 DEF Fields
  <1>10. Answered(L, M, id, p, a)
    BY <1>6, <1>7, <1>8 DEF Answered
  <1>11. ProposalOK(f)
    BY <1>1, <1>3, <1>5 DEF ProposalOK
  <1>12. ProposalsOK(M)
    BY <1>1, <1>6, <1>8, <1>9, <1>11 DEF ProposalsOK
  <1>13. ASSUME NEW r \in Queues PROVE QueueOK(M, r)
    <2>1. QueueOK(L, r) /\ SameQueue(L, M, r)
      BY <1>9 DEF Good, QueuesOK, SameQueue
    <2>2. QED
      BY <2>1, QueueKept
  <1>14. Good(M)
    <2>1. PlayersOK(M) /\ ChecksOK(M) /\ M.before \in Nat
      BY <1>8, <1>9 DEF Good, PlayersOK, ChecksOK
    <2>2. QueuesOK(M)
      BY <1>9, <1>13 DEF Good, QueuesOK
    <2>3. QED
      BY <1>8, <1>12, <2>1, <2>2 DEF Good
  <1>15. GSame(L, M)
    BY <1>8 DEF GSame
  <1>16. QED
    BY <1>3, <1>5, <1>6, <1>8, <1>9, <1>10, <1>11, <1>14, <1>15

LEMMA DeclineLesser ==
  ASSUME NEW L, Good(L), NEW id \in DOMAIN L.prop, NEW p \in DOMAIN L.prop[id].answer,
         NEW M, M = Decline(L, id, p)
  PROVE  Good(M) /\ Lesser(L, M) /\ DOMAIN M.prop = DOMAIN L.prop \ {id}
  <1> DEFINE N == [L EXCEPT !.prop[id].answer[p] = "deny"]
             no == FALSE
  <1>1. M = RemoveProposal(N, id, no)
    BY DEF Decline
  <1>2. /\ Good(N) /\ Answered(L, N, id, p, "deny") /\ N.prop[id].queue = L.prop[id].queue
        /\ N.prop[id].entries = L.prop[id].entries
        /\ N.data = L.data /\ N.fresh = L.fresh /\ N.cur = L.cur
        /\ N.chk = L.chk /\ N.last = L.last /\ GSame(L, N)
    BY AnswerFields
  <1> HIDE DEF N, no
  <1>3. /\ DOMAIN N.prop = DOMAIN L.prop /\ id \in DOMAIN N.prop
        /\ \A i \in DOMAIN L.prop \ {id} : N.prop[i] = L.prop[i]
    BY <1>2 DEF Answered
  <1>4. Good(M) /\ Lesser(N, M) /\ DOMAIN M.prop = DOMAIN N.prop \ {id}
    BY <1>1, <1>2, <1>3, RemoveProposalLesser
  <1>5. ProposalsLess(L, M)
    BY <1>2, <1>3, <1>4 DEF Lesser, QLess, ProposalsLess
  <1>6. ChecksLess(L, M)
    BY <1>2, <1>4 DEF Lesser, QLess, ChecksLess
  <1>7. GSame(L, M)
    BY <1>2, <1>4 DEF Lesser, GSame
  <1>8. ASSUME NEW q \in Queues PROVE QueueLess(L, M, q)
    <2>1. QueueLess(N, M, q)
      BY <1>4 DEF Lesser, QLess
    <2>2. Listed(N, q) = Listed(L, q) /\ N.data[q] = L.data[q]
      BY <1>2 DEF Listed
    <2>3. \A i \in DOMAIN L.prop : /\ N.prop[i].queue = L.prop[i].queue
                                   /\ N.prop[i].entries = L.prop[i].entries
      BY <1>2, <1>3
    <2>4. \A e : Proposed(N, q, e) => Proposed(L, q, e)
      BY <1>3, <2>3 DEF Proposed
    <2>5. \A i \in DOMAIN L.prop \ DOMAIN M.prop : L.prop[i].queue = q =>
            \A e \in DOMAIN M.data[q] : e \in Range(L.prop[i].entries) => e \in Listed(M, q)
      BY <1>3, <2>1, <2>3 DEF QueueLess
    <2>6. QED
      BY <2>1, <2>2, <2>4, <2>5 DEF QueueLess
  <1>9. QED
    BY <1>3, <1>4, <1>5, <1>6, <1>7, <1>8 DEF Lesser, QLess

(* A change of the role checks alone.                                       *)
ChecksSet(L, M, c) == M = [L EXCEPT !.chk = c]
RoleChecks(c) == DOMAIN c \subseteq Groups /\ \A g \in DOMAIN c : CheckOK(c[g])

LEMMA ChecksChange ==
  ASSUME NEW L, Good(L), NEW M, NEW c, ChecksSet(L, M, c), RoleChecks(c)
  PROVE  /\ Good(M) /\ GSame(L, M) /\ M.chk = c /\ M.last = L.last /\ M.prop = L.prop
         /\ M.data = L.data /\ M.fresh = L.fresh /\ M.cur = L.cur /\ M.away = L.away
         /\ M.mem = L.mem /\ M.grp = L.grp /\ M.pl = L.pl /\ M.gr = L.gr
         /\ ChecksLess(L, M) => Lesser(L, M)
  <1>1. DOMAIN L = Fields
    BY DEF Good
  <1>2. /\ M.chk = c /\ DOMAIN M = Fields /\ M.pl = L.pl /\ M.gr = L.gr /\ M.mem = L.mem
        /\ M.grp = L.grp /\ M.open = L.open /\ M.away = L.away
    BY <1>1 DEF Fields, ChecksSet
  <1>3. /\ M.data = L.data /\ M.fresh = L.fresh /\ M.cur = L.cur /\ M.cache = L.cache
        /\ M.prop = L.prop /\ M.last = L.last /\ M.before = L.before
    BY <1>1 DEF Fields, ChecksSet
  <1>4. ASSUME NEW r \in Queues PROVE QueueOK(M, r) /\ QueueLess(L, M, r)
    <2>1. QueueOK(L, r) /\ SameQueue(L, M, r)
      BY <1>3 DEF Good, QueuesOK, SameQueue
    <2>2. Listed(M, r) = Listed(L, r)
      BY <1>3 DEF Listed
    <2>3. QED
      BY <1>3, <2>1, <2>2, QueueKept DEF QueueLess
  <1>5. Good(M)
    <2>1. PlayersOK(M) /\ ChecksOK(M) /\ M.before \in Nat /\ ProposalsOK(M)
      BY <1>2, <1>3 DEF Good, PlayersOK, ChecksOK, ProposalsOK, RoleChecks
    <2>2. QueuesOK(M)
      BY <1>3, <1>4 DEF Good, QueuesOK
    <2>3. QED
      BY <1>2, <2>1, <2>2 DEF Good
  <1>6. GSame(L, M) /\ ProposalsLess(L, M)
    BY <1>2, <1>3 DEF GSame, ProposalsLess
  <1>7. QED
    BY <1>2, <1>3, <1>4, <1>5, <1>6 DEF Lesser, QLess

LEMMA CheckEnds ==
  ASSUME NEW L, Good(L), NEW g \in Groups, NEW M, ChecksSet(L, M, Drop(L.chk, g))
  PROVE  /\ Good(M) /\ Lesser(L, M) /\ M.prop = L.prop /\ M.data = L.data
         /\ M.fresh = L.fresh /\ M.cur = L.cur /\ M.last = L.last
         /\ DOMAIN M.chk = DOMAIN L.chk \ {g} /\ \A x \in DOMAIN M.chk : M.chk[x] = L.chk[x]
  <1> DEFINE c == Drop(L.chk, g)
  <1>1. DOMAIN c = DOMAIN L.chk \ {g} /\ \A x \in DOMAIN c : c[x] = L.chk[x]
    BY DEF Drop, Restrict
  <1>2. ChecksSet(L, M, c)
    OBVIOUS
  <1> HIDE DEF c
  <1>3. RoleChecks(c)
    BY <1>1 DEF Good, ChecksOK, RoleChecks
  <1>4. /\ Good(M) /\ M.chk = c /\ M.last = L.last /\ M.prop = L.prop
        /\ M.data = L.data /\ M.fresh = L.fresh /\ M.cur = L.cur
        /\ (ChecksLess(L, M) => Lesser(L, M))
    BY <1>2, <1>3, ChecksChange
  <1>5. ChecksLess(L, M)
    BY <1>1, <1>4 DEF ChecksLess
  <1>6. QED
    BY <1>1, <1>4, <1>5

(* UpdateRoleCheck goes on, puts the group into the queue, or undoes.       *)
Waits(L, M, g, p) ==
  /\ DOMAIN M.chk = DOMAIN L.chk /\ \A x \in DOMAIN L.chk \ {g} : M.chk[x] = L.chk[x]
  /\ M.chk[g].queue = L.chk[g].queue /\ M.chk[g].asked = L.chk[g].asked \cup {p}
  /\ M.prop = L.prop /\ M.last = L.last
  /\ M.data = L.data /\ M.fresh = L.fresh /\ M.cur = L.cur
Queued(L, M, g, q, S) ==
  /\ q \in Queues /\ S \subseteq Players /\ M.prop = L.prop /\ M.last = L.last
  /\ ChecksLess(L, M) /\ g \notin DOMAIN M.chk
  /\ \A r \in Queues \ {q} : M.data[r] = L.data[r] /\ Listed(M, r) = Listed(L, r)
  /\ DOMAIN M.data[q] = DOMAIN L.data[q] \cup {g} /\ M.data[q][g] = S
  /\ \A x \in DOMAIN L.data[q] \ {g} : M.data[q][x] = L.data[q][x]
  /\ Listed(M, q) = Listed(L, q) \cup {g}

Asking(L, C, g, p) ==
  /\ DOMAIN C = DOMAIN L.chk /\ \A x \in DOMAIN L.chk \ {g} : C[x] = L.chk[x]
  /\ CheckOK(C[g]) /\ C[g].queue = L.chk[g].queue /\ C[g].asked = L.chk[g].asked \cup {p}

LEMMA RoleCheckWaits ==
  ASSUME NEW L, Good(L), NEW g \in DOMAIN L.chk, NEW p \in Players, NEW C, NEW M,
         Asking(L, C, g, p), ChecksSet(L, M, C)
  PROVE  Good(M) /\ GSame(L, M) /\ Waits(L, M, g, p)
  <1>1. RoleChecks(C)
    BY DEF Good, ChecksOK, RoleChecks, Asking
  <1>2. /\ Good(M) /\ GSame(L, M) /\ M.chk = C /\ M.last = L.last /\ M.prop = L.prop
        /\ M.data = L.data /\ M.fresh = L.fresh /\ M.cur = L.cur
    BY <1>1, ChecksChange
  <1>3. QED
    BY <1>2 DEF Waits, Asking

LEMMA RoleCheckQueued ==
  ASSUME NEW L, Good(L), NEW g \in DOMAIN L.chk, NEW q \in Queues, NEW S \in SUBSET Players,
         NEW M,
         M = AddQueueData(SetGroupState(SetStates([L EXCEPT !.chk = Drop(@, g)], S, q,
                                                  "queued"), g, "queued"), q, g, S)
  PROVE  Good(M) /\ GSame(L, M) /\ Queued(L, M, g, q, S)
  <1> DEFINE A == [L EXCEPT !.chk = Drop(@, g)]
             B == SetStates(A, S, q, "queued")
             C == SetGroupState(B, g, "queued")
  <1>1. g \in Groups /\ g \in Entries /\ g \notin Players
    BY FinderAssumption DEF Good, ChecksOK, Entries
  <1>2. ChecksSet(L, A, Drop(L.chk, g)) /\ M = AddQueueData(C, q, g, S)
    BY DEF ChecksSet
  <1>3. "queued" \in States /\ "queued" \notin Lasting
    BY DEF States, Lasting
  <1> HIDE DEF A
  <1>4. /\ Good(A) /\ Lesser(L, A) /\ A.prop = L.prop /\ A.data = L.data
        /\ A.fresh = L.fresh /\ A.cur = L.cur /\ A.last = L.last
        /\ DOMAIN A.chk = DOMAIN L.chk \ {g}
        /\ \A x \in DOMAIN A.chk : A.chk[x] = L.chk[x]
    BY <1>1, <1>2, CheckEnds
  <1>5. Good(B) /\ OnlyStates(A, B)
    BY <1>4, <1>3, SetStatesOnly, OnlyStatesLesser
  <1> HIDE DEF B
  <1>6. Good(C) /\ OnlyStates(B, C)
    BY <1>1, <1>3, <1>5, SetGroupStateOnly, OnlyStatesLesser
  <1> HIDE DEF C
  <1>7. /\ Good(M) /\ SameButQueue(C, M, q) /\ GSame(C, M)
        /\ DOMAIN M.data[q] = DOMAIN C.data[q] \cup {g} /\ M.data[q][g] = S
        /\ \A x \in DOMAIN C.data[q] \ {g} : M.data[q][x] = C.data[q][x]
        /\ Listed(M, q) = Listed(C, q) \cup {g}
        /\ M.mem = C.mem /\ M.prop = C.prop /\ M.chk = C.chk /\ M.last = C.last
    BY <1>1, <1>2, <1>6, AddQueueDataFields
  <1>8. /\ C.prop = L.prop /\ C.last = L.last /\ C.chk = A.chk /\ C.data = L.data
        /\ C.fresh = L.fresh /\ C.cur = L.cur
    BY <1>4, <1>5, <1>6 DEF OnlyStates
  <1>9. \A r : Listed(C, r) = Listed(L, r)
    BY <1>8 DEF Listed
  <1>10. \A r \in Queues \ {q} : M.data[r] = L.data[r] /\ Listed(M, r) = Listed(L, r)
    BY <1>7, <1>8, <1>9 DEF SameButQueue, SameQueue, Listed
  <1>11. GSame(L, M)
    <2>1. GSame(L, A) /\ GSame(A, B) /\ GSame(B, C)
      BY <1>4, <1>5, <1>6 DEF Lesser, OnlyStates
    <2>2. QED
      BY <1>7, <2>1 DEF GSame
  <1>12. ChecksLess(L, M) /\ g \notin DOMAIN M.chk
    BY <1>4, <1>7, <1>8 DEF ChecksLess
  <1>13. QED
    BY <1>7, <1>8, <1>9, <1>10, <1>11, <1>12 DEF Queued

LEMMA RoleCheckUndone ==
  ASSUME NEW L, Good(L), NEW g \in Groups, NEW q, NEW S, NEW M,
         M = RestoreGroup(RestoreStates([L EXCEPT !.chk = Drop(@, g)], S, q), g)
  PROVE  Good(M) /\ Lesser(L, M) /\ M.prop = L.prop
  <1> DEFINE A == [L EXCEPT !.chk = Drop(@, g)]
             B == RestoreStates(A, S, q)
  <1>2. ChecksSet(L, A, Drop(L.chk, g)) /\ M = RestoreGroup(B, g)
    BY DEF ChecksSet
  <1> HIDE DEF A
  <1>1. Good(A) /\ Lesser(L, A) /\ A.prop = L.prop
    BY <1>2, CheckEnds
  <1>3. OnlyStates(A, B)
    BY <1>1, RestoreStatesOnly
  <1>4. Good(B) /\ Lesser(L, B)
    BY <1>1, <1>3, LesserThenStates
  <1> HIDE DEF B
  <1>5. OnlyStates(B, M)
    BY <1>2, <1>4, RestoreGroupOnly
  <1>6. Good(M) /\ Lesser(L, M)
    BY <1>4, <1>5, LesserThenStates
  <1>7. QED
    BY <1>1, <1>3, <1>5, <1>6 DEF OnlyStates

RoleCheckMoved(L, M, g, p, how) ==
  \/ Lesser(L, M)
  \/ how = "role" /\ GSame(L, M) /\ Waits(L, M, g, p)
  \/ /\ how = "role" /\ GSame(L, M) /\ RolesFit(L.chk[g].asked \cup {p})
     /\ Queued(L, M, g, L.chk[g].queue, L.chk[g].asked \cup {p})

LEMMA RoleCheckUpdated ==
  ASSUME NEW L, Good(L), NEW g \in DOMAIN L.chk, NEW p \in Players, NEW how, NEW M,
         M = UpdateRoleCheck(L, g, p, how)
  PROVE  Good(M) /\ M.prop = L.prop /\ RoleCheckMoved(L, M, g, p, how)
  <1> DEFINE old == L.chk[g]
             c == IF how = "role" THEN [old EXCEPT !.asked = @ \cup {p}, !.given = @ \cup {p}]
                  ELSE old
             c1 == [old EXCEPT !.asked = @ \cup {p}, !.given = @ \cup {p}]
             S == old.asked \cup {p}
             T == IF how = "no_role" THEN c.asked ELSE c.asked \cap L.away
             N1 == [L EXCEPT !.chk[g] = c1]
             N2 == AddQueueData(SetGroupState(SetStates([L EXCEPT !.chk = Drop(@, g)], S,
                                  old.queue, "queued"), g, "queued"), old.queue, g, S)
             N3 == RestoreGroup(RestoreStates([L EXCEPT !.chk = Drop(@, g)], T, old.queue), g)
  <1>1. CheckOK(old) /\ g \in Groups
    BY DEF Good, ChecksOK
  <1>2. c1.asked = S /\ c1.queue = old.queue /\ S \in SUBSET Players /\ old.queue \in Queues
    BY <1>1 DEF CheckOK
  <1>3. c.queue = old.queue
    BY <1>2
  <1>4. \/ M = N1 /\ how = "role"
        \/ M = N2 /\ how = "role" /\ RolesFit(S)
        \/ M = N3
    <2> DEFINE waiting == how = "role" /\ c.given # c.asked
               finished == how = "role" /\ c.given = c.asked /\ RolesFit(c.asked)
               ended == [L EXCEPT !.chk = Drop(@, g)]
    <2>1. M = CASE waiting -> [L EXCEPT !.chk[g] = c]
               [] finished ->
                  AddQueueData(SetGroupState(SetStates(ended, c.asked, c.queue, "queued"),
                                             g, "queued"), c.queue, g, c.asked)
               [] OTHER -> RestoreGroup(RestoreStates(ended, T, c.queue), g)
      BY DEF UpdateRoleCheck
    <2>2. how = "role" => c = c1
      OBVIOUS
    <2> HIDE DEF c, c1, S, T, ended, N1, N2, N3
    <2>3. CASE waiting
      <3>1. M = [L EXCEPT !.chk[g] = c]
        BY <2>1, <2>3
      <3>2. QED
        BY <2>2, <2>3, <3>1 DEF N1
    <2>4. CASE ~waiting /\ finished
      <3>1. M = AddQueueData(SetGroupState(SetStates(ended, c.asked, c.queue, "queued"),
                                             g, "queued"), c.queue, g, c.asked)
        BY <2>1, <2>4
      <3>2. c.asked = S /\ c.queue = old.queue
        BY <1>2, <2>2, <2>4
      <3>3. QED
        BY <2>4, <3>1, <3>2 DEF N2, ended
    <2>5. CASE ~waiting /\ ~finished
      <3>1. M = RestoreGroup(RestoreStates(ended, T, c.queue), g)
        BY <2>1, <2>5
      <3>2. QED
        BY <1>3, <3>1 DEF N3, ended
    <2>6. QED
      BY <2>3, <2>4, <2>5
  <1> HIDE DEF T, c
  <1>5. CASE M = N1 /\ how = "role"
    <2> DEFINE C == [L.chk EXCEPT ![g] = c1]
    <2>2. ChecksSet(L, M, C) /\ Asking(L, C, g, p)
      BY <1>1, <1>2, <1>5 DEF ChecksSet, Asking, CheckOK
    <2> HIDE DEF C
    <2>1. Good(M) /\ GSame(L, M) /\ Waits(L, M, g, p)
      BY <2>2, RoleCheckWaits
    <2>3. QED
      BY <1>5, <2>1 DEF Waits, RoleCheckMoved
  <1>6. CASE M = N2 /\ how = "role" /\ RolesFit(S)
    <2>1. Good(M) /\ GSame(L, M) /\ Queued(L, M, g, old.queue, S)
      BY <1>2, <1>6, RoleCheckQueued
    <2>2. QED
      BY <1>6, <2>1 DEF Queued, RoleCheckMoved
  <1>7. CASE M = N3
    <2>1. Good(M) /\ Lesser(L, M) /\ M.prop = L.prop
      BY <1>1, <1>7, RoleCheckUndone
    <2>2. QED
      BY <2>1 DEF RoleCheckMoved
  <1>8. QED
    BY <1>4, <1>5, <1>6, <1>7
(* A proposal whose time is over.                                           *)
TimedOut(L, id) == RemoveProposal(L, id, TRUE)

LEMMA TimedOutLesser ==
  ASSUME NEW L, Good(L), NEW id \in DOMAIN L.prop, NEW M, M = TimedOut(L, id)
  PROVE  Good(M) /\ Lesser(L, M) /\ DOMAIN M.prop = DOMAIN L.prop \ {id}
  <1> DEFINE yes == TRUE
  <1>1. M = RemoveProposal(L, id, yes)
    BY DEF TimedOut
  <1> HIDE DEF yes
  <1>2. QED
    BY <1>1, RemoveProposalLesser

(* Ended, proposal by proposal.                                            *)
IsEndedUpTo(f, L, E, D) ==
  f = [i \in 0..L.last |-> (IF i = 0 THEN TimeOut(L, E) ELSE IF i \in D THEN TimedOut(f[i - 1], i) ELSE f[i - 1])]
EndedUpTo(L, E, D) == CHOOSE f : IsEndedUpTo(f, L, E, D)

LEMMA EndedUpToExists ==
  ASSUME NEW L, NEW E, NEW D, L.last \in Nat
  PROVE  \E f : IsEndedUpTo(f, L, E, D)
  <1> DEFINE Fills(g, k) == \A i \in 0..k : g[i] = (IF i = 0 THEN TimeOut(L, E) ELSE IF i \in D THEN TimedOut(g[i - 1], i) ELSE g[i - 1])
             G == {k \in Nat : \E g : Fills(g, k)}
  <1>1. 0 \in G
    <2>1. Fills([i \in 0..0 |-> TimeOut(L, E)], 0)
      OBVIOUS
    <2>2. \E g : Fills(g, 0)
      <3> HIDE DEF Fills
      <3> QED
        BY <2>1
    <2> HIDE DEF Fills
    <2>3. QED
      BY <2>2
  <1>2. ASSUME NEW k \in Nat, k \in G PROVE k + 1 \in G
    <2>1. PICK g : Fills(g, k)
      BY <1>2
    <2> DEFINE h == [i \in 0..(k + 1) |-> IF i <= k THEN g[i] ELSE (IF i = 0 THEN TimeOut(L, E) ELSE IF i \in D THEN TimedOut(g[i - 1], i) ELSE g[i - 1])]
    <2>2. ASSUME NEW i \in 0..(k + 1) PROVE h[i] = (IF i = 0 THEN TimeOut(L, E) ELSE IF i \in D THEN TimedOut(h[i - 1], i) ELSE h[i - 1])
      <3>1. i \in Nat /\ h[i] = IF i <= k THEN g[i] ELSE (IF i = 0 THEN TimeOut(L, E) ELSE IF i \in D THEN TimedOut(g[i - 1], i) ELSE g[i - 1])
        OBVIOUS
      <3>2. i <= k => i \in 0..k
        BY <3>1
      <3>3. h[i] = (IF i = 0 THEN TimeOut(L, E) ELSE IF i \in D THEN TimedOut(g[i - 1], i) ELSE g[i - 1])
        BY <2>1, <3>1, <3>2
      <3>4. ~(i = 0) => i - 1 \in 0..(k + 1) /\ i - 1 <= k
        BY <3>1
      <3>5. ~(i = 0) => h[i - 1] = g[i - 1]
        BY <3>4
      <3> HIDE DEF h
      <3>6. QED
        BY <3>3, <3>5
    <2> HIDE DEF h
    <2>3. Fills(h, k + 1)
      BY <2>2
    <2>4. \E g1 : Fills(g1, k + 1)
      <3> HIDE DEF Fills
      <3> QED
        BY <2>3
    <2> HIDE DEF Fills
    <2>5. QED
      BY <2>4
  <1>3. Nat \subseteq G
    <2> HIDE DEF G
    <2> QED
      BY <1>1, <1>2, NumberInduction
  <1>4. PICK g : Fills(g, L.last)
    BY <1>3
  <1> DEFINE h == [i \in 0..L.last |-> g[i]]
  <1>5. ASSUME NEW i \in 0..L.last PROVE h[i] = (IF i = 0 THEN TimeOut(L, E) ELSE IF i \in D THEN TimedOut(h[i - 1], i) ELSE h[i - 1])
    <2>1. h[i] = g[i] /\ (~(i = 0) => i - 1 \in 0..L.last)
      OBVIOUS
    <2>2. ~(i = 0) => h[i - 1] = g[i - 1]
      BY <2>1
    <2>3. g[i] = (IF i = 0 THEN TimeOut(L, E) ELSE IF i \in D THEN TimedOut(g[i - 1], i) ELSE g[i - 1])
      BY <1>4
    <2> HIDE DEF h
    <2>4. QED
      BY <2>1, <2>2, <2>3
  <1>6. h = [i \in 0..L.last |-> h[i]]
    OBVIOUS
  <1> HIDE DEF h
  <1>7. h = [i \in 0..L.last |-> (IF i = 0 THEN TimeOut(L, E) ELSE IF i \in D THEN TimedOut(h[i - 1], i) ELSE h[i - 1])]
    BY <1>5, <1>6
  <1>8. IsEndedUpTo(h, L, E, D)
    BY <1>7 DEF IsEndedUpTo
  <1>9. QED
    BY <1>8

LEMMA EndedUpToSteps ==
  ASSUME NEW L, NEW E, NEW D, L.last \in Nat
  PROVE  /\ Ended(L, E, D) = EndedUpTo(L, E, D)[L.last]
         /\ \A i \in 0..L.last : EndedUpTo(L, E, D)[i] = (IF i = 0 THEN TimeOut(L, E) ELSE IF i \in D THEN TimedOut(EndedUpTo(L, E, D)[i - 1], i) ELSE EndedUpTo(L, E, D)[i - 1])
  <1>1. EndedUpTo(L, E, D) = [i \in 0..L.last |-> (IF i = 0 THEN TimeOut(L, E) ELSE IF i \in D THEN TimedOut(EndedUpTo(L, E, D)[i - 1], i) ELSE EndedUpTo(L, E, D)[i - 1])]
    <2>1. IsEndedUpTo(EndedUpTo(L, E, D), L, E, D)
      BY EndedUpToExists DEF EndedUpTo
    <2>2. QED
      BY <2>1 DEF IsEndedUpTo
  <1>2. Ended(L, E, D) = EndedUpTo(L, E, D)[L.last]
    BY DEF Ended, TimedOut, EndedUpTo, IsEndedUpTo
  <1>3. QED
    BY <1>1, <1>2

LEMMA LeaveLesser ==
  ASSUME NEW L, Good(L), NEW p \in Players, NEW q \in Queues, NEW M, M = LeaveLfg(L, p, q)
  PROVE  Good(M) /\ Lesser(L, M)
  <1> DEFINE d == L.pl[p][q]
             in == {id \in DOMAIN L.prop : p \in DOMAIN L.prop[id].answer}
             A(E) == RemoveEntries(L, q, E)
             B == SetGroupState(A({d.group}), d.group, "none")
             M1 == Forget(SetStates(B, L.gr[d.group].players, q, "none"), p, q)
             M2 == Forget(SetStates(A({p}), {p}, q, "none"), p, q)
  <1>1. d \in PlayerData /\ d.group \in Groups \cup {NoGroup}
    BY DEF Good, PlayersOK, PlayerData
  <1>2. \/ d.group # NoGroup /\ M = M1
        \/ M = M2
        \/ d.group \in DOMAIN L.chk /\ M = UpdateRoleCheck(L, d.group, p, "abort")
        \/ in # {} /\ M = Decline(L, Min(in), p)
        \/ M = L
    <2> HIDE DEF in, M1, M2
    <2>1. M = CASE d.now \in {"queued", "waite"} /\ d.group # NoGroup -> M1
                [] d.now \in {"queued", "waite"} /\ d.group = NoGroup -> M2
                [] d.now = "rolecheck" /\ d.group \in DOMAIN L.chk ->
                      UpdateRoleCheck(L, d.group, p, "abort")
                [] d.now = "proposal" /\ in # {} -> Decline(L, Min(in), p)
                [] d.now \in {"dungeon", "finished"} -> M2
                [] OTHER -> L
      BY DEF LeaveLfg, in, M1, M2
    <2> HIDE DEF d
    <2>2. QED
      BY <2>1
  <1>3. "none" \in States
    BY DEF States
  <1> HIDE DEF d, in
  <1>4. CASE d.group # NoGroup /\ M = M1
    <2> DEFINE R == A({d.group})
               C == SetStates(B, L.gr[d.group].players, q, "none")
    <2>1. Good(R) /\ Lesser(L, R)
      BY RemoveEntriesLesser
    <2>2. d.group \in Groups /\ B = SetGroupState(R, d.group, "none") /\ M = Forget(C, p, q)
      BY <1>1, <1>4
    <2> HIDE DEF A, R, B
    <2>3. OnlyStates(R, B)
      BY <1>3, <2>1, <2>2, SetGroupStateOnly
    <2>4. Good(B) /\ Lesser(L, B)
      BY <2>1, <2>3, LesserThenStates
    <2>5. OnlyStates(B, C)
      BY <1>3, <2>4, SetStatesOnly
    <2> HIDE DEF C
    <2>6. Good(C) /\ Lesser(L, C)
      BY <2>4, <2>5, LesserThenStates
    <2>7. OnlyStates(C, M)
      BY <2>2, <2>6, ForgetOnly
    <2>8. QED
      BY <2>6, <2>7, LesserThenStates
  <1>5. CASE M = M2
    <2> DEFINE R == A({p})
               C == SetStates(R, {p}, q, "none")
    <2>1. Good(R) /\ Lesser(L, R)
      BY RemoveEntriesLesser
    <2>2. M = Forget(C, p, q)
      BY <1>5
    <2> HIDE DEF A, R
    <2>5. OnlyStates(R, C)
      BY <1>3, <2>1, SetStatesOnly
    <2> HIDE DEF C
    <2>6. Good(C) /\ Lesser(L, C)
      BY <2>1, <2>5, LesserThenStates
    <2>7. OnlyStates(C, M)
      BY <2>2, <2>6, ForgetOnly
    <2>8. QED
      BY <2>6, <2>7, LesserThenStates
  <1>6. CASE d.group \in DOMAIN L.chk /\ M = UpdateRoleCheck(L, d.group, p, "abort")
    <2> DEFINE how == "abort"
               g == d.group
    <2>1. g \in DOMAIN L.chk /\ M = UpdateRoleCheck(L, g, p, how) /\ how # "role"
      BY <1>6
    <2> HIDE DEF how, g
    <2>2. Good(M) /\ RoleCheckMoved(L, M, g, p, how)
      BY <2>1, RoleCheckUpdated
    <2>3. QED
      BY <2>1, <2>2 DEF RoleCheckMoved
  <1>7. CASE in # {} /\ M = Decline(L, Min(in), p)
    <2>1. in \subseteq DOMAIN L.prop /\ DOMAIN L.prop \subseteq 1..L.last /\ L.last \in Nat
      BY DEF in, Good, ProposalsOK
    <2>2. in \subseteq Nat
      BY <2>1
    <2>3. Min(in) \in in
      BY <1>7, <2>2, MinOf
    <2> DEFINE id == Min(in)
    <2>4. id \in DOMAIN L.prop /\ p \in DOMAIN L.prop[id].answer /\ M = Decline(L, id, p)
      BY <1>7, <2>3 DEF in
    <2> HIDE DEF id
    <2>5. QED
      BY <2>4, DeclineLesser
  <1>8. CASE M = L
    BY <1>8, LesserItself
  <1>9. QED
    BY <1>2, <1>4, <1>5, <1>6, <1>7, <1>8

(* What Update ends *)
LEMMA TimeOutLesser ==
  ASSUME NEW L, Good(L), NEW E, NEW M, M = TimeOut(L, E)
  PROVE  Good(M) /\ Lesser(L, M) /\ DOMAIN M.prop = DOMAIN L.prop
  <1> DEFINE f == [p \in Players |-> [q \in Queues |->
                    IF \E g \in E : p \in L.chk[g].asked /\ q = L.chk[g].queue
                    THEN Restored(L.pl[p][q]) ELSE L.pl[p][q]]]
             h == [g \in Groups |-> IF g \in E THEN Restored(L.gr[g]) ELSE L.gr[g]]
             c == Restrict(L.chk, DOMAIN L.chk \ E)
             A == [L EXCEPT !.pl = f]
             B == [A EXCEPT !.gr = h]
  <1>1. M = [L EXCEPT !.pl = f, !.gr = h, !.chk = c]
    BY DEF TimeOut
  <1>2. f \in [Players -> [Queues -> PlayerData]]
        /\ \A p \in Players : \A q \in Queues : f[p][q].group = L.pl[p][q].group
    <2>1. ASSUME NEW p \in Players, NEW q \in Queues
          PROVE  f[p][q] \in PlayerData /\ f[p][q].group = L.pl[p][q].group
      <3>1. L.pl[p][q] \in PlayerData
        BY DEF Good, PlayersOK
      <3>2. Restored(L.pl[p][q]) \in PlayerData
            /\ Restored(L.pl[p][q]).group = L.pl[p][q].group
        BY <3>1, RestoredPlayer
      <3>3. f[p][q] = Restored(L.pl[p][q]) \/ f[p][q] = L.pl[p][q]
        OBVIOUS
      <3> HIDE DEF f
      <3>4. QED
        BY <3>1, <3>2, <3>3
    <2>2. \A p \in Players : f[p] = [q \in Queues |-> f[p][q]]
      OBVIOUS
    <2>3. f = [p \in Players |-> f[p]]
      OBVIOUS
    <2> HIDE DEF f
    <2>4. \A p \in Players : f[p] \in [Queues -> PlayerData]
      BY <2>1, <2>2
    <2>5. QED
      BY <2>1, <2>3, <2>4
  <1>3. /\ h \in [Groups -> GroupData]
        /\ \A g \in Groups : h[g].players = L.gr[g].players /\ h[g].queue = L.gr[g].queue
        /\ L.gr[Party].old = "none" => h[Party].old = "none"
    <2>1. ASSUME NEW g \in Groups
          PROVE  /\ h[g] \in GroupData /\ h[g].players = L.gr[g].players
                 /\ h[g].queue = L.gr[g].queue /\ h[g].old = L.gr[g].old
      <3>1. L.gr[g] \in GroupData
        BY DEF Good, PlayersOK
      <3>2. /\ Restored(L.gr[g]) \in GroupData /\ Restored(L.gr[g]).players = L.gr[g].players
            /\ Restored(L.gr[g]).queue = L.gr[g].queue /\ Restored(L.gr[g]).old = L.gr[g].old
        BY <3>1, RestoredGroup
      <3>3. h[g] = Restored(L.gr[g]) \/ h[g] = L.gr[g]
        OBVIOUS
      <3> HIDE DEF h
      <3>4. QED
        BY <3>1, <3>2, <3>3
    <2>2. h = [g \in Groups |-> h[g]]
      OBVIOUS
    <2> HIDE DEF h
    <2>3. Party \in Groups
      BY DEF Groups
    <2>4. QED
      BY <2>1, <2>2, <2>3
  <1>4. DOMAIN c = DOMAIN L.chk \ E /\ \A g \in DOMAIN c : c[g] = L.chk[g]
    BY DEF Restrict
  <1> HIDE DEF f, h, c
  <1>5. DOMAIN L = Fields
    BY DEF Good
  <1>6. ChecksSet(B, M, c)
    BY <1>1, <1>5 DEF ChecksSet, Fields
  <1>7. OnlyStates(L, A) /\ A.gr = L.gr
    BY <1>2, PlayersChange
  <1>8. Good(A) /\ Lesser(L, A)
    BY <1>7, OnlyStatesLesser
  <1> HIDE DEF A
  <1>9. OnlyStates(A, B)
    BY <1>3, <1>7, <1>8, GroupsChange
  <1>10. Good(B) /\ Lesser(L, B)
    BY <1>8, <1>9, LesserThenStates
  <1> HIDE DEF B
  <1>11. B.chk = L.chk /\ B.prop = L.prop
    BY <1>7, <1>9 DEF OnlyStates
  <1>12. RoleChecks(c)
    BY <1>4 DEF Good, ChecksOK, RoleChecks
  <1>13. Good(M) /\ M.chk = c /\ M.prop = B.prop /\ (ChecksLess(B, M) => Lesser(B, M))
    BY <1>6, <1>10, <1>12, ChecksChange
  <1>14. Lesser(B, M)
    BY <1>4, <1>11, <1>13 DEF ChecksLess
  <1>15. QED
    BY <1>10, <1>11, <1>13, <1>14, LesserTransitive

LEMMA EndedLesser ==
  ASSUME NEW L, Good(L), NEW E, NEW D, D \subseteq DOMAIN L.prop, NEW M, M = Ended(L, E, D)
  PROVE  Good(M) /\ Lesser(L, M)
  <1> DEFINE c == EndedUpTo(L, E, D)
             H(i) == /\ Good(c[i]) /\ Lesser(L, c[i])
                     /\ \A j \in DOMAIN L.prop : j > i => j \in DOMAIN c[i].prop
             G == {i \in Nat : i \in 0..L.last => H(i)}
  <1>1. L.last \in Nat /\ DOMAIN L.prop \subseteq 1..L.last
    BY DEF Good, ProposalsOK
  <1>2. /\ M = c[L.last]
        /\ \A i \in 0..L.last : c[i] = (IF i = 0 THEN TimeOut(L, E)
              ELSE IF i \in D THEN TimedOut(c[i - 1], i) ELSE c[i - 1])
    BY <1>1, EndedUpToSteps
  <1> HIDE DEF c
  <1>3. H(0)
    <2>1. c[0] = TimeOut(L, E)
      BY <1>1, <1>2
    <2>2. Good(c[0]) /\ Lesser(L, c[0]) /\ DOMAIN c[0].prop = DOMAIN L.prop
      BY <2>1, TimeOutLesser
    <2>3. QED
      BY <2>2
  <1>4. ASSUME NEW i \in Nat, i + 1 \in 0..L.last, H(i) PROVE H(i + 1)
    <2> DEFINE k == i + 1
    <2>1. /\ k - 1 = i /\ k # 0
          /\ c[k] = IF k \in D THEN TimedOut(c[k - 1], k) ELSE c[k - 1]
      BY <1>2, <1>4
    <2>2. CASE k \in D
      <3>1. k \in DOMAIN c[i].prop
        BY <1>4, <2>2
      <3>2. c[k] = TimedOut(c[i], k)
        BY <2>1, <2>2
      <3>3. /\ Good(c[k]) /\ Lesser(c[i], c[k])
            /\ DOMAIN c[k].prop = DOMAIN c[i].prop \ {k}
        BY <1>4, <3>1, <3>2, TimedOutLesser
      <3>4. Lesser(L, c[k])
        BY <1>4, <3>3, LesserTransitive
      <3>5. \A j \in DOMAIN L.prop : j > k => j \in DOMAIN c[k].prop
        BY <1>1, <1>4, <3>3
      <3>6. QED
        BY <3>3, <3>4, <3>5
    <2>3. CASE k \notin D
      <3>1. c[k] = c[i]
        BY <2>1, <2>3
      <3>2. \A j \in DOMAIN L.prop : j > k => j > i
        BY <1>1
      <3>3. QED
        BY <1>4, <3>1, <3>2
    <2>4. QED
      BY <2>2, <2>3
  <1>5. Nat \subseteq G
    <2>1. 0 \in G
      BY <1>3
    <2>2. \A i \in Nat : i \in G => i + 1 \in G
      <3>1. ASSUME NEW i \in Nat, i \in G PROVE i + 1 \in G
        <4>1. i + 1 \in 0..L.last => i \in 0..L.last
          BY <1>1
        <4> HIDE DEF H
        <4>2. QED
          BY <1>4, <3>1, <4>1
      <3>2. QED
        BY <3>1
    <2> HIDE DEF G
    <2>3. QED
      BY <2>1, <2>2, NumberInduction
  <1>6. H(L.last)
    <2> HIDE DEF H
    <2>1. QED
      BY <1>1, <1>5
  <1>7. QED
    BY <1>2, <1>6
-----------------------------------------------------------------------------
(* Groups *)

(* What LFGMgr knows of the dungeon groups is what they are; a party has no *)
(* data; a player's data names its group in the group's queue at most.      *)
PartyIdle(L) ==
  L.gr[Party].old = "none" /\ L.gr[Party].players = {} /\ L.gr[Party].queue = NoQueue
GroupKnown(L, g) ==
  /\ L.gr[g].players = Members(L, g)
  /\ Members(L, g) # {} => L.gr[g].queue \in Queues
NamesKnown(L) ==
  \A p \in Players : \A q \in Queues : L.pl[p][q].group # NoGroup =>
    /\ L.pl[p][q].group = L.grp[p] /\ L.grp[p] \in LfgGroups
    /\ q = L.gr[L.grp[p]].queue
Known(L) ==
  PartyIdle(L) /\ NamesKnown(L) /\ \A g \in LfgGroups : GroupKnown(L, g)

(* A group to come is nowhere, and has no members but while it is made.     *)
Unlisted(L, g) ==
  /\ g \notin DOMAIN L.chk
  /\ \A q \in Queues : g \notin DOMAIN L.data[q]
  /\ \A i \in DOMAIN L.prop : g \notin Range(L.prop[i].entries)
NewGroups(L, x) ==
  \A g \in LfgGroups :
    /\ g > L.last \/ g \in DOMAIN L.prop => Unlisted(L, g)
    /\ g > L.last \/ g \in DOMAIN L.prop \ {x} => Members(L, g) = {}

(* Nobody comes into a group.                                               *)
Shrunk(L, M) == \A p \in Players : M.grp[p] \in {L.grp[p], NoGroup}

LEMMA GroupNames ==
  /\ Party \in Groups /\ LfgGroups \subseteq Groups /\ Party \notin LfgGroups
  /\ NoGroup \notin Groups /\ NoQueue \notin Queues /\ Groups \cap Players = {}
  BY FinderAssumption DEF Groups

LEMMA ShrunkMembers ==
  ASSUME NEW L, NEW M, Shrunk(L, M), NEW g \in Groups
  PROVE  Members(M, g) \subseteq Members(L, g)
  BY GroupNames DEF Shrunk, Members

LEMMA SameKnown ==
  ASSUME NEW L, NEW M, GSame(L, M), Known(L)
  PROVE  Known(M) /\ Shrunk(L, M) /\ \A g \in Groups : Members(M, g) = Members(L, g)
  <1>1. \A g \in Groups : Members(M, g) = Members(L, g)
    BY DEF Members, GSame
  <1>2. PartyIdle(M)
    BY GroupNames DEF Known, PartyIdle, GSame
  <1>3. NamesKnown(M)
    BY GroupNames DEF Known, NamesKnown, GSame
  <1>4. \A g \in LfgGroups : GroupKnown(M, g)
    BY <1>1, GroupNames DEF Known, GroupKnown, GSame
  <1>5. Shrunk(L, M)
    BY DEF Shrunk, GSame
  <1>6. QED
    BY <1>1, <1>2, <1>3, <1>4, <1>5 DEF Known

LEMMA LessUnlisted ==
  ASSUME NEW L, NEW M, QLess(L, M), NEW g, Unlisted(L, g)
  PROVE  Unlisted(M, g)
  <1>1. g \notin DOMAIN M.chk
    BY DEF Unlisted, QLess, ChecksLess
  <1>2. \A q \in Queues : g \notin DOMAIN M.data[q]
    BY DEF Unlisted, QLess, QueueLess
  <1>3. \A i \in DOMAIN M.prop : g \notin Range(M.prop[i].entries)
    BY DEF Unlisted, QLess, ProposalsLess
  <1>4. QED
    BY <1>1, <1>2, <1>3 DEF Unlisted

LEMMA LessNewGroups ==
  ASSUME NEW L, NEW M, QLess(L, M), Shrunk(L, M), NEW x, NewGroups(L, x)
  PROVE  NewGroups(M, x)
  <1>1. M.last = L.last /\ DOMAIN M.prop \subseteq DOMAIN L.prop
    BY DEF QLess, ProposalsLess
  <1>2. ASSUME NEW g \in LfgGroups, g > M.last \/ g \in DOMAIN M.prop PROVE Unlisted(M, g)
    <2>1. Unlisted(L, g)
      BY <1>1, <1>2 DEF NewGroups
    <2>2. QED
      BY <2>1, LessUnlisted
  <1>3. ASSUME NEW g \in LfgGroups, g > M.last \/ g \in DOMAIN M.prop \ {x}
        PROVE  Members(M, g) = {}
    <2>1. Members(L, g) = {}
      BY <1>1, <1>3 DEF NewGroups
    <2>2. g \in Groups
      BY GroupNames
    <2>3. QED
      BY <2>1, <2>2, ShrunkMembers
  <1>4. QED
    BY <1>2, <1>3 DEF NewGroups

LEMMA ShrunkTransitive ==
  ASSUME NEW L, NEW M, NEW N, Shrunk(L, M), Shrunk(M, N)
  PROVE  Shrunk(L, N)
  BY DEF Shrunk

(* Only the players' data, groups and the groups' data differ.              *)
GroupsOnly(L, M) ==
  /\ DOMAIN M = Fields /\ M.before = L.before /\ PlayersOK(M)
  /\ M.data = L.data /\ M.fresh = L.fresh /\ M.cur = L.cur /\ M.cache = L.cache
  /\ M.prop = L.prop /\ M.chk = L.chk /\ M.last = L.last

LEMMA GroupsOnlyGood ==
  ASSUME NEW L, NEW M, Good(L), GroupsOnly(L, M)
  PROVE  Good(M) /\ QLess(L, M)
  <1>1. QLess(L, M)
    BY QLessItself DEF GroupsOnly
  <1>2. ASSUME NEW q \in Queues PROVE QueueOK(M, q)
    BY DEF Good, QueuesOK, QueueOK, GroupsOnly, Listed
  <1>3. QueuesOK(M)
    BY <1>2 DEF Good, QueuesOK, GroupsOnly
  <1>4. ProposalsOK(M) /\ ChecksOK(M)
    BY DEF Good, ProposalsOK, ChecksOK, GroupsOnly
  <1>5. QED
    BY <1>1, <1>3, <1>4 DEF Good, GroupsOnly

(* Nothing differs but the players' data, their groups and the groups' data. *)
ElsewhereSame(L, M) ==
  /\ DOMAIN M = Fields /\ M.mem = L.mem /\ M.open = L.open /\ M.away = L.away
  /\ M.before = L.before /\ M.data = L.data /\ M.fresh = L.fresh /\ M.cur = L.cur
  /\ M.cache = L.cache /\ M.prop = L.prop /\ M.chk = L.chk /\ M.last = L.last

LEMMA GroupsSetOnly ==
  ASSUME NEW L, NEW M, Good(L), ElsewhereSame(L, M),
         M.pl \in [Players -> [Queues -> PlayerData]], M.gr \in [Groups -> GroupData],
         M.grp \in [Players -> Groups \cup {NoGroup}]
  PROVE  Good(M) /\ QLess(L, M)
  <1>1. PlayersOK(M)
    BY DEF Good, PlayersOK, ElsewhereSame
  <1>2. GroupsOnly(L, M)
    BY <1>1 DEF GroupsOnly, ElsewhereSame
  <1>3. QED
    BY <1>2, GroupsOnlyGood

(* Group::Disband puts everybody out, also a member its data does not list. *)
DisbandReady(L, g) ==
  /\ PartyIdle(L) /\ NamesKnown(L)
  /\ \A h \in LfgGroups \ {g} : GroupKnown(L, h)
  /\ \A p \in Players : L.grp[p] = g /\ p \notin L.gr[g].players =>
        \A q \in Queues : L.pl[p][q].group = NoGroup

LEMMA DisbandKnown ==
  ASSUME NEW L, Good(L), NEW g \in Groups, DisbandReady(L, g), NEW M, M = Disband(L, g)
  PROVE  /\ Good(M) /\ QLess(L, M) /\ Known(M) /\ M.prop = L.prop
         /\ \A p \in Players : M.grp[p] = IF L.grp[p] = g THEN NoGroup ELSE L.grp[p]
  <1> DEFINE d == L.gr[g]
             f == [p \in Players |->
                    IF p \in d.players THEN [L.pl[p] EXCEPT ![d.queue].group = NoGroup]
                    ELSE L.pl[p]]
             A == [L EXCEPT !.pl = f]
             B == IF d.now = "proposal" THEN A
                  ELSE SetStates(A, d.players, d.queue, "none")
             h == [L.gr EXCEPT ![g] = NoGroupData]
             k == [p \in Players |-> IF L.grp[p] = g THEN NoGroup ELSE L.grp[p]]
  <1>1. /\ DOMAIN L = Fields /\ L.pl \in [Players -> [Queues -> PlayerData]]
        /\ L.gr \in [Groups -> GroupData] /\ L.grp \in [Players -> Groups \cup {NoGroup}]
    BY DEF Good, PlayersOK
  <1>2. d \in GroupData /\ d.players \subseteq Players
    BY <1>1 DEF GroupData
  <1>3. ASSUME NEW p \in Players
        PROVE  /\ f[p] \in [Queues -> PlayerData]
               /\ \A q \in Queues : f[p][q].group =
                     IF p \in d.players /\ q = d.queue THEN NoGroup ELSE L.pl[p][q].group
    <2>1. L.pl[p] \in [Queues -> PlayerData]
      BY <1>1
    <2>2. CASE p \in d.players /\ d.queue \in Queues
      <3>1. L.pl[p][d.queue] \in PlayerData
        BY <2>1, <2>2
      <3> DEFINE e == [L.pl[p][d.queue] EXCEPT !.group = NoGroup]
      <3>2. e \in PlayerData /\ e.group = NoGroup
        BY <3>1 DEF PlayerData
      <3>3. f[p] = [L.pl[p] EXCEPT ![d.queue] = e]
        BY <2>2
      <3> HIDE DEF e, f, d
      <3>4. QED
        BY <2>1, <2>2, <3>2, <3>3
    <2>3. CASE ~(p \in d.players /\ d.queue \in Queues)
      <3>1. f[p] = L.pl[p]
        BY <2>1, <2>3
      <3> HIDE DEF f, d
      <3>2. QED
        BY <2>1, <2>3, <3>1
    <2>4. QED
      BY <2>2, <2>3
  <1>4. f = [p \in Players |-> f[p]]
    OBVIOUS
  <1>5. M = [B EXCEPT !.gr[g] = NoGroupData,
                     !.grp = [p \in Players |-> IF @[p] = g THEN NoGroup ELSE @[p]]]
    BY DEF Disband
  <1> HIDE DEF f, d
  <1>6. f \in [Players -> [Queues -> PlayerData]]
    BY <1>3, <1>4
  <1>7. /\ A.pl = f /\ A.gr = L.gr /\ A.grp = L.grp /\ ElsewhereSame(L, A)
    <2>1. /\ A.pl = f /\ A.gr = L.gr /\ A.grp = L.grp /\ DOMAIN A = Fields
          /\ A.mem = L.mem /\ A.open = L.open /\ A.away = L.away
      BY <1>1 DEF Fields
    <2>2. /\ A.before = L.before /\ A.data = L.data /\ A.fresh = L.fresh /\ A.cur = L.cur
          /\ A.cache = L.cache /\ A.prop = L.prop /\ A.chk = L.chk /\ A.last = L.last
      BY <1>1 DEF Fields
    <2>3. QED
      BY <2>1, <2>2 DEF ElsewhereSame
  <1>8. Good(A) /\ QLess(L, A)
    <2> HIDE DEF A
    <2>1. QED
      BY <1>1, <1>6, <1>7, GroupsSetOnly
  <1> HIDE DEF A
  <1>9. /\ Good(B) /\ OnlyStates(A, B) /\ B.gr = A.gr /\ QLess(A, B)
    <2>1. "none" \in States
      BY DEF States
    <2> DEFINE C == SetStates(A, d.players, d.queue, "none")
    <2>2. Good(C) /\ OnlyStates(A, C) /\ C.gr = A.gr /\ QLess(A, C)
      BY <1>8, <2>1, SetStatesOnly, OnlyStatesLesser DEF Lesser
    <2>3. OnlyStates(A, A) /\ QLess(A, A)
      BY <1>8, LesserItself DEF OnlyStates, Good, Lesser
    <2>4. B = C \/ B = A
      OBVIOUS
    <2> HIDE DEF B, C
    <2>5. QED
      BY <1>8, <2>2, <2>3, <2>4
  <1> HIDE DEF B
  <1>10. B.gr = L.gr /\ B.grp = L.grp /\ B.pl \in [Players -> [Queues -> PlayerData]]
         /\ \A p \in Players : \A q \in Queues : B.pl[p][q].group =
                     IF p \in d.players /\ q = d.queue THEN NoGroup ELSE L.pl[p][q].group
    <2>1. GSame(A, B) /\ PlayersOK(B)
      BY <1>9 DEF OnlyStates
    <2>2. QED
      BY <1>3, <1>7, <1>9, <2>1 DEF GSame, PlayersOK
  <1>11. DOMAIN B = Fields
    BY <1>9 DEF OnlyStates
  <1>12. M = [B EXCEPT !.gr = h, !.grp = k]
    BY <1>5, <1>10
  <1>13. /\ h \in [Groups -> GroupData] /\ h[g] = NoGroupData
         /\ \A x \in Groups \ {g} : h[x] = L.gr[x]
    <2>1. NoGroupData \in GroupData
      BY DEF NoGroupData, GroupData, States
    <2>2. QED
      BY <1>1, <2>1
  <1>14. k \in [Players -> Groups \cup {NoGroup}]
         /\ \A p \in Players : k[p] = IF L.grp[p] = g THEN NoGroup ELSE L.grp[p]
    BY <1>1
  <1> HIDE DEF h, k
  <1>15. /\ M.pl = B.pl /\ M.gr = h /\ M.grp = k /\ ElsewhereSame(B, M)
    <2>1. /\ M.pl = B.pl /\ M.gr = h /\ M.grp = k /\ DOMAIN M = Fields
          /\ M.mem = B.mem /\ M.open = B.open /\ M.away = B.away
      BY <1>11, <1>12 DEF Fields
    <2>2. /\ M.before = B.before /\ M.data = B.data /\ M.fresh = B.fresh /\ M.cur = B.cur
          /\ M.cache = B.cache /\ M.prop = B.prop /\ M.chk = B.chk /\ M.last = B.last
      BY <1>11, <1>12 DEF Fields
    <2>3. QED
      BY <2>1, <2>2 DEF ElsewhereSame
  <1>16. Good(M) /\ QLess(B, M)
    BY <1>9, <1>10, <1>13, <1>14, <1>15, GroupsSetOnly
  <1>17. QLess(L, M) /\ M.prop = L.prop
    <2>1. M.prop = L.prop
      BY <1>7, <1>9, <1>15 DEF ElsewhereSame, OnlyStates
    <2>2. QED
      BY <1>8, <1>9, <1>16, <2>1, QLessTransitive
  <1>18. PartyIdle(M)
    BY <1>13, <1>15, GroupNames DEF PartyIdle, NoGroupData, DisbandReady
  <1>19. ASSUME NEW x \in LfgGroups PROVE GroupKnown(M, x)
    <2>1. CASE x = g
      <3>1. Members(M, x) = {}
        BY <1>14, <1>15, <2>1, GroupNames DEF Members
      <3>2. QED
        BY <1>13, <1>15, <2>1, <3>1 DEF GroupKnown, NoGroupData
    <2>2. CASE x # g
      <3>1. Members(M, x) = Members(L, x)
        BY <1>14, <1>15, <2>2, GroupNames DEF Members
      <3>2. QED
        BY <1>13, <1>15, <2>2, <3>1, GroupNames DEF GroupKnown, DisbandReady
    <2>3. QED
      BY <2>1, <2>2
  <1>20. NamesKnown(M)
    <2> SUFFICES ASSUME NEW p \in Players, NEW q \in Queues, M.pl[p][q].group # NoGroup
                 PROVE  /\ M.pl[p][q].group = M.grp[p] /\ M.grp[p] \in LfgGroups
                        /\ q = M.gr[M.grp[p]].queue
      BY DEF NamesKnown
    <2>1. ~(p \in d.players /\ q = d.queue) /\ M.pl[p][q].group = L.pl[p][q].group
      BY <1>10, <1>15
    <2>2. /\ L.pl[p][q].group # NoGroup /\ L.pl[p][q].group = L.grp[p]
          /\ L.grp[p] \in LfgGroups /\ q = L.gr[L.grp[p]].queue
      BY <2>1 DEF DisbandReady, NamesKnown
    <2>3. L.grp[p] # g
      BY <2>1, <2>2 DEF DisbandReady, d
    <2>4. M.grp[p] = L.grp[p]
      BY <1>14, <1>15, <2>3
    <2>5. M.gr[M.grp[p]] = L.gr[L.grp[p]]
      BY <1>13, <1>15, <2>2, <2>3, <2>4, GroupNames
    <2>6. QED
      BY <2>1, <2>2, <2>4, <2>5
  <1>21. QED
    BY <1>14, <1>15, <1>16, <1>17, <1>18, <1>19, <1>20 DEF Known

LEMMA KnownReady ==
  ASSUME NEW L, Known(L), NEW g \in Groups
  PROVE  DisbandReady(L, g)
  <1>1. ASSUME NEW p \in Players, L.grp[p] = g, p \notin L.gr[g].players,
               NEW q \in Queues, L.pl[p][q].group # NoGroup
        PROVE  FALSE
    <2>1. g \in LfgGroups
      BY <1>1 DEF Known, NamesKnown
    <2>2. p \in L.gr[g].players
      BY <1>1, <2>1 DEF Known, GroupKnown, Members
    <2>3. QED
      BY <1>1, <2>2
  <1>2. QED
    BY <1>1 DEF Known, DisbandReady

(* A member is taken out of the group's data, and then out of the group.    *)
DataCut(L, M, p, g, q) ==
  M = [L EXCEPT !.pl[p][q].group = NoGroup, !.gr[g].players = @ \ {p}]
GroupCut(L, M, p) == M = [L EXCEPT !.grp[p] = NoGroup]

LEMMA DataCutKnown ==
  ASSUME NEW L, Good(L), Known(L), NEW p \in Players, NEW g \in LfgGroups, L.grp[p] = g,
         NEW q \in Queues, q = L.gr[g].queue, NEW M, DataCut(L, M, p, g, q)
  PROVE  /\ Good(M) /\ QLess(L, M) /\ M.grp = L.grp /\ PartyIdle(M) /\ NamesKnown(M)
         /\ \A h \in LfgGroups \ {g} : GroupKnown(M, h)
         /\ M.gr[g].players = Members(L, g) \ {p} /\ M.gr[g].queue = q
         /\ \A r \in Queues : M.pl[p][r].group = NoGroup
  <1> DEFINE e == [L.pl[p][q] EXCEPT !.group = NoGroup]
             f == [L.pl EXCEPT ![p] = [L.pl[p] EXCEPT ![q] = e]]
             d == [L.gr[g] EXCEPT !.players = @ \ {p}]
             h == [L.gr EXCEPT ![g] = d]
  <1>1. /\ DOMAIN L = Fields /\ L.pl \in [Players -> [Queues -> PlayerData]]
        /\ L.gr \in [Groups -> GroupData] /\ L.grp \in [Players -> Groups \cup {NoGroup}]
    BY DEF Good, PlayersOK
  <1>2. M = [L EXCEPT !.pl = f, !.gr = h]
    BY <1>1 DEF DataCut, Fields
  <1>3. e \in PlayerData /\ e.group = NoGroup
    <2>1. L.pl[p][q] \in PlayerData
      BY <1>1
    <2>2. QED
      BY <2>1 DEF PlayerData
  <1>4. d \in GroupData /\ d.players = L.gr[g].players \ {p} /\ d.queue = q
    <2>1. L.gr[g] \in GroupData
      BY <1>1, GroupNames
    <2>2. QED
      BY <2>1 DEF GroupData
  <1> HIDE DEF e, d
  <1>5. /\ f \in [Players -> [Queues -> PlayerData]] /\ f[p][q].group = NoGroup
        /\ \A r \in Queues \ {q} : f[p][r] = L.pl[p][r]
        /\ \A x \in Players \ {p} : f[x] = L.pl[x]
    BY <1>1, <1>3
  <1>6. h \in [Groups -> GroupData] /\ h[g] = d /\ \A x \in Groups \ {g} : h[x] = L.gr[x]
    BY <1>1, <1>4, GroupNames
  <1> HIDE DEF f, h
  <1>7. /\ M.pl = f /\ M.gr = h /\ M.grp = L.grp /\ ElsewhereSame(L, M)
    <2>1. /\ M.pl = f /\ M.gr = h /\ M.grp = L.grp /\ DOMAIN M = Fields
          /\ M.mem = L.mem /\ M.open = L.open /\ M.away = L.away
      BY <1>1, <1>2 DEF Fields
    <2>2. /\ M.before = L.before /\ M.data = L.data /\ M.fresh = L.fresh /\ M.cur = L.cur
          /\ M.cache = L.cache /\ M.prop = L.prop /\ M.chk = L.chk /\ M.last = L.last
      BY <1>1, <1>2 DEF Fields
    <2>3. QED
      BY <2>1, <2>2 DEF ElsewhereSame
  <1>8. Good(M) /\ QLess(L, M)
    BY <1>1, <1>5, <1>6, <1>7, GroupsSetOnly
  <1>9. PartyIdle(M)
    BY <1>6, <1>7, GroupNames DEF Known, PartyIdle
  <1>10. ASSUME NEW x \in LfgGroups \ {g} PROVE GroupKnown(M, x)
    <2>1. Members(M, x) = Members(L, x)
      BY <1>7 DEF Members
    <2>2. M.gr[x] = L.gr[x]
      BY <1>6, <1>7, GroupNames
    <2>3. QED
      BY <2>1, <2>2 DEF Known, GroupKnown
  <1>11. M.gr[g].players = Members(L, g) \ {p} /\ M.gr[g].queue = q
    BY <1>4, <1>6, <1>7 DEF Known, GroupKnown
  <1>12. \A r \in Queues : M.pl[p][r].group = NoGroup
    <2>1. ASSUME NEW r \in Queues, r # q PROVE L.pl[p][r].group = NoGroup
      BY <2>1 DEF Known, NamesKnown
    <2>2. QED
      BY <1>5, <1>7, <2>1
  <1>13. NamesKnown(M)
    <2> SUFFICES ASSUME NEW x \in Players, NEW r \in Queues, M.pl[x][r].group # NoGroup
                 PROVE  /\ M.pl[x][r].group = M.grp[x] /\ M.grp[x] \in LfgGroups
                        /\ r = M.gr[M.grp[x]].queue
      BY DEF NamesKnown
    <2>1. x # p /\ M.pl[x][r] = L.pl[x][r]
      BY <1>5, <1>7, <1>12
    <2>2. /\ L.pl[x][r].group = L.grp[x] /\ L.grp[x] \in LfgGroups
          /\ r = L.gr[L.grp[x]].queue
      BY <2>1 DEF Known, NamesKnown
    <2>3. M.gr[L.grp[x]].queue = L.gr[L.grp[x]].queue
      BY <1>4, <1>6, <1>7, <2>2, GroupNames
    <2>4. QED
      BY <1>7, <2>1, <2>2, <2>3
  <1>14. QED
    BY <1>7, <1>8, <1>9, <1>10, <1>11, <1>12, <1>13

LEMMA GroupCutKnown ==
  ASSUME NEW L, Good(L), PartyIdle(L), NamesKnown(L), NEW p \in Players, NEW g \in Groups,
         L.grp[p] = g, \A h \in LfgGroups \ {g} : GroupKnown(L, h),
         g \in LfgGroups => /\ L.gr[g].players = Members(L, g) \ {p}
                            /\ L.gr[g].queue \in Queues,
         \A r \in Queues : L.pl[p][r].group = NoGroup,
         NEW M, GroupCut(L, M, p)
  PROVE  /\ Good(M) /\ QLess(L, M) /\ Known(M) /\ M.grp[p] = NoGroup
         /\ \A x \in Players \ {p} : M.grp[x] = L.grp[x]
  <1> DEFINE k == [L.grp EXCEPT ![p] = NoGroup]
  <1>1. /\ DOMAIN L = Fields /\ L.pl \in [Players -> [Queues -> PlayerData]]
        /\ L.gr \in [Groups -> GroupData] /\ L.grp \in [Players -> Groups \cup {NoGroup}]
    BY DEF Good, PlayersOK
  <1>2. M = [L EXCEPT !.grp = k]
    BY <1>1 DEF GroupCut, Fields
  <1>3. /\ k \in [Players -> Groups \cup {NoGroup}] /\ k[p] = NoGroup
        /\ \A x \in Players \ {p} : k[x] = L.grp[x]
    BY <1>1
  <1> HIDE DEF k
  <1>4. /\ M.pl = L.pl /\ M.gr = L.gr /\ M.grp = k /\ ElsewhereSame(L, M)
    <2>1. /\ M.pl = L.pl /\ M.gr = L.gr /\ M.grp = k /\ DOMAIN M = Fields
          /\ M.mem = L.mem /\ M.open = L.open /\ M.away = L.away
      BY <1>1, <1>2 DEF Fields
    <2>2. /\ M.before = L.before /\ M.data = L.data /\ M.fresh = L.fresh /\ M.cur = L.cur
          /\ M.cache = L.cache /\ M.prop = L.prop /\ M.chk = L.chk /\ M.last = L.last
      BY <1>1, <1>2 DEF Fields
    <2>3. QED
      BY <2>1, <2>2 DEF ElsewhereSame
  <1>5. Good(M) /\ QLess(L, M)
    BY <1>1, <1>3, <1>4, GroupsSetOnly
  <1>6. PartyIdle(M)
    BY <1>4 DEF PartyIdle
  <1>7. ASSUME NEW x \in LfgGroups PROVE GroupKnown(M, x)
    <2>1. CASE x # g
      <3>1. Members(M, x) = Members(L, x)
        BY <1>3, <1>4, <2>1, GroupNames DEF Members
      <3>2. QED
        BY <1>4, <2>1, <3>1 DEF GroupKnown
    <2>2. CASE x = g
      <3>1. Members(M, x) = Members(L, x) \ {p}
        BY <1>3, <1>4, <2>2, GroupNames DEF Members
      <3>2. QED
        BY <1>4, <2>2, <3>1 DEF GroupKnown
    <2>3. QED
      BY <2>1, <2>2
  <1>8. NamesKnown(M)
    BY <1>3, <1>4 DEF NamesKnown
  <1>9. QED
    BY <1>3, <1>4, <1>5, <1>6, <1>7, <1>8 DEF Known

Removed(L, M, p, g) ==
  /\ Good(M) /\ QLess(L, M) /\ Known(M) /\ Shrunk(L, M) /\ M.grp[p] = NoGroup
  /\ \A x \in Players : L.grp[x] # g => M.grp[x] = L.grp[x]

LEMMA MemberRemoved ==
  ASSUME NEW L, Good(L), Known(L), NEW p \in Players, NEW g \in Groups, L.grp[p] = g,
         NEW byFinder, NEW stay, NEW M, M = RemoveMember(L, p, g, byFinder, stay)
  PROVE  Removed(L, M, p, g)
  <1> DEFINE q == L.gr[g].queue
             other == StartAllOtherQueue(L, {p}, q)
             out == IF L.gr[g].now = "proposal" /\ byFinder THEN other
                    ELSE LeaveLfg(other, p, q)
             cut == [out EXCEPT !.pl[p][q].group = NoGroup, !.gr[g].players = @ \ {p}]
             N == IF g = Party THEN L ELSE cut
             fewer == [N EXCEPT !.grp[p] = NoGroup]
  <1>1. M = Disband(N, g) \/ M = Disband(fewer, g) \/ M = fewer
    <2> DEFINE n == Cardinality(Members(L, g))
    <2>1. M = CASE n <= (IF g = Party THEN 2 ELSE 1) -> Disband(N, g)
                [] g # Party /\ n = 2 /\ ~stay -> Disband(fewer, g)
                [] OTHER -> fewer
      BY DEF RemoveMember
    <2> HIDE DEF n, N, fewer
    <2>2. QED
      BY <2>1
  <1>2. GroupCut(N, fewer, p)
    BY DEF GroupCut
  <1>3. g # Party => DataCut(out, N, p, g, q)
    BY DEF DataCut
  <1>4. g = Party => N = L
    OBVIOUS
  <1>5. g # Party => Good(out) /\ Lesser(L, out) /\ q \in Queues
    <2>1. ASSUME g # Party PROVE Good(out) /\ Lesser(L, out) /\ q \in Queues
      <3>1. g \in LfgGroups /\ p \in Members(L, g)
        BY <2>1 DEF Groups, Members
      <3>2. q \in Queues
        BY <3>1 DEF Known, GroupKnown
      <3> HIDE DEF q
      <3>3. Good(other) /\ Lesser(L, other)
        BY StartOthersOnly, OnlyStatesLesser
      <3> DEFINE gone == LeaveLfg(other, p, q)
      <3>4. out = other \/ out = gone
        OBVIOUS
      <3> HIDE DEF other, out
      <3>5. Good(gone) /\ Lesser(other, gone)
        BY <3>2, <3>3, LeaveLesser
      <3> HIDE DEF gone
      <3>6. Lesser(L, gone)
        BY <3>3, <3>5, LesserTransitive
      <3>7. QED
        BY <3>2, <3>3, <3>4, <3>5, <3>6
    <2>2. QED
      BY <2>1
  <1> HIDE DEF out, N, fewer, q
  <1>6. /\ Good(N) /\ QLess(L, N) /\ N.grp = L.grp /\ PartyIdle(N) /\ NamesKnown(N)
        /\ \A h \in LfgGroups \ {g} : GroupKnown(N, h)
        /\ g \in LfgGroups => N.gr[g].players = Members(N, g) \ {p} /\ N.gr[g].queue \in Queues
        /\ \A r \in Queues : N.pl[p][r].group = NoGroup
    <2>1. CASE g = Party
      <3>1. N = L /\ g \notin LfgGroups /\ QLess(L, N)
        BY <1>4, <2>1, GroupNames, LesserItself DEF Lesser
      <3>2. \A r \in Queues : L.pl[p][r].group = NoGroup
        BY <3>1 DEF Known, NamesKnown
      <3>3. QED
        BY <3>1, <3>2 DEF Known
    <2>2. CASE g # Party
      <3>1. g \in LfgGroups /\ Good(out) /\ Lesser(L, out) /\ q \in Queues
        BY <1>5, <2>2 DEF Groups
      <3>2. Known(out) /\ out.grp = L.grp /\ q = out.gr[g].queue
        <4>1. GSame(L, out)
          BY <3>1 DEF Lesser
        <4>2. Known(out)
          BY <4>1, SameKnown
        <4>3. QED
          BY <4>1, <4>2, GroupNames DEF GSame, q
      <3>3. out.grp[p] = g /\ DataCut(out, N, p, g, q)
        BY <1>3, <2>2, <3>2
      <3>4. /\ Good(N) /\ QLess(out, N) /\ N.grp = out.grp /\ PartyIdle(N) /\ NamesKnown(N)
            /\ \A h \in LfgGroups \ {g} : GroupKnown(N, h)
            /\ N.gr[g].players = Members(out, g) \ {p} /\ N.gr[g].queue = q
            /\ \A r \in Queues : N.pl[p][r].group = NoGroup
        BY <3>1, <3>2, <3>3, DataCutKnown
      <3>5. QLess(L, N)
        BY <3>1, <3>4, QLessTransitive DEF Lesser
      <3>6. Members(N, g) = Members(out, g)
        BY <3>4 DEF Members
      <3>7. QED
        BY <3>1, <3>2, <3>4, <3>5, <3>6
    <2>3. QED
      BY <2>1, <2>2
  <1>7. /\ Good(fewer) /\ QLess(N, fewer) /\ Known(fewer) /\ fewer.grp[p] = NoGroup
        /\ \A x \in Players \ {p} : fewer.grp[x] = N.grp[x]
    <2>1. N.grp[p] = g
      BY <1>6
    <2>2. QED
      BY <1>2, <1>6, <2>1, GroupCutKnown
  <1>8. QLess(L, fewer)
    BY <1>6, <1>7, QLessTransitive
  <1>9. CASE M = fewer
    BY <1>6, <1>7, <1>8, <1>9 DEF Shrunk, Removed
  <1>10. CASE M = Disband(fewer, g)
    <2>1. DisbandReady(fewer, g)
      BY <1>7, KnownReady
    <2>2. /\ Good(M) /\ QLess(fewer, M) /\ Known(M)
          /\ \A x \in Players : M.grp[x] = IF fewer.grp[x] = g THEN NoGroup ELSE fewer.grp[x]
      BY <1>7, <1>10, <2>1, DisbandKnown
    <2>3. QLess(L, M)
      BY <1>8, <2>2, QLessTransitive
    <2>4. QED
      BY <1>6, <1>7, <2>2, <2>3 DEF Shrunk, Removed
  <1>11. CASE M = Disband(N, g)
    <2>1. DisbandReady(N, g)
      <3>1. ASSUME NEW x \in Players, N.grp[x] = g, x \notin N.gr[g].players,
                   NEW r \in Queues, N.pl[x][r].group # NoGroup
            PROVE  FALSE
        <4>1. g \in LfgGroups
          BY <1>6, <3>1 DEF NamesKnown
        <4>2. x \in Members(N, g) /\ x # p
          BY <1>6, <3>1 DEF Members
        <4>3. QED
          BY <1>6, <3>1, <4>1, <4>2
      <3>2. QED
        BY <1>6, <3>1 DEF DisbandReady
    <2>2. /\ Good(M) /\ QLess(N, M) /\ Known(M)
          /\ \A x \in Players : M.grp[x] = IF N.grp[x] = g THEN NoGroup ELSE N.grp[x]
      BY <1>6, <1>11, <2>1, DisbandKnown
    <2>3. QLess(L, M)
      BY <1>6, <2>2, QLessTransitive
    <2>4. QED
      BY <1>6, <2>2, <2>3 DEF Shrunk, Removed
  <1>12. QED
    BY <1>1, <1>9, <1>10, <1>11

(* Group::AddMember: the group has members, and its newcomer none.          *)
LEMMA MemberAdded ==
  ASSUME NEW L, Good(L), Known(L), NEW p \in Players, NEW g \in LfgGroups,
         Members(L, g) # {}, L.grp[p] = NoGroup, NEW M, M = AddMember(L, p, g)
  PROVE  /\ Good(M) /\ QLess(L, M) /\ Known(M) /\ M.grp[p] = g
         /\ \A x \in Players \ {p} : M.grp[x] = L.grp[x]
  <1> DEFINE q == L.gr[g].queue
             single == IF L.pl[p][q].now = "queued" THEN LeaveLfg(L, p, q) ELSE L
             A == IF L.gr[g].now # "queued" THEN single
                  ELSE SetGroupState(RemoveEntries(single, q, {g}), g, "none")
  <1>1. M = [A EXCEPT !.pl[p][q].group = g, !.gr[g].players = @ \cup {p}, !.grp[p] = g]
    BY DEF AddMember
  <1>2. q \in Queues
    BY DEF Known, GroupKnown
  <1>3. Good(single) /\ Lesser(L, single)
    <2> DEFINE gone == LeaveLfg(L, p, q)
    <2> HIDE DEF q
    <2>1. Good(gone) /\ Lesser(L, gone)
      BY <1>2, LeaveLesser
    <2>2. single = gone \/ single = L
      OBVIOUS
    <2> HIDE DEF gone, single
    <2>3. QED
      BY <2>1, <2>2, LesserItself
  <1>4. Good(A) /\ Lesser(L, A)
    <2> DEFINE B == RemoveEntries(single, q, {g})
               C == SetGroupState(B, g, "none")
    <2>1. A = single \/ A = C
      OBVIOUS
    <2> HIDE DEF single, q, A
    <2>2. Good(B) /\ Lesser(L, B)
      BY <1>2, <1>3, RemoveEntriesLesser, LesserTransitive
    <2> HIDE DEF B
    <2>3. "none" \in States
      BY DEF States
    <2>4. OnlyStates(B, C)
      BY <2>2, <2>3, GroupNames, SetGroupStateOnly
    <2> HIDE DEF C
    <2>5. Good(C) /\ Lesser(L, C)
      BY <2>2, <2>4, LesserThenStates
    <2>6. QED
      BY <1>3, <2>1, <2>5
  <1> HIDE DEF A, single
  <1>5. Known(A) /\ A.grp = L.grp /\ A.gr[g].queue = q /\ QLess(L, A)
    <2>1. GSame(L, A) /\ QLess(L, A)
      BY <1>4 DEF Lesser
    <2>2. Known(A)
      BY <2>1, SameKnown
    <2>3. QED
      BY <2>1, <2>2, GroupNames DEF GSame
  <1> HIDE DEF q
  <1> DEFINE e == [A.pl[p][q] EXCEPT !.group = g]
             f == [A.pl EXCEPT ![p] = [A.pl[p] EXCEPT ![q] = e]]
             d == [A.gr[g] EXCEPT !.players = @ \cup {p}]
             h == [A.gr EXCEPT ![g] = d]
             k == [A.grp EXCEPT ![p] = g]
  <1>6. /\ DOMAIN A = Fields /\ A.pl \in [Players -> [Queues -> PlayerData]]
        /\ A.gr \in [Groups -> GroupData] /\ A.grp \in [Players -> Groups \cup {NoGroup}]
    BY <1>4 DEF Good, PlayersOK
  <1>7. M = [A EXCEPT !.pl = f, !.gr = h, !.grp = k]
    BY <1>1, <1>6 DEF Fields
  <1>8. e \in PlayerData /\ e.group = g
    <2>1. A.pl[p][q] \in PlayerData
      BY <1>2, <1>6
    <2>2. QED
      BY <2>1, GroupNames DEF PlayerData
  <1>9. d \in GroupData /\ d.players = A.gr[g].players \cup {p} /\ d.queue = q
    <2>1. A.gr[g] \in GroupData
      BY <1>6, GroupNames
    <2>2. QED
      BY <1>5, <2>1 DEF GroupData
  <1> HIDE DEF e, d
  <1>10. /\ f \in [Players -> [Queues -> PlayerData]] /\ f[p][q].group = g
         /\ \A r \in Queues \ {q} : f[p][r] = A.pl[p][r]
         /\ \A x \in Players \ {p} : f[x] = A.pl[x]
    BY <1>2, <1>6, <1>8
  <1>11. h \in [Groups -> GroupData] /\ h[g] = d /\ \A x \in Groups \ {g} : h[x] = A.gr[x]
    BY <1>6, <1>9, GroupNames
  <1>12. /\ k \in [Players -> Groups \cup {NoGroup}] /\ k[p] = g
         /\ \A x \in Players \ {p} : k[x] = A.grp[x]
    BY <1>6, GroupNames
  <1> HIDE DEF f, h, k
  <1>13. /\ M.pl = f /\ M.gr = h /\ M.grp = k /\ ElsewhereSame(A, M)
    <2>1. /\ M.pl = f /\ M.gr = h /\ M.grp = k /\ DOMAIN M = Fields
          /\ M.mem = A.mem /\ M.open = A.open /\ M.away = A.away
      BY <1>6, <1>7 DEF Fields
    <2>2. /\ M.before = A.before /\ M.data = A.data /\ M.fresh = A.fresh /\ M.cur = A.cur
          /\ M.cache = A.cache /\ M.prop = A.prop /\ M.chk = A.chk /\ M.last = A.last
      BY <1>6, <1>7 DEF Fields
    <2>3. QED
      BY <2>1, <2>2 DEF ElsewhereSame
  <1>14. Good(M) /\ QLess(A, M)
    BY <1>4, <1>10, <1>11, <1>12, <1>13, GroupsSetOnly
  <1>15. QLess(L, M)
    BY <1>5, <1>14, QLessTransitive
  <1>16. PartyIdle(M)
    BY <1>5, <1>11, <1>13, GroupNames DEF Known, PartyIdle
  <1>17. A.grp[p] = NoGroup
    BY <1>5
  <1>18. ASSUME NEW x \in LfgGroups PROVE GroupKnown(M, x)
    <2>1. CASE x # g
      <3>1. Members(M, x) = Members(A, x)
        BY <1>12, <1>13, <1>17, <2>1, GroupNames DEF Members
      <3>2. M.gr[x] = A.gr[x]
        BY <1>11, <1>13, <2>1, GroupNames
      <3>3. QED
        BY <1>5, <3>1, <3>2 DEF Known, GroupKnown
    <2>2. CASE x = g
      <3>1. Members(M, x) = Members(A, x) \cup {p}
        BY <1>12, <1>13, <2>2, GroupNames DEF Members
      <3>2. A.gr[g].players = Members(A, g)
        BY <1>5 DEF Known, GroupKnown
      <3>3. QED
        BY <1>2, <1>9, <1>11, <1>13, <2>2, <3>1, <3>2 DEF GroupKnown
    <2>3. QED
      BY <2>1, <2>2
  <1>19. NamesKnown(M)
    <2> SUFFICES ASSUME NEW x \in Players, NEW r \in Queues, M.pl[x][r].group # NoGroup
                 PROVE  /\ M.pl[x][r].group = M.grp[x] /\ M.grp[x] \in LfgGroups
                        /\ r = M.gr[M.grp[x]].queue
      BY DEF NamesKnown
    <2>1. CASE x # p
      <3>1. M.pl[x][r] = A.pl[x][r] /\ M.grp[x] = A.grp[x]
        BY <1>10, <1>12, <1>13, <2>1
      <3>2. /\ A.pl[x][r].group = A.grp[x] /\ A.grp[x] \in LfgGroups
            /\ r = A.gr[A.grp[x]].queue
        BY <1>5, <3>1 DEF Known, NamesKnown
      <3>3. M.gr[A.grp[x]].queue = A.gr[A.grp[x]].queue
        BY <1>5, <1>9, <1>11, <1>13, <3>2, GroupNames
      <3>4. QED
        BY <3>1, <3>2, <3>3
    <2>2. CASE x = p
      <3>1. r = q
        <4>1. A.pl[p][r].group = NoGroup
          BY <1>5, <1>17, GroupNames DEF Known, NamesKnown
        <4>2. QED
          BY <1>10, <1>13, <2>2, <4>1
      <3>2. QED
        BY <1>9, <1>10, <1>11, <1>12, <1>13, <2>2, <3>1
    <2>3. QED
      BY <2>1, <2>2
  <1>20. QED
    BY <1>5, <1>12, <1>13, <1>14, <1>15, <1>16, <1>18, <1>19 DEF Known

LEMMA OwnLeft ==
  ASSUME NEW L, Good(L), Known(L), NEW p \in Players, NEW g, NEW stay,
         NEW M, M = LeaveOwn(L, p, g, stay)
  PROVE  /\ Good(M) /\ QLess(L, M) /\ Known(M) /\ Shrunk(L, M)
         /\ L.grp[p] # g => M.grp[p] = NoGroup
         /\ \A x \in Players : L.grp[x] = g => M.grp[x] = g
  <1>1. L.grp[p] \in Groups \cup {NoGroup}
    BY DEF Good, PlayersOK
  <1>2. CASE L.grp[p] \in {NoGroup, g}
    <2>1. M = L
      BY <1>2 DEF LeaveOwn
    <2>2. QLess(L, M)
      BY <2>1, LesserItself DEF Lesser
    <2>3. QED
      BY <1>2, <2>1, <2>2 DEF Shrunk
  <1>3. CASE L.grp[p] \notin {NoGroup, g}
    <2> DEFINE yes == TRUE
               h == L.grp[p]
    <2>1. h \in Groups /\ h # g /\ M = RemoveMember(L, p, h, yes, stay)
      BY <1>1, <1>3 DEF LeaveOwn
    <2>2. L.grp[p] = h
      OBVIOUS
    <2> HIDE DEF yes, h
    <2>3. Removed(L, M, p, h)
      BY <2>1, <2>2, MemberRemoved
    <2>4. QED
      BY <2>1, <2>3 DEF Removed
  <1>4. QED
    BY <1>2, <1>3

LEMMA Created ==
  ASSUME NEW L, Good(L), Known(L), NEW p \in Players, NEW id \in LfgGroups, NEW q \in Queues,
         Members(L, id) = {}, L.grp[p] = NoGroup, NEW M, M = Create(L, id, q, p)
  PROVE  /\ Good(M) /\ QLess(L, M) /\ Known(M) /\ M.grp[p] = id
         /\ \A x \in Players \ {p} : M.grp[x] = L.grp[x]
  <1> DEFINE d == [now |-> "dungeon", old |-> "dungeon", dungeon |-> q,
                   queue |-> q, players |-> {p}]
             h == [L.gr EXCEPT ![id] = d]
             k == [L.grp EXCEPT ![p] = id]
  <1>1. M = [L EXCEPT !.gr = h, !.grp = k]
    BY DEF Create
  <1>2. /\ DOMAIN L = Fields /\ L.pl \in [Players -> [Queues -> PlayerData]]
        /\ L.gr \in [Groups -> GroupData] /\ L.grp \in [Players -> Groups \cup {NoGroup}]
    BY DEF Good, PlayersOK
  <1>3. d \in GroupData /\ d.players = {p} /\ d.queue = q
    BY DEF GroupData, States
  <1> HIDE DEF d
  <1>4. h \in [Groups -> GroupData] /\ h[id] = d /\ \A x \in Groups \ {id} : h[x] = L.gr[x]
    BY <1>2, <1>3, GroupNames
  <1>5. /\ k \in [Players -> Groups \cup {NoGroup}] /\ k[p] = id
        /\ \A x \in Players \ {p} : k[x] = L.grp[x]
    BY <1>2, GroupNames
  <1> HIDE DEF h, k
  <1>6. /\ M.pl = L.pl /\ M.gr = h /\ M.grp = k /\ ElsewhereSame(L, M)
    <2>1. /\ M.pl = L.pl /\ M.gr = h /\ M.grp = k /\ DOMAIN M = Fields
          /\ M.mem = L.mem /\ M.open = L.open /\ M.away = L.away
      BY <1>1, <1>2 DEF Fields
    <2>2. /\ M.before = L.before /\ M.data = L.data /\ M.fresh = L.fresh /\ M.cur = L.cur
          /\ M.cache = L.cache /\ M.prop = L.prop /\ M.chk = L.chk /\ M.last = L.last
      BY <1>1, <1>2 DEF Fields
    <2>3. QED
      BY <2>1, <2>2 DEF ElsewhereSame
  <1>7. Good(M) /\ QLess(L, M)
    BY <1>2, <1>4, <1>5, <1>6, GroupsSetOnly
  <1>8. PartyIdle(M)
    BY <1>4, <1>6, GroupNames DEF Known, PartyIdle
  <1>9. ASSUME NEW x \in LfgGroups PROVE GroupKnown(M, x)
    <2>1. CASE x # id
      <3>1. Members(M, x) = Members(L, x)
        BY <1>5, <1>6, <2>1, GroupNames DEF Members
      <3>2. M.gr[x] = L.gr[x]
        BY <1>4, <1>6, <2>1, GroupNames
      <3>3. QED
        BY <3>1, <3>2 DEF Known, GroupKnown
    <2>2. CASE x = id
      <3>1. Members(M, x) = {p}
        BY <1>5, <1>6, <2>2, GroupNames DEF Members
      <3>2. QED
        BY <1>3, <1>4, <1>6, <2>2, <3>1 DEF GroupKnown
    <2>3. QED
      BY <2>1, <2>2
  <1>10. NamesKnown(M)
    <2> SUFFICES ASSUME NEW x \in Players, NEW r \in Queues, M.pl[x][r].group # NoGroup
                 PROVE  /\ M.pl[x][r].group = M.grp[x] /\ M.grp[x] \in LfgGroups
                        /\ r = M.gr[M.grp[x]].queue
      BY DEF NamesKnown
    <2>1. /\ L.pl[x][r].group = L.grp[x] /\ L.grp[x] \in LfgGroups
          /\ r = L.gr[L.grp[x]].queue
      BY <1>6 DEF Known, NamesKnown
    <2>2. x # p /\ L.grp[x] # id
      BY <2>1, GroupNames DEF Members
    <2>3. M.grp[x] = L.grp[x] /\ M.gr[L.grp[x]] = L.gr[L.grp[x]]
      BY <1>4, <1>5, <1>6, <2>1, <2>2, GroupNames
    <2>4. QED
      BY <1>6, <2>1, <2>3
  <1>11. QED
    BY <1>5, <1>6, <1>7, <1>8, <1>9, <1>10 DEF Known

(* MakeNewGroup, player by player, from the group that is still alive.        *)
IsEnteredUpTo(f, a, id, q, order, stay) ==
  f = [i \in 0..Len(order) |-> (IF i = 0 THEN a ELSE Enter(f[i - 1], id, q, order[i], stay))]
EnteredUpTo(a, id, q, order, stay) == CHOOSE f : IsEnteredUpTo(f, a, id, q, order, stay)

LEMMA EnteredUpToExists ==
  ASSUME NEW a, NEW id, NEW q, NEW order, NEW stay, Len(order) \in Nat
  PROVE  \E f : IsEnteredUpTo(f, a, id, q, order, stay)
  <1> DEFINE Fills(g, k) == \A i \in 0..k : g[i] = (IF i = 0 THEN a ELSE Enter(g[i - 1], id, q, order[i], stay))
             G == {k \in Nat : \E g : Fills(g, k)}
  <1>1. 0 \in G
    <2>1. Fills([i \in 0..0 |-> a], 0)
      OBVIOUS
    <2>2. \E g : Fills(g, 0)
      <3> HIDE DEF Fills
      <3> QED
        BY <2>1
    <2> HIDE DEF Fills
    <2>3. QED
      BY <2>2
  <1>2. ASSUME NEW k \in Nat, k \in G PROVE k + 1 \in G
    <2>1. PICK g : Fills(g, k)
      BY <1>2
    <2> DEFINE h == [i \in 0..(k + 1) |-> IF i <= k THEN g[i] ELSE (IF i = 0 THEN a ELSE Enter(g[i - 1], id, q, order[i], stay))]
    <2>2. ASSUME NEW i \in 0..(k + 1) PROVE h[i] = (IF i = 0 THEN a ELSE Enter(h[i - 1], id, q, order[i], stay))
      <3>1. i \in Nat /\ h[i] = IF i <= k THEN g[i] ELSE (IF i = 0 THEN a ELSE Enter(g[i - 1], id, q, order[i], stay))
        OBVIOUS
      <3>2. i <= k => i \in 0..k
        BY <3>1
      <3>3. h[i] = (IF i = 0 THEN a ELSE Enter(g[i - 1], id, q, order[i], stay))
        BY <2>1, <3>1, <3>2
      <3>4. ~(i = 0) => i - 1 \in 0..(k + 1) /\ i - 1 <= k
        BY <3>1
      <3>5. ~(i = 0) => h[i - 1] = g[i - 1]
        BY <3>4
      <3> HIDE DEF h
      <3>6. QED
        BY <3>3, <3>5
    <2> HIDE DEF h
    <2>3. Fills(h, k + 1)
      BY <2>2
    <2>4. \E g1 : Fills(g1, k + 1)
      <3> HIDE DEF Fills
      <3> QED
        BY <2>3
    <2> HIDE DEF Fills
    <2>5. QED
      BY <2>4
  <1>3. Nat \subseteq G
    <2> HIDE DEF G
    <2> QED
      BY <1>1, <1>2, NumberInduction
  <1>4. PICK g : Fills(g, Len(order))
    BY <1>3
  <1> DEFINE h == [i \in 0..Len(order) |-> g[i]]
  <1>5. ASSUME NEW i \in 0..Len(order) PROVE h[i] = (IF i = 0 THEN a ELSE Enter(h[i - 1], id, q, order[i], stay))
    <2>1. h[i] = g[i] /\ (~(i = 0) => i - 1 \in 0..Len(order))
      OBVIOUS
    <2>2. ~(i = 0) => h[i - 1] = g[i - 1]
      BY <2>1
    <2>3. g[i] = (IF i = 0 THEN a ELSE Enter(g[i - 1], id, q, order[i], stay))
      BY <1>4
    <2> HIDE DEF h
    <2>4. QED
      BY <2>1, <2>2, <2>3
  <1>6. h = [i \in 0..Len(order) |-> h[i]]
    OBVIOUS
  <1> HIDE DEF h
  <1>7. h = [i \in 0..Len(order) |-> (IF i = 0 THEN a ELSE Enter(h[i - 1], id, q, order[i], stay))]
    BY <1>5, <1>6
  <1>8. IsEnteredUpTo(h, a, id, q, order, stay)
    BY <1>7 DEF IsEnteredUpTo
  <1>9. QED
    BY <1>8

LEMMA EnteredUpToSteps ==
  ASSUME NEW a, NEW id, NEW q, NEW order, NEW stay, Len(order) \in Nat
  PROVE  \A i \in 0..Len(order) : EnteredUpTo(a, id, q, order, stay)[i] = (IF i = 0 THEN a ELSE Enter(EnteredUpTo(a, id, q, order, stay)[i - 1], id, q, order[i], stay))
  <1>1. EnteredUpTo(a, id, q, order, stay) = [i \in 0..Len(order) |-> (IF i = 0 THEN a ELSE Enter(EnteredUpTo(a, id, q, order, stay)[i - 1], id, q, order[i], stay))]
    <2>1. IsEnteredUpTo(EnteredUpTo(a, id, q, order, stay), a, id, q, order, stay)
      BY EnteredUpToExists DEF EnteredUpTo
    <2>2. QED
      BY <2>1 DEF IsEnteredUpTo
  <1>3. QED
    BY <1>1

FirstIn(L, id) ==
  [g |-> IF L.prop[id].group # NoGroup /\ Members(L, L.prop[id].group) # {}
         THEN L.prop[id].group ELSE NoGroup, L |-> L]
Comers(L, id) == DOMAIN L.prop[id].answer \ L.away
ComersInOrder(L, id, first) ==
  SetToSeq(Comers(L, id) \cap {first}) \o SetToSeq(Comers(L, id) \ {first})

LEMMA NewGroupMade ==
  ASSUME NEW L, NEW id, NEW first, NEW stay
  PROVE  MakeNewGroup(L, id, first, stay) =
           EnteredUpTo(FirstIn(L, id), id, L.prop[id].queue, ComersInOrder(L, id, first),
                       stay)[Len(ComersInOrder(L, id, first))].L
  BY DEF MakeNewGroup, EnteredUpTo, IsEnteredUpTo, FirstIn, ComersInOrder, Comers

(* The group a proposal fills up, and who is in it so far.                  *)
Filling(L, acc, id, S, own) ==
  /\ Good(acc.L) /\ Known(acc.L) /\ QLess(L, acc.L) /\ NewGroups(acc.L, id)
  /\ acc.g \in {NoGroup, id, own}
  /\ acc.g # NoGroup => Members(acc.L, acc.g) # {}
  /\ acc.g # id => Members(acc.L, id) = {}
  /\ \A x \in Players : \/ acc.L.grp[x] \in {L.grp[x], NoGroup}
                        \/ x \in S /\ acc.L.grp[x] = acc.g
Fillable(L, own) ==
  own # NoGroup => own \in LfgGroups /\ ~(own > L.last) /\ own \notin DOMAIN L.prop

LEMMA NewGroupsFilled ==
  ASSUME NEW L, NEW M, NEW x, NewGroups(L, x), QLess(L, M), NEW g,
         \A p \in Players : M.grp[p] \in {L.grp[p], NoGroup, g},
         ~(g > L.last), g \notin DOMAIN L.prop \ {x}
  PROVE  NewGroups(M, x)
  <1>1. M.last = L.last /\ DOMAIN M.prop \subseteq DOMAIN L.prop
    BY DEF QLess, ProposalsLess
  <1>2. ASSUME NEW h \in LfgGroups, h > M.last \/ h \in DOMAIN M.prop PROVE Unlisted(M, h)
    <2>1. Unlisted(L, h)
      BY <1>1, <1>2 DEF NewGroups
    <2>2. QED
      BY <2>1, LessUnlisted
  <1>3. ASSUME NEW h \in LfgGroups, h > M.last \/ h \in DOMAIN M.prop \ {x}
        PROVE  Members(M, h) = {}
    <2>1. Members(L, h) = {}
      BY <1>1, <1>3 DEF NewGroups
    <2>2. h # g
      BY <1>1, <1>3
    <2>3. QED
      BY <2>1, <2>2, GroupNames DEF Members
  <1>4. QED
    BY <1>2, <1>3 DEF NewGroups

LEMMA EnterFills ==
  ASSUME NEW L, NEW acc, NEW id \in LfgGroups, ~(id > L.last), NEW S \in SUBSET Players,
         NEW own, Fillable(L, own), Filling(L, acc, id, S, own), NEW q \in Queues,
         NEW p \in S, NEW stay, NEW M, M = Enter(acc, id, q, p, stay)
  PROVE  Filling(L, M, id, S, own)
  <1>1. /\ Good(acc.L) /\ Known(acc.L) /\ QLess(L, acc.L) /\ NewGroups(acc.L, id)
        /\ p \in Players
    BY DEF Filling
  <1>2. CASE acc.g = NoGroup
    <2> DEFINE A == LeaveOwn(acc.L, p, NoGroup, stay)
               N == Create(A, id, q, p)
    <2>1. M = [g |-> id, L |-> N]
      BY <1>2 DEF Enter
    <2>2. M.g = id /\ M.L = N
      BY <2>1
    <2>3. /\ Good(A) /\ QLess(acc.L, A) /\ Known(A) /\ Shrunk(acc.L, A)
          /\ acc.L.grp[p] # NoGroup => A.grp[p] = NoGroup
          /\ \A x \in Players : acc.L.grp[x] = NoGroup => A.grp[x] = NoGroup
      BY <1>1, OwnLeft
    <2>4. id \in Groups /\ id # NoGroup
      BY GroupNames
    <2>5. A.grp[p] = NoGroup /\ Members(A, id) = {}
      <3>1. Members(acc.L, id) = {}
        BY <1>2, <2>4 DEF Filling
      <3>2. QED
        BY <1>1, <2>3, <2>4, <3>1, ShrunkMembers
    <2> HIDE DEF A
    <2>6. /\ Good(N) /\ QLess(A, N) /\ Known(N) /\ N.grp[p] = id
          /\ \A x \in Players \ {p} : N.grp[x] = A.grp[x]
      BY <1>1, <2>3, <2>5, Created
    <2> HIDE DEF N
    <2>7. QLess(acc.L, N) /\ QLess(L, N)
      BY <1>1, <2>3, <2>6, QLessTransitive
    <2>8. NewGroups(N, id)
      <3>1. \A x \in Players : N.grp[x] \in {acc.L.grp[x], NoGroup, id}
        BY <2>3, <2>6 DEF Shrunk
      <3>2. ~(id > acc.L.last)
        BY <1>1 DEF QLess, ProposalsLess
      <3>3. QED
        BY <1>1, <2>7, <3>1, <3>2, NewGroupsFilled
    <2>9. Members(N, id) # {}
      BY <1>1, <2>6 DEF Members
    <2>10. ASSUME NEW x \in Players
           PROVE  N.grp[x] \in {L.grp[x], NoGroup} \/ (x \in S /\ N.grp[x] = id)
      <3>1. acc.L.grp[x] \in {L.grp[x], NoGroup}
        BY <1>2 DEF Filling
      <3>2. A.grp[x] \in {L.grp[x], NoGroup}
        BY <2>3, <3>1 DEF Shrunk
      <3>3. QED
        BY <2>6, <3>2
    <2>11. QED
      BY <2>2, <2>6, <2>7, <2>8, <2>9, <2>10 DEF Filling
  <1>3. CASE acc.g # NoGroup /\ acc.L.grp[p] # acc.g
    <2> DEFINE g == acc.g
               A == LeaveOwn(acc.L, p, g, stay)
               N == AddMember(A, p, g)
    <2>1. M = [g |-> g, L |-> N]
      BY <1>3 DEF Enter
    <2>2. M.g = acc.g /\ M.L = N
      BY <2>1
    <2>3. /\ g # NoGroup /\ acc.L.grp[p] # g /\ g \in {id, own} /\ Members(acc.L, g) # {}
          /\ g # id => Members(acc.L, id) = {}
      BY <1>3 DEF Filling
    <2>4. g \in LfgGroups /\ ~(g > L.last) /\ g \notin DOMAIN L.prop \ {id}
      BY <2>3 DEF Fillable
    <2>5. g = acc.g
      OBVIOUS
    <2> HIDE DEF g
    <2>6. /\ Good(A) /\ QLess(acc.L, A) /\ Known(A) /\ Shrunk(acc.L, A)
          /\ acc.L.grp[p] # g => A.grp[p] = NoGroup
          /\ \A x \in Players : acc.L.grp[x] = g => A.grp[x] = g
      BY <1>1, OwnLeft
    <2>7. A.grp[p] = NoGroup /\ Members(A, g) # {}
      BY <2>3, <2>6 DEF Members
    <2> HIDE DEF A
    <2>8. /\ Good(N) /\ QLess(A, N) /\ Known(N) /\ N.grp[p] = g
          /\ \A x \in Players \ {p} : N.grp[x] = A.grp[x]
      BY <1>1, <2>4, <2>6, <2>7, MemberAdded
    <2> HIDE DEF N
    <2>9. QLess(acc.L, N) /\ QLess(L, N)
      BY <1>1, <2>6, <2>8, QLessTransitive
    <2>10. NewGroups(N, id)
      <3>1. \A x \in Players : N.grp[x] \in {acc.L.grp[x], NoGroup, g}
        BY <2>6, <2>8 DEF Shrunk
      <3>2. ~(g > acc.L.last) /\ g \notin DOMAIN acc.L.prop \ {id}
        BY <1>1, <2>4 DEF QLess, ProposalsLess
      <3>3. QED
        BY <1>1, <2>9, <3>1, <3>2, NewGroupsFilled
    <2>11. Members(N, g) # {}
      BY <1>1, <2>8 DEF Members
    <2>12. g # id => Members(N, id) = {}
      <3>1. ASSUME g # id, NEW x \in Players, N.grp[x] = id PROVE FALSE
        <4>1. x # p /\ A.grp[x] = id
          BY <2>8, <3>1
        <4>2. acc.L.grp[x] = id
          BY <2>6, <4>1, GroupNames DEF Shrunk
        <4>3. QED
          BY <2>3, <3>1, <4>2 DEF Members
      <3>2. QED
        BY <3>1 DEF Members
    <2>13. ASSUME NEW x \in Players
           PROVE  N.grp[x] \in {L.grp[x], NoGroup} \/ (x \in S /\ N.grp[x] = g)
      <3>1. acc.L.grp[x] \in {L.grp[x], NoGroup} \/ (x \in S /\ acc.L.grp[x] = g)
        BY <2>5 DEF Filling
      <3>2. A.grp[x] \in {L.grp[x], NoGroup} \/ (x \in S /\ A.grp[x] = g)
        BY <2>6, <3>1 DEF Shrunk
      <3>3. QED
        BY <2>8, <3>2
    <2>14. QED
      BY <2>2, <2>3, <2>5, <2>8, <2>9, <2>10, <2>11, <2>12, <2>13 DEF Filling
  <1>4. CASE acc.g # NoGroup /\ acc.L.grp[p] = acc.g
    <2>1. M = acc
      BY <1>4 DEF Enter
    <2>2. QED
      BY <2>1
  <1>5. QED
    BY <1>2, <1>3, <1>4

LEMMA GroupFilled ==
  ASSUME NEW L, Good(L), Known(L), NewGroups(L, 0), NEW id \in DOMAIN L.prop,
         id \in LfgGroups, NEW first, NEW stay, NEW M, M = MakeNewGroup(L, id, first, stay)
  PROVE  \E acc : acc.L = M /\ Filling(L, acc, id, Comers(L, id), L.prop[id].group)
  <1> DEFINE pr == L.prop[id]
             S == Comers(L, id)
             own == pr.group
             order == ComersInOrder(L, id, first)
             a == FirstIn(L, id)
             c == EnteredUpTo(a, id, pr.queue, order, stay)
             H(i) == Filling(L, c[i], id, S, own)
             G == {i \in Nat : i \in 0..Len(order) => H(i)}
  <1>1. ProposalOK(pr) /\ L.last \in Nat /\ id \in 1..L.last /\ id \in Nat
    BY DEF Good, ProposalsOK
  <1>2. S \in SUBSET Players /\ pr.queue \in Queues /\ IsFiniteSet(S)
    <2>1. DOMAIN pr.answer \subseteq Players /\ pr.queue \in Queues
      BY <1>1 DEF ProposalOK
    <2>2. S \subseteq Players
      BY <2>1 DEF Comers
    <2>3. QED
      BY <2>1, <2>2, FinderAssumption, FS_Subset
  <1>3. Fillable(L, own)
    <2>1. own # NoGroup => own \in LfgGroups /\ own \in Range(pr.entries)
      BY <1>1 DEF ProposalOK
    <2>2. own # NoGroup => ~Unlisted(L, own)
      BY <2>1 DEF Unlisted
    <2>3. QED
      BY <2>1, <2>2 DEF Fillable, NewGroups
  <1>4. order \in Seq(S)
    <2> DEFINE A == Comers(L, id) \cap {first}
               B == Comers(L, id) \ {first}
    <2>1. IsFiniteSet(A) /\ IsFiniteSet(B) /\ A \subseteq S /\ B \subseteq S
      BY <1>2, FS_Subset
    <2>2. order = SetToSeq(A) \o SetToSeq(B)
      BY DEF ComersInOrder
    <2> HIDE DEF A, B, S, order
    <2>3. SetToSeq(A) \in Seq(A) /\ SetToSeq(B) \in Seq(B)
      BY <2>1, SetToSeqElements
    <2>4. SetToSeq(A) \in Seq(S) /\ SetToSeq(B) \in Seq(S)
      BY <2>1, <2>3
    <2>5. QED
      BY <2>2, <2>4
  <1>5. Len(order) \in Nat /\ \A i \in 1..Len(order) : order[i] \in S
    <2> HIDE DEF order, S
    <2>1. QED
      BY <1>4
  <1>6. M = c[Len(order)].L
    BY NewGroupMade
  <1>7. \A i \in 0..Len(order) : c[i] = (IF i = 0 THEN a ELSE
                                         Enter(c[i - 1], id, pr.queue, order[i], stay))
    <2> HIDE DEF order, a, pr
    <2>1. QED
      BY <1>5, EnteredUpToSteps
  <1>8. Filling(L, a, id, S, own)
    <2>1. a.L = L /\ a.g = IF own # NoGroup /\ Members(L, own) # {} THEN own ELSE NoGroup
      BY DEF FirstIn
    <2>2. Members(L, id) = {}
      BY <1>1 DEF NewGroups
    <2>3. NewGroups(L, id)
      <3>1. id # 0
        BY <1>1
      <3>2. \A g \in LfgGroups : g \in DOMAIN L.prop \ {id} => g \in DOMAIN L.prop \ {0}
        BY DEF LfgGroups
      <3>3. QED
        BY <3>2 DEF NewGroups
    <2>4. QLess(L, L)
      BY LesserItself DEF Lesser
    <2> HIDE DEF a, S, own
    <2>5. QED
      BY <2>1, <2>2, <2>3, <2>4 DEF Filling
  <1> HIDE DEF pr, S, own, order, a, c
  <1>9. H(0)
    <2>1. c[0] = a
      BY <1>5, <1>7
    <2>2. QED
      BY <1>8, <2>1
  <1>10. ASSUME NEW i \in Nat, i + 1 \in 0..Len(order), H(i) PROVE H(i + 1)
    <2> DEFINE k == i + 1
    <2>1. /\ k - 1 = i /\ k # 0 /\ order[k] \in S
          /\ c[k] = Enter(c[k - 1], id, pr.queue, order[k], stay)
      BY <1>5, <1>7, <1>10
    <2>2. c[k] = Enter(c[i], id, pr.queue, order[k], stay)
      BY <2>1
    <2> HIDE DEF k
    <2>3. ~(id > L.last)
      BY <1>1
    <2>4. Filling(L, c[k], id, S, own)
      BY <1>2, <1>3, <1>10, <2>1, <2>2, <2>3, EnterFills
    <2>5. QED
      BY <2>4 DEF k
  <1>11. Nat \subseteq G
    <2>1. 0 \in G
      BY <1>9
    <2>2. \A i \in Nat : i \in G => i + 1 \in G
      <3>1. ASSUME NEW i \in Nat, i \in G PROVE i + 1 \in G
        <4>1. i + 1 \in 0..Len(order) => i \in 0..Len(order)
          BY <1>5
        <4> HIDE DEF H
        <4>2. QED
          BY <1>10, <3>1, <4>1
      <3>2. QED
        BY <3>1
    <2> HIDE DEF G
    <2>3. QED
      BY <2>1, <2>2, NumberInduction
  <1>12. H(Len(order))
    <2> HIDE DEF H
    <2>1. QED
      BY <1>5, <1>11
  <1>13. QED
    BY <1>6, <1>12 DEF S, own, pr

(* Succeed: N is what the handlers on the way left, and M is N without the  *)
(* proposal.  Those who come are of the proposal, and all come into g.      *)
Settled(N, M, id) ==
  /\ DOMAIN M = Fields /\ M.pl = N.pl /\ M.gr = N.gr /\ M.grp = N.grp /\ M.data = N.data
  /\ M.fresh = N.fresh /\ M.cur = N.cur /\ M.chk = N.chk /\ M.last = N.last
  /\ DOMAIN M.prop = DOMAIN N.prop \ {id}
  /\ \A i \in DOMAIN M.prop : M.prop[i] = N.prop[i]
Success(L, M, N, id, g, ticket) ==
  /\ Good(M) /\ Known(M) /\ NewGroups(M, 0) /\ QLess(L, N) /\ Settled(N, M, id)
  /\ g \in {NoGroup, id, L.prop[id].group} /\ Fillable(L, L.prop[id].group)
  /\ \A x \in Players : \/ M.grp[x] \in {L.grp[x], NoGroup}
                        \/ x \in DOMAIN L.prop[id].answer /\ M.grp[x] = g
  /\ ticket # NoQueue =>
        \A e \in DOMAIN M.data[ticket] : e \notin Range(L.prop[id].entries)

LEMMA ProposalSucceeds ==
  ASSUME NEW L, Good(L), Known(L), NewGroups(L, 0), NEW id \in DOMAIN L.prop,
         id \in LfgGroups, NEW ticket \in Queues \cup {NoQueue}, NEW first, NEW stay,
         NEW M, M = Succeed(L, id, ticket, first, stay)
  PROVE  \E N, g : Success(L, M, N, id, g, ticket)
  <1> DEFINE pr == L.prop[id]
             A == SetStates(L, DOMAIN pr.answer, pr.queue, "dungeon")
             B == RemoveEntries(A, ticket, Range(pr.entries))
             out == IF ticket = NoQueue THEN A ELSE B
             N == MakeNewGroup(out, id, first, stay)
  <1>1. M = [N EXCEPT !.prop = Drop(@, id)]
    BY DEF Succeed
  <1>2. Good(A) /\ Lesser(L, A) /\ A.prop = L.prop /\ A.away = L.away
    <2>1. "dungeon" \in States
      BY DEF States
    <2>2. OnlyStates(L, A) /\ A.away = L.away
      BY <2>1, SetStatesOnly
    <2>3. QED
      BY <2>2, OnlyStatesLesser DEF OnlyStates
  <1>3. ticket = NoQueue => out = A
    OBVIOUS
  <1>4. ticket # NoQueue => out = B
    OBVIOUS
  <1> HIDE DEF A, pr
  <1>5. ticket # NoQueue => /\ Good(B) /\ Lesser(A, B) /\ SameButQueue(A, B, ticket)
                            /\ DOMAIN B.data[ticket] = DOMAIN A.data[ticket] \ Range(pr.entries)
    BY <1>2, RemoveEntriesLesser
  <1> HIDE DEF B, out
  <1>6. /\ Good(out) /\ Lesser(L, out) /\ out.prop = L.prop /\ out.away = L.away
        /\ ticket # NoQueue => \A e \in DOMAIN out.data[ticket] : e \notin Range(pr.entries)
    <2>1. CASE ticket = NoQueue
      BY <1>2, <1>3, <2>1
    <2>2. CASE ticket # NoQueue
      <3>1. Lesser(L, out)
        BY <1>2, <1>4, <1>5, <2>2, LesserTransitive
      <3>2. QED
        BY <1>2, <1>4, <1>5, <2>2, <3>1 DEF SameButQueue, SameElsewhere
    <2>3. QED
      BY <2>1, <2>2
  <1>7. /\ Known(out) /\ Shrunk(L, out) /\ QLess(L, out) /\ NewGroups(out, 0)
        /\ out.grp = L.grp
    <2>1. GSame(L, out) /\ QLess(L, out)
      BY <1>6 DEF Lesser
    <2>2. Known(out) /\ Shrunk(L, out)
      BY <2>1, SameKnown
    <2>3. NewGroups(out, 0)
      BY <2>1, <2>2, LessNewGroups
    <2>4. QED
      BY <2>1, <2>2, <2>3 DEF GSame
  <1>8. PICK acc : acc.L = N /\ Filling(out, acc, id, Comers(out, id), out.prop[id].group)
    <2> HIDE DEF N
    <2>1. id \in DOMAIN out.prop /\ N = MakeNewGroup(out, id, first, stay)
      BY <1>6 DEF N
    <2>2. QED
      BY <1>6, <1>7, <2>1, GroupFilled
  <1> HIDE DEF N
  <1>9. /\ Good(N) /\ Known(N) /\ QLess(out, N) /\ NewGroups(N, id)
        /\ acc.g \in {NoGroup, id, pr.group}
        /\ \A x \in Players : N.grp[x] \in {L.grp[x], NoGroup}
                              \/ (x \in DOMAIN pr.answer /\ N.grp[x] = acc.g)
    BY <1>6, <1>7, <1>8 DEF Filling, Comers, pr
  <1>10. QLess(L, N)
    BY <1>7, <1>9, QLessTransitive
  <1> DEFINE P == Drop(N.prop, id)
  <1>11. DOMAIN P = DOMAIN N.prop \ {id} /\ \A i \in DOMAIN P : P[i] = N.prop[i]
    BY DEF Drop, Restrict
  <1>12. DOMAIN N = Fields /\ M = [N EXCEPT !.prop = P]
    BY <1>1, <1>9 DEF Good
  <1> HIDE DEF P
  <1>13. /\ DOMAIN M = Fields /\ M.pl = N.pl /\ M.gr = N.gr /\ M.grp = N.grp /\ M.data = N.data
         /\ M.fresh = N.fresh /\ M.cur = N.cur /\ M.chk = N.chk
    BY <1>12 DEF Fields
  <1>14. /\ M.last = N.last /\ M.prop = P /\ M.mem = N.mem /\ M.open = N.open
         /\ M.away = N.away /\ M.before = N.before /\ M.cache = N.cache
    BY <1>12 DEF Fields
  <1>15. Settled(N, M, id)
    BY <1>11, <1>13, <1>14 DEF Settled
  <1>16. Good(M)
    <2>1. PlayersOK(M) /\ ChecksOK(M) /\ M.before \in Nat
      BY <1>9, <1>13, <1>14 DEF Good, PlayersOK, ChecksOK
    <2>2. ProposalsOK(M)
      BY <1>9, <1>11, <1>14 DEF Good, ProposalsOK
    <2>3. ASSUME NEW r \in Queues PROVE QueueOK(M, r)
      <3>1. QueueOK(N, r) /\ SameQueue(N, M, r)
        BY <1>9, <1>13, <1>14 DEF Good, QueuesOK, SameQueue
      <3>2. QED
        BY <3>1, QueueKept
    <2>4. QueuesOK(M)
      BY <1>9, <1>13, <1>14, <2>3 DEF Good, QueuesOK
    <2>5. QED
      BY <1>13, <2>1, <2>2, <2>4 DEF Good
  <1>17. Known(M)
    <2>1. GSame(N, M)
      BY <1>13 DEF GSame
    <2>2. QED
      BY <1>9, <2>1, SameKnown
  <1>18. NewGroups(M, 0)
    <2>1. \A g : Members(M, g) = Members(N, g)
      BY <1>13 DEF Members
    <2>2. \A g : Unlisted(N, g) => Unlisted(M, g)
      BY <1>11, <1>13, <1>14 DEF Unlisted
    <2>3. DOMAIN M.prop = DOMAIN N.prop \ {id} /\ M.last = N.last
      BY <1>11, <1>14
    <2>4. QED
      BY <1>9, <2>1, <2>2, <2>3 DEF NewGroups
  <1>19. Fillable(L, pr.group)
    <2>1. pr.group # NoGroup => pr.group \in LfgGroups /\ pr.group \in Range(pr.entries)
      BY DEF Good, ProposalsOK, ProposalOK, pr
    <2>2. pr.group # NoGroup => ~Unlisted(L, pr.group)
      BY <2>1 DEF Unlisted, pr
    <2>3. QED
      BY <2>1, <2>2 DEF Fillable, NewGroups
  <1>20. ticket # NoQueue => \A e \in DOMAIN M.data[ticket] : e \notin Range(pr.entries)
    <2>1. ticket # NoQueue => DOMAIN N.data[ticket] \subseteq DOMAIN out.data[ticket]
      BY <1>9 DEF QLess, QueueLess
    <2>2. QED
      BY <1>6, <1>13, <2>1
  <1>21. Success(L, M, N, id, acc.g, ticket)
    BY <1>9, <1>10, <1>13, <1>15, <1>16, <1>17, <1>18, <1>19, <1>20 DEF Success, pr
  <1>22. QED
    BY <1>21
-----------------------------------------------------------------------------
(* The search of one queue *)

(* A proposal the search of queue q makes of what L holds.                  *)
NewProposal(L, q, pr) ==
  /\ pr.queue = q /\ Range(pr.entries) \subseteq Listed(L, q)
  /\ DOMAIN pr.answer = UNION {L.data[q][e] : e \in Range(pr.entries)}
  /\ RolesFit(DOMAIN pr.answer) /\ Cardinality(DOMAIN pr.answer) <= MaxSize
  /\ "deny" \notin Range(pr.answer)
  /\ \A p \in DOMAIN pr.answer :
        pr.answer[p] = "agree" => pr.group # NoGroup /\ pr.from[p] = pr.group

(* M is what the search of queue q made of L so far.                        *)
SameBesides(L, M) ==
  /\ DOMAIN M = Fields
  /\ M.pl = L.pl /\ M.gr = L.gr /\ M.mem = L.mem /\ M.grp = L.grp /\ M.open = L.open
  /\ M.away = L.away /\ M.chk = L.chk /\ M.before = L.before /\ M.data = L.data
ProposalsMore(L, M, q) ==
  /\ M.last \in Nat /\ M.last >= L.last
  /\ M.last > L.last => M.last \in DOMAIN M.prop
  /\ DOMAIN L.prop \subseteq DOMAIN M.prop
  /\ \A i \in DOMAIN L.prop : M.prop[i] = L.prop[i]
  /\ \A i \in DOMAIN M.prop \ DOMAIN L.prop : i > L.last /\ NewProposal(L, q, M.prop[i])
Searched(L, M, q) ==
  /\ Good(M) /\ SameBesides(L, M) /\ ProposalsMore(L, M, q)
  /\ Listed(M, q) \subseteq Listed(L, q)
  /\ \A r \in Queues \ {q} : Listed(M, r) = Listed(L, r)

(* What the search may count on.                                            *)
Searchable(L, q) ==
  /\ Good(L) /\ PartyIdle(L) /\ q \in Queues
  /\ \A e \in DOMAIN L.data[q] : RolesFit(L.data[q][e])
CheckList(L, q, check) == check \in Seq(Listed(L, q)) /\ check # <<>>

LEMMA SearchedItself ==
  ASSUME NEW L, Good(L), NEW q
  PROVE  Searched(L, L, q)
  BY DEF Searched, SameBesides, ProposalsMore, Good, ProposalsOK

(* A step of the search changes the queue's stores only.                    *)
LEMMA QueueSearched ==
  ASSUME NEW L, NEW q, Searchable(L, q), NEW M, Searched(L, M, q), NEW N,
         SameElsewhere(M, N), QueueDomains(N), N.data = M.data,
         \A r \in Queues \ {q} : SameQueue(M, N, r),
         N.fresh[q] \in Seq(Entries), N.cur[q] \in Seq(Entries),
         Listed(N, q) \subseteq Listed(L, q),
         Range(N.cache[q]) \subseteq Verdicts,
         UNION DOMAIN N.cache[q] \subseteq DOMAIN L.data[q]
  PROVE  Searched(L, N, q)
  <1>1. Good(M) /\ SameBesides(L, M) /\ q \in Queues /\ Good(L)
    BY DEF Searched, Searchable
  <1>2. QueueOK(N, q)
    <2>1. QueueOK(L, q) /\ N.data[q] = L.data[q]
      BY <1>1 DEF Good, QueuesOK, SameBesides
    <2>2. QED
      BY <2>1 DEF QueueOK
  <1>3. SameButQueue(M, N, q)
    BY DEF SameButQueue
  <1>4. Good(N)
    BY <1>1, <1>2, <1>3, OneQueueGood
  <1>5. SameBesides(L, N)
    BY <1>1 DEF SameBesides, SameElsewhere
  <1>6. ProposalsMore(L, N, q)
    BY DEF Searched, ProposalsMore, SameElsewhere
  <1>7. \A r \in Queues \ {q} : Listed(N, r) = Listed(L, r)
    BY DEF Searched, SameQueue, Listed
  <1>8. QED
    BY <1>4, <1>5, <1>6, <1>7 DEF Searched

LEMMA ListedInData ==
  ASSUME NEW L, NEW q, Searchable(L, q)
  PROVE  Listed(L, q) \subseteq DOMAIN L.data[q] /\ Listed(L, q) \subseteq Entries
  BY ListedTyped DEF Searchable, Good, QueuesOK, QueueOK

(* A verdict is remembered.                                                 *)
Verified(L, r, q) == r.v \in Verdicts /\ Searched(L, r.L, q)

LEMMA CachedSearched ==
  ASSUME NEW L, NEW q, Searchable(L, q), NEW M, Searched(L, M, q), NEW check,
         CheckList(L, q, check), NEW v \in Verdicts, NEW r, r = Cached(M, q, check, v)
  PROVE  Verified(L, r, q) /\ r.v = v
  <1> DEFINE c == [k \in DOMAIN M.cache[q] \cup {Range(check)} |->
                     IF k = Range(check) THEN v ELSE M.cache[q][k]]
             C == [M.cache EXCEPT ![q] = c]
             N == [M EXCEPT !.cache = C]
  <1>1. r.v = v /\ r.L = N
    BY DEF Cached
  <1>2. /\ Good(M) /\ q \in Queues /\ DOMAIN M = Fields /\ QueueOK(M, q) /\ M.data = L.data
        /\ QueueDomains(M)
    BY DEF Searched, Searchable, Good, QueuesOK, SameBesides, QueueDomains
  <1>3. DOMAIN C = Queues /\ C[q] = c /\ \A x \in Queues \ {q} : C[x] = M.cache[x]
    BY <1>2 DEF QueueDomains
  <1>4. Range(c) \subseteq Verdicts
    <2>1. \A k \in DOMAIN M.cache[q] : M.cache[q][k] \in Verdicts
      BY <1>2 DEF QueueOK, Range
    <2>2. \A k \in DOMAIN c : c[k] \in Verdicts
      BY <2>1
    <2> HIDE DEF c
    <2>3. QED
      BY <2>2 DEF Range
  <1>5. UNION DOMAIN c \subseteq DOMAIN L.data[q]
    <2>1. Range(check) \subseteq DOMAIN L.data[q]
      <3>1. Range(check) \subseteq Listed(L, q)
        BY RangeInside DEF CheckList
      <3>2. QED
        BY <3>1, ListedInData
    <2>2. UNION DOMAIN M.cache[q] \subseteq DOMAIN L.data[q]
      BY <1>2 DEF QueueOK
    <2>3. DOMAIN c = DOMAIN M.cache[q] \cup {Range(check)}
      OBVIOUS
    <2> HIDE DEF c
    <2>4. QED
      BY <2>1, <2>2, <2>3
  <1> HIDE DEF C, c
  <1>6. /\ SameElsewhere(M, N) /\ N.data = M.data /\ N.fresh = M.fresh /\ N.cur = M.cur
        /\ N.cache = C
    BY <1>2 DEF Fields, SameElsewhere
  <1> HIDE DEF N
  <1>7. QueueDomains(N) /\ \A x \in Queues \ {q} : SameQueue(M, N, x)
    BY <1>2, <1>3, <1>6 DEF QueueDomains, SameQueue
  <1>8. Listed(N, q) \subseteq Listed(L, q)
    BY <1>6 DEF Listed, Searched
  <1>9. N.fresh[q] \in Seq(Entries) /\ N.cur[q] \in Seq(Entries)
    BY <1>2, <1>6 DEF QueueOK
  <1>10. Searched(L, N, q)
    BY <1>3, <1>4, <1>5, <1>6, <1>7, <1>8, <1>9, QueueSearched
  <1>11. QED
    BY <1>1, <1>10 DEF Verified
(* AddProposal: the players of the entries, the group each is in, and the   *)
(* dungeon group that is filled up.                                         *)
Together(L, q, check) == UNION {L.data[q][e] : e \in Range(check)}
FromGroup(L, q, check, p) ==
  LET E == {e \in Range(check) \cap Groups : p \in L.data[q][e]}
  IN  IF E = {} THEN NoGroup ELSE CHOOSE e \in E : TRUE
OwnGroup(L, check) ==
  LET own == {e \in Range(check) : IsLfgGroup(L, e)}
  IN  IF own = {} THEN NoGroup ELSE CHOOSE e \in own : TRUE
Made(L, q, check, isNew) ==
  [queue |-> q, entries |-> check, group |-> OwnGroup(L, check), isNew |-> isNew,
   from |-> [p \in Together(L, q, check) |-> FromGroup(L, q, check, p)],
   answer |-> [p \in Together(L, q, check) |->
                 IF /\ ~isNew /\ FromGroup(L, q, check, p) = OwnGroup(L, check)
                    /\ OwnGroup(L, check) # NoGroup
                 THEN "agree" ELSE "pending"]]
WithProposal(L, pr) ==
  [i \in DOMAIN L.prop \cup {L.last + 1} |-> IF i = L.last + 1 THEN pr ELSE L.prop[i]]
WithoutListed(L, q, E, P) ==
  [L EXCEPT !.fresh[q] = Minus(@, E), !.cur[q] = Minus(@, E), !.last = @ + 1, !.prop = P]

LEMMA AddProposalIs ==
  ASSUME NEW L, NEW q, NEW check, NEW isNew
  PROVE  AddProposal(L, q, check, isNew) =
           WithoutListed(L, q, Range(check), WithProposal(L, Made(L, q, check, isNew)))
  BY DEF AddProposal, WithoutListed, WithProposal, Made, Together, FromGroup, OwnGroup

LEMMA FromGroupOf ==
  ASSUME NEW L, NEW q, Good(L), q \in Queues, NEW check, Range(check) \subseteq DOMAIN L.data[q],
         NEW p \in Together(L, q, check)
  PROVE  /\ p \in Players /\ FromGroup(L, q, check, p) \in Groups \cup {NoGroup}
         /\ FromGroup(L, q, check, p) = NoGroup => p \in Range(check)
  <1> DEFINE E == {e \in Range(check) \cap Groups : p \in L.data[q][e]}
  <1>1. PICK e \in Range(check) : p \in L.data[q][e]
    BY DEF Together
  <1>2. DataOK(L.data[q])
    BY DEF Good, QueuesOK, QueueOK
  <1>3. p \in Players /\ (e \in Players => p = e) /\ e \in Entries
    BY <1>1, <1>2 DEF DataOK
  <1>4. FromGroup(L, q, check, p) = IF E = {} THEN NoGroup ELSE CHOOSE x \in E : TRUE
    BY DEF FromGroup
  <1>5. E # {} => FromGroup(L, q, check, p) \in E
    <2> HIDE DEF E
    <2> QED
      BY <1>4
  <1>6. CASE E = {}
    <2>1. e \notin Groups
      BY <1>1, <1>6
    <2>2. p \in Range(check)
      BY <1>1, <1>3, <2>1 DEF Entries
    <2>3. FromGroup(L, q, check, p) = NoGroup
      BY <1>4, <1>6
    <2>4. QED
      BY <1>3, <2>2, <2>3
  <1>7. CASE E # {}
    <2>1. FromGroup(L, q, check, p) \in Groups
      BY <1>5, <1>7
    <2>2. QED
      BY <1>3, <2>1, GroupNames
  <1>8. QED
    BY <1>6, <1>7

LEMMA OwnGroupOf ==
  ASSUME NEW L, PartyIdle(L), NEW check
  PROVE  /\ OwnGroup(L, check) \in LfgGroups \cup {NoGroup}
         /\ OwnGroup(L, check) # NoGroup => OwnGroup(L, check) \in Range(check)
  <1> DEFINE own == {e \in Range(check) : IsLfgGroup(L, e)}
  <1>1. own \subseteq LfgGroups
    BY DEF IsLfgGroup, PartyIdle, Groups
  <1>2. own \subseteq Range(check)
    OBVIOUS
  <1>3. OwnGroup(L, check) = IF own = {} THEN NoGroup ELSE CHOOSE e \in own : TRUE
    BY DEF OwnGroup
  <1> HIDE DEF own
  <1>4. own # {} => OwnGroup(L, check) \in own
    BY <1>3
  <1>5. QED
    BY <1>1, <1>2, <1>3, <1>4

(* The new proposal's players are few enough and fit.                       *)
Fitting(L, q, check) ==
  RolesFit(Together(L, q, check)) /\ Cardinality(Together(L, q, check)) <= MaxSize

LEMMA SingleEntry ==
  ASSUME NEW L, NEW q, Searchable(L, q), NEW check, CheckList(L, q, check), Len(check) = 1,
         NumPlayers(L, q, check) <= MaxSize
  PROVE  Fitting(L, q, check)
  <1> DEFINE S == Together(L, q, check)
             T == {x \in (1..Len(check)) \X Players : x[2] \in L.data[q][check[x[1]]]}
             e == check[1]
  <1>1. /\ DOMAIN check = 1..1 /\ Range(check) = {e} /\ e \in DOMAIN L.data[q]
    <2>1. check \in Seq(Listed(L, q))
      BY DEF CheckList
    <2>2. DOMAIN check = 1..1 /\ Range(check) \subseteq Listed(L, q)
      BY <2>1, RangeInside
    <2>3. Range(check) = {e}
      BY <2>2 DEF Range
    <2>4. QED
      BY <2>2, <2>3, ListedInData
  <1>2. S = L.data[q][e]
    BY <1>1 DEF Together
  <1>3. S \subseteq Players
    <2>1. DataOK(L.data[q])
      BY DEF Searchable, Good, QueuesOK, QueueOK
    <2>2. QED
      BY <1>1, <1>2, <2>1 DEF DataOK
  <1>4. IsFiniteSet(T)
    <2>1. IsFiniteSet(1..Len(check)) /\ IsFiniteSet(Players)
      <3>1. 1 \in Int
        OBVIOUS
      <3>2. IsFiniteSet(1..1)
        BY <3>1, FS_Interval
      <3>3. QED
        BY <3>2, FinderAssumption
    <2>2. IsFiniteSet((1..Len(check)) \X Players)
      BY <2>1, FS_Product
    <2>3. QED
      BY <2>2, FS_Subset
  <1>5. Cardinality(S) <= Cardinality(T)
    <2> DEFINE f == [p \in S |-> <<1, p>>]
    <2>1. ASSUME NEW p \in S PROVE <<1, p>> \in T
      BY <1>1, <1>2, <1>3
    <2>2. f \in [S -> T]
      BY <2>1
    <2>3. \A a, b \in S : f[a] = f[b] => a = b
      OBVIOUS
    <2>4. f \in Injection(S, T)
      <3> HIDE DEF f, S, T
      <3> QED
        BY <2>2, <2>3 DEF Injection, IsInjective
    <2> HIDE DEF f, S, T
    <2>5. QED
      BY <1>4, <2>4, FS_Injection
  <1>6. Cardinality(T) <= MaxSize
    BY DEF NumPlayers
  <1>7. RolesFit(S)
    BY <1>1, <1>2 DEF Searchable
  <1>8. Cardinality(S) \in Nat /\ Cardinality(T) \in Nat
    <2>1. IsFiniteSet(S)
      BY <1>3, FinderAssumption, FS_Subset
    <2> HIDE DEF S, T
    <2>2. QED
      BY <1>4, <2>1, FS_CardinalityType
  <1>9. Cardinality(S) <= MaxSize
    <2> HIDE DEF S, T
    <2>1. MaxSize \in Nat
      BY FinderAssumption
    <2>2. QED
      BY <1>5, <1>6, <1>8, <2>1
  <1>10. QED
    BY <1>7, <1>9 DEF Fitting

LEMMA MadeProposal ==
  ASSUME NEW L, NEW q, Searchable(L, q), NEW check, CheckList(L, q, check), Fitting(L, q, check),
         NEW isNew, NEW pr, pr = Made(L, q, check, isNew)
  PROVE  ProposalOK(pr) /\ NewProposal(L, q, pr) /\ pr.entries = check
  <1> DEFINE S == Together(L, q, check)
             g == OwnGroup(L, check)
  <1>1. check \in Seq(Listed(L, q)) /\ Range(check) \subseteq Listed(L, q)
        /\ Range(check) \subseteq DOMAIN L.data[q] /\ check \in Seq(Entries)
    <2>1. check \in Seq(Listed(L, q))
      BY DEF CheckList
    <2>2. Range(check) \subseteq Listed(L, q)
      BY <2>1, RangeInside
    <2>3. QED
      BY <2>1, <2>2, ListedInData
  <1>2. /\ Good(L) /\ q \in Queues /\ PartyIdle(L)
    BY DEF Searchable
  <1>3. \A p \in S : /\ p \in Players /\ FromGroup(L, q, check, p) \in Groups \cup {NoGroup}
                     /\ FromGroup(L, q, check, p) = NoGroup => p \in Range(check)
    BY <1>1, <1>2, FromGroupOf
  <1>4. g \in LfgGroups \cup {NoGroup} /\ (g # NoGroup => g \in Range(check))
    BY <1>2, OwnGroupOf
  <1>5. /\ DOMAIN pr = {"queue", "entries", "group", "isNew", "from", "answer"}
        /\ pr.queue = q /\ pr.entries = check /\ pr.group = g
        /\ DOMAIN pr.from = S /\ DOMAIN pr.answer = S
    BY DEF Made
  <1>6. \A p \in S : pr.from[p] = FromGroup(L, q, check, p)
    BY DEF Made
  <1>7. \A p \in S : /\ pr.answer[p] \in {"agree", "pending"}
                     /\ pr.answer[p] = "agree" => pr.from[p] = g /\ g # NoGroup
    BY DEF Made
  <1>8. "deny" \notin Range(pr.answer)
    BY <1>5, <1>7 DEF Range
  <1>9. RolesFit(S) /\ Cardinality(S) <= MaxSize
    BY DEF Fitting
  <1>10. S = UNION {L.data[q][e] : e \in Range(check)}
    BY DEF Together
  <1> HIDE DEF S, g
  <1>11. ProposalOK(pr)
    BY <1>1, <1>2, <1>3, <1>4, <1>5, <1>6 DEF ProposalOK
  <1>12. NewProposal(L, q, pr)
    BY <1>1, <1>5, <1>7, <1>8, <1>9, <1>10 DEF NewProposal
  <1>13. QED
    BY <1>5, <1>11, <1>12

LEMMA ProposalAdded ==
  ASSUME NEW L, NEW q, Searchable(L, q), NEW M, Searched(L, M, q), NEW check,
         CheckList(L, q, check), NEW pr, ProposalOK(pr), NewProposal(L, q, pr),
         pr.entries = check, NEW N,
         N = WithoutListed(M, q, Range(check), WithProposal(M, pr))
  PROVE  Searched(L, N, q)
  <1> DEFINE P == WithProposal(M, pr)
             F == [M.fresh EXCEPT ![q] = Minus(@, Range(check))]
             C == [M.cur EXCEPT ![q] = Minus(@, Range(check))]
  <1>1. /\ Good(M) /\ q \in Queues /\ DOMAIN M = Fields /\ QueueDomains(M) /\ QueueOK(M, q)
        /\ M.last \in Nat /\ L.last \in Nat
    BY DEF Searched, Searchable, Good, QueuesOK, QueueDomains, ProposalsOK
  <1>2. /\ DOMAIN N = Fields /\ N.pl = M.pl /\ N.gr = M.gr /\ N.mem = M.mem /\ N.grp = M.grp
        /\ N.open = M.open /\ N.away = M.away /\ N.chk = M.chk /\ N.before = M.before
    BY <1>1 DEF WithoutListed, Fields
  <1>3. /\ N.data = M.data /\ N.cache = M.cache /\ N.fresh = F /\ N.cur = C
        /\ N.last = M.last + 1 /\ N.prop = P
    BY <1>1 DEF WithoutListed, Fields
  <1>4. /\ DOMAIN F = Queues /\ F[q] = Minus(M.fresh[q], Range(check))
        /\ DOMAIN C = Queues /\ C[q] = Minus(M.cur[q], Range(check))
        /\ \A r \in Queues \ {q} : F[r] = M.fresh[r] /\ C[r] = M.cur[r]
    BY <1>1 DEF QueueDomains
  <1>5. /\ DOMAIN P = DOMAIN M.prop \cup {M.last + 1} /\ P[M.last + 1] = pr
        /\ \A i \in DOMAIN M.prop : i # M.last + 1 => P[i] = M.prop[i]
    BY DEF WithProposal
  <1> HIDE DEF F, C, P
  <1>6. /\ F[q] \in Seq(Entries) /\ Range(F[q]) = Range(M.fresh[q]) \ Range(check)
        /\ C[q] \in Seq(Entries) /\ Range(C[q]) = Range(M.cur[q]) \ Range(check)
    BY <1>1, <1>4, MinusElements DEF QueueOK
  <1>7. Listed(N, q) \subseteq Listed(M, q) /\ \A r \in Queues \ {q} : Listed(N, r) = Listed(M, r)
    BY <1>3, <1>4, <1>6 DEF Listed
  <1>8. QueuesOK(N)
    <2>1. QueueOK(N, q)
      <3>1. N.fresh[q] \in Seq(Entries) /\ N.cur[q] \in Seq(Entries)
        BY <1>3, <1>6
      <3>2. N.data[q] = M.data[q] /\ N.cache[q] = M.cache[q]
        BY <1>3
      <3>3. QED
        BY <1>1, <1>7, <3>1, <3>2 DEF QueueOK
    <2>2. ASSUME NEW r \in Queues \ {q} PROVE QueueOK(N, r)
      <3>1. SameQueue(M, N, r)
        BY <1>3, <1>4 DEF SameQueue
      <3>2. QueueOK(M, r)
        BY <1>1 DEF Good, QueuesOK
      <3>3. QED
        BY <3>1, <3>2, QueueKept
    <2>3. QED
      BY <1>1, <1>3, <1>4, <2>1, <2>2 DEF QueuesOK, QueueDomains
  <1>9. DOMAIN M.prop \subseteq 1..M.last
    BY <1>1 DEF Good, ProposalsOK
  <1>10. \A i \in DOMAIN M.prop : P[i] = M.prop[i]
    BY <1>1, <1>5, <1>9
  <1>11. ProposalsOK(N)
    <2>1. DOMAIN P \subseteq 1..(M.last + 1)
      BY <1>1, <1>5, <1>9
    <2>2. \A i \in DOMAIN P : ProposalOK(P[i])
      BY <1>1, <1>5, <1>10 DEF Good, ProposalsOK
    <2>3. QED
      BY <1>1, <1>3, <2>1, <2>2 DEF ProposalsOK
  <1>12. Good(N)
    <2>1. PlayersOK(N) /\ ChecksOK(N) /\ N.before \in Nat
      BY <1>1, <1>2 DEF Good, PlayersOK, ChecksOK
    <2>2. QED
      BY <1>2, <1>8, <1>11, <2>1 DEF Good
  <1>13. SameBesides(L, N)
    BY <1>2, <1>3 DEF Searched, SameBesides
  <1>14. ProposalsMore(L, N, q)
    <2>1. /\ M.last >= L.last /\ DOMAIN L.prop \subseteq DOMAIN M.prop
          /\ \A i \in DOMAIN L.prop : M.prop[i] = L.prop[i]
          /\ \A i \in DOMAIN M.prop \ DOMAIN L.prop : i > L.last /\ NewProposal(L, q, M.prop[i])
      BY DEF Searched, ProposalsMore
    <2>2. N.last \in Nat /\ N.last >= L.last /\ N.last \in DOMAIN N.prop
      BY <1>1, <1>3, <1>5, <2>1
    <2>3. DOMAIN L.prop \subseteq DOMAIN N.prop /\ \A i \in DOMAIN L.prop : N.prop[i] = L.prop[i]
      BY <1>3, <1>5, <1>10, <2>1
    <2>4. ASSUME NEW i \in DOMAIN N.prop \ DOMAIN L.prop
          PROVE  i > L.last /\ NewProposal(L, q, N.prop[i])
      <3>1. CASE i \in DOMAIN M.prop
        BY <1>3, <1>10, <2>1, <3>1
      <3>2. CASE i = M.last + 1
        <4>1. i > L.last
          BY <1>1, <2>1, <3>2
        <4>2. N.prop[i] = pr
          BY <1>3, <1>5, <3>2
        <4>3. QED
          BY <4>1, <4>2
      <3>3. QED
        BY <1>3, <1>5, <3>1, <3>2
    <2>5. QED
      BY <2>2, <2>3, <2>4 DEF ProposalsMore
  <1>15. QED
    BY <1>7, <1>12, <1>13, <1>14 DEF Searched

(* What the search still holds can be searched like what it began with.     *)
LEMMA SearchedOn ==
  ASSUME NEW L, NEW q, Searchable(L, q), NEW M, Searched(L, M, q)
  PROVE  /\ \A check : Together(M, q, check) = Together(L, q, check)
         /\ \A check : NumPlayers(M, q, check) = NumPlayers(L, q, check)
         /\ \A check : Fitting(M, q, check) = Fitting(L, q, check)
         /\ \A check, isNew : Made(M, q, check, isNew) = Made(L, q, check, isNew)
         /\ \A check : AllQueued(M, check, q) = AllQueued(L, check, q)
  <1>1. M.data = L.data /\ M.pl = L.pl /\ M.gr = L.gr
    BY DEF Searched, SameBesides
  <1>2. /\ \A check : Together(M, q, check) = Together(L, q, check)
        /\ \A check : NumPlayers(M, q, check) = NumPlayers(L, q, check)
    BY <1>1 DEF Together, NumPlayers
  <1>3. \A check : Fitting(M, q, check) = Fitting(L, q, check)
    BY <1>2 DEF Fitting
  <1>4. \A check : OwnGroup(M, check) = OwnGroup(L, check)
    BY <1>1 DEF OwnGroup, IsLfgGroup
  <1>5. \A check, p : FromGroup(M, q, check, p) = FromGroup(L, q, check, p)
    BY <1>1 DEF FromGroup
  <1>6. ASSUME NEW check, NEW isNew PROVE Made(M, q, check, isNew) = Made(L, q, check, isNew)
    <2> DEFINE T == Together(L, q, check)
               g == OwnGroup(L, check)
               from(K) == [p \in T |-> FromGroup(K, q, check, p)]
               answer(K) == [p \in T |->
                               IF /\ ~isNew /\ FromGroup(K, q, check, p) = g
                                  /\ g # NoGroup
                               THEN "agree" ELSE "pending"]
               made(K) == [queue |-> q, entries |-> check, group |-> g, isNew |-> isNew,
                           from |-> from(K), answer |-> answer(K)]
    <2>1. from(M) = from(L) /\ answer(M) = answer(L)
      BY <1>5
    <2>2. made(M) = made(L)
      <3> HIDE DEF from, answer
      <3> QED
        BY <2>1
    <2>3. Made(L, q, check, isNew) = made(L)
      BY DEF Made
    <2>4. Made(M, q, check, isNew) = made(M)
      <3>1. Together(M, q, check) = T /\ OwnGroup(M, check) = g
        BY <1>2, <1>4
      <3> HIDE DEF T, g
      <3>2. QED
        BY <3>1 DEF Made
    <2>5. QED
      BY <2>2, <2>3, <2>4
  <1>7. \A check : AllQueued(M, check, q) = AllQueued(L, check, q)
    BY <1>1 DEF AllQueued, GetState
  <1>8. QED
    BY <1>2, <1>3, <1>6, <1>7

LEMMA NumPlayersFinite ==
  ASSUME NEW L, NEW q, NEW T, NEW check \in Seq(T)
  PROVE  NumPlayers(L, q, check) \in Nat
  <1> DEFINE P == (1..Len(check)) \X Players
             A == {x \in P : x[2] \in L.data[q][check[x[1]]]}
  <1>1. 1 \in Int /\ Len(check) \in Int
    BY RangeInside
  <1>2. IsFiniteSet(1..Len(check)) /\ IsFiniteSet(Players)
    BY <1>1, FS_Interval, FinderAssumption
  <1>3. IsFiniteSet(P)
    BY <1>2, FS_Product
  <1>4. A \subseteq P
    OBVIOUS
  <1>5. NumPlayers(L, q, check) = Cardinality(A)
    BY DEF NumPlayers
  <1> HIDE DEF A, P
  <1>6. IsFiniteSet(A)
    BY <1>3, <1>4, FS_Subset
  <1>7. QED
    BY <1>5, <1>6, FS_CardinalityType

(* CheckCompatibility of one list: no proposal, or one that fits.           *)
LEMMA CheckOneCases ==
  ASSUME NEW L, NEW q, NEW check, NEW r, r = CheckOne(L, q, check)
  PROVE  \/ \E v \in {"less", "no", "bad"} : r = Cached(L, q, check, v)
         \/ /\ ~(NumPlayers(L, q, check) > MaxSize)
            /\ \/ ~(Len(check) > 1)
               \/ /\ Cardinality(Together(L, q, check)) = NumPlayers(L, q, check)
                  /\ RolesFit(Together(L, q, check))
            /\ \E isNew : r = Cached(AddProposal(L, q, check, isNew), q, check, "match")
  <1> DEFINE n == NumPlayers(L, q, check)
             S == Together(L, q, check)
             lfgGroups == Cardinality({i \in DOMAIN check : IsLfgGroup(L, check[i])})
             isNew == lfgGroups # 1 \/ GetOldState(L, check[1], q) # "dungeon"
             enough == n >= (IF isNew THEN MaxSize ELSE MinSize)
             single == Len(check) = 1 /\ ~enough
             many == lfgGroups > 1 \/ n > MaxSize
             unfit == Len(check) > 1 /\ (Cardinality(S) # n \/ ~RolesFit(S))
             waits == AllQueued(L, Range(check), q)
             no == Cached(L, q, check, "no")
             less == Cached(L, q, check, "less")
             bad == Cached(L, q, check, "bad")
             match == Cached(AddProposal(L, q, check, isNew), q, check, "match")
  <1>1. r = CASE single -> less [] many -> no [] unfit -> no [] ~enough -> less
              [] ~waits -> bad [] OTHER -> match
    BY DEF CheckOne, Together
  <1>2. many \/ n > MaxSize => many
    OBVIOUS
  <1>3. \/ unfit \/ ~(Len(check) > 1) \/ (Cardinality(S) = n /\ RolesFit(S))
    OBVIOUS
  <1>4. r = match => \E new : r = Cached(AddProposal(L, q, check, new), q, check, "match")
    OBVIOUS
  <1>5. n > MaxSize => many
    OBVIOUS
  <1>6. r \in {less, no, bad} => \E v \in {"less", "no", "bad"} : r = Cached(L, q, check, v)
    OBVIOUS
  <1> HIDE DEF n, S, isNew, enough, single, many, unfit, waits, no, less, bad, match
  <1>7. r \in {less, no, bad} \/ (r = match /\ ~many /\ ~unfit)
    BY <1>1
  <1>8. QED
    BY <1>3, <1>4, <1>5, <1>6, <1>7 DEF n, S

LEMMA CheckOneVerified ==
  ASSUME NEW L, NEW q, Searchable(L, q), NEW M, Searched(L, M, q), NEW check,
         CheckList(L, q, check), NEW r, r = CheckOne(M, q, check)
  PROVE  Verified(L, r, q)
  <1>1. CASE \E v \in {"less", "no", "bad"} : r = Cached(M, q, check, v)
    <2>1. PICK v \in {"less", "no", "bad"} : r = Cached(M, q, check, v)
      BY <1>1
    <2>2. v \in Verdicts
      BY DEF Verdicts
    <2>3. QED
      BY <2>1, <2>2, CachedSearched
  <1>2. CASE /\ ~(NumPlayers(M, q, check) > MaxSize)
             /\ \/ ~(Len(check) > 1)
                \/ /\ Cardinality(Together(M, q, check)) = NumPlayers(M, q, check)
                   /\ RolesFit(Together(M, q, check))
             /\ \E isNew : r = Cached(AddProposal(M, q, check, isNew), q, check, "match")
    <2>1. PICK isNew : r = Cached(AddProposal(M, q, check, isNew), q, check, "match")
      BY <1>2
    <2>2. check \in Seq(Listed(L, q)) /\ Len(check) \in Nat /\ Len(check) # 0
      <3>1. check \in Seq(Listed(L, q)) /\ check # <<>>
        BY DEF CheckList
      <3>2. Len(check) \in Nat
        BY <3>1, RangeInside
      <3>3. QED
        BY <3>1, <3>2
    <2>3. /\ Together(M, q, check) = Together(L, q, check)
          /\ NumPlayers(M, q, check) = NumPlayers(L, q, check)
      BY SearchedOn
    <2>4. NumPlayers(L, q, check) \in Nat /\ MaxSize \in Nat
      BY <2>2, NumPlayersFinite, FinderAssumption
    <2>5. NumPlayers(L, q, check) <= MaxSize
      BY <1>2, <2>3, <2>4
    <2>6. Fitting(L, q, check)
      <3>1. CASE Len(check) = 1
        BY <2>5, <3>1, SingleEntry
      <3>2. CASE Len(check) # 1
        <4>1. Len(check) > 1
          <5> DEFINE k == Len(check)
          <5>1. k \in Nat /\ k # 0 /\ k # 1
            BY <2>2, <3>2
          <5> HIDE DEF k
          <5>2. k > 1
            BY <5>1
          <5>3. QED
            BY <5>2 DEF k
        <4>2. QED
          BY <1>2, <2>3, <2>5, <4>1 DEF Fitting
      <3>3. QED
        BY <3>1, <3>2
    <2> DEFINE pr == Made(L, q, check, isNew)
               N == WithoutListed(M, q, Range(check), WithProposal(M, pr))
    <2>7. ProposalOK(pr) /\ NewProposal(L, q, pr) /\ pr.entries = check
      <3> HIDE DEF pr
      <3>1. pr = Made(L, q, check, isNew)
        BY DEF pr
      <3>2. QED
        BY <2>6, <3>1, MadeProposal
    <2>8. AddProposal(M, q, check, isNew) = N
      BY AddProposalIs, SearchedOn
    <2> HIDE DEF pr
    <2>9. Searched(L, N, q)
      <3> HIDE DEF N
      <3>1. N = WithoutListed(M, q, Range(check), WithProposal(M, pr))
        BY DEF N
      <3>2. QED
        BY <2>7, <3>1, ProposalAdded
    <2> HIDE DEF N
    <2>10. "match" \in Verdicts /\ r = Cached(N, q, check, "match")
      BY <2>1, <2>8 DEF Verdicts
    <2> DEFINE v == "match"
    <2>11. v \in Verdicts /\ r = Cached(N, q, check, v)
      BY <2>10
    <2> HIDE DEF v
    <2>12. QED
      BY <2>9, <2>11, CachedSearched
  <1>3. QED
    BY <1>1, <1>2, CheckOneCases

LEMMA CheckLongerVerified ==
  ASSUME NEW L, NEW q, Searchable(L, q), NEW s, Verified(L, s, q), NEW check,
         CheckList(L, q, check), NEW r, r = CheckLonger(s, q, check)
  PROVE  Verified(L, r, q)
  <1> DEFINE v == "no"
  <1>1. v \in Verdicts
    BY DEF Verdicts
  <1>2. r = IF s.v = v THEN Cached(s.L, q, check, v) ELSE CheckOne(s.L, q, check)
    BY DEF CheckLonger
  <1>3. Searched(L, s.L, q)
    BY DEF Verified
  <1> HIDE DEF v
  <1>4. CASE s.v = v
    <2>1. r = Cached(s.L, q, check, v)
      BY <1>2, <1>4
    <2>2. QED
      BY <1>1, <1>3, <2>1, CachedSearched
  <1>5. CASE s.v # v
    <2>1. r = CheckOne(s.L, q, check)
      BY <1>2, <1>5
    <2>2. QED
      BY <1>3, <2>1, CheckOneVerified
  <1>6. QED
    BY <1>4, <1>5

(* CheckCompatibility, tail by tail.                                        *)
TailOf(s, k) == SubSeq(s, Len(s) - k + 1, Len(s))

IsCheckedUpTo(f, L, q, check) ==
  f = [i \in 1..Len(check) |-> (IF i <= 2 THEN CheckOne(L, q, TailOf(check, i)) ELSE CheckLonger(f[i - 1], q, TailOf(check, i)))]
CheckedUpTo(L, q, check) == CHOOSE f : IsCheckedUpTo(f, L, q, check)

LEMMA CheckedUpToExists ==
  ASSUME NEW L, NEW q, NEW check, Len(check) \in Nat
  PROVE  \E f : IsCheckedUpTo(f, L, q, check)
  <1> DEFINE Fills(g, k) == \A i \in 1..k : g[i] = (IF i <= 2 THEN CheckOne(L, q, TailOf(check, i)) ELSE CheckLonger(g[i - 1], q, TailOf(check, i)))
             G == {k \in Nat : \E g : Fills(g, k)}
  <1>1. 0 \in G
    <2>1. Fills([i \in 0..0 |-> CheckOne(L, q, TailOf(check, i))], 0)
      OBVIOUS
    <2>2. \E g : Fills(g, 0)
      <3> HIDE DEF Fills
      <3> QED
        BY <2>1
    <2> HIDE DEF Fills
    <2>3. QED
      BY <2>2
  <1>2. ASSUME NEW k \in Nat, k \in G PROVE k + 1 \in G
    <2>1. PICK g : Fills(g, k)
      BY <1>2
    <2> DEFINE h == [i \in 1..(k + 1) |-> IF i <= k THEN g[i] ELSE (IF i <= 2 THEN CheckOne(L, q, TailOf(check, i)) ELSE CheckLonger(g[i - 1], q, TailOf(check, i)))]
    <2>2. ASSUME NEW i \in 1..(k + 1) PROVE h[i] = (IF i <= 2 THEN CheckOne(L, q, TailOf(check, i)) ELSE CheckLonger(h[i - 1], q, TailOf(check, i)))
      <3>1. i \in Nat /\ h[i] = IF i <= k THEN g[i] ELSE (IF i <= 2 THEN CheckOne(L, q, TailOf(check, i)) ELSE CheckLonger(g[i - 1], q, TailOf(check, i)))
        OBVIOUS
      <3>2. i <= k => i \in 1..k
        BY <3>1
      <3>3. h[i] = (IF i <= 2 THEN CheckOne(L, q, TailOf(check, i)) ELSE CheckLonger(g[i - 1], q, TailOf(check, i)))
        BY <2>1, <3>1, <3>2
      <3>4. ~(i <= 2) => i - 1 \in 1..(k + 1) /\ i - 1 <= k
        BY <3>1
      <3>5. ~(i <= 2) => h[i - 1] = g[i - 1]
        BY <3>4
      <3> HIDE DEF h
      <3>6. QED
        BY <3>3, <3>5
    <2> HIDE DEF h
    <2>3. Fills(h, k + 1)
      BY <2>2
    <2>4. \E g1 : Fills(g1, k + 1)
      <3> HIDE DEF Fills
      <3> QED
        BY <2>3
    <2> HIDE DEF Fills
    <2>5. QED
      BY <2>4
  <1>3. Nat \subseteq G
    <2> HIDE DEF G
    <2> QED
      BY <1>1, <1>2, NumberInduction
  <1>4. PICK g : Fills(g, Len(check))
    BY <1>3
  <1> DEFINE h == [i \in 1..Len(check) |-> g[i]]
  <1>5. ASSUME NEW i \in 1..Len(check) PROVE h[i] = (IF i <= 2 THEN CheckOne(L, q, TailOf(check, i)) ELSE CheckLonger(h[i - 1], q, TailOf(check, i)))
    <2>1. h[i] = g[i] /\ (~(i <= 2) => i - 1 \in 1..Len(check))
      OBVIOUS
    <2>2. ~(i <= 2) => h[i - 1] = g[i - 1]
      BY <2>1
    <2>3. g[i] = (IF i <= 2 THEN CheckOne(L, q, TailOf(check, i)) ELSE CheckLonger(g[i - 1], q, TailOf(check, i)))
      BY <1>4
    <2> HIDE DEF h
    <2>4. QED
      BY <2>1, <2>2, <2>3
  <1>6. h = [i \in 1..Len(check) |-> h[i]]
    OBVIOUS
  <1> HIDE DEF h
  <1>7. h = [i \in 1..Len(check) |-> (IF i <= 2 THEN CheckOne(L, q, TailOf(check, i)) ELSE CheckLonger(h[i - 1], q, TailOf(check, i)))]
    BY <1>5, <1>6
  <1>8. IsCheckedUpTo(h, L, q, check)
    BY <1>7 DEF IsCheckedUpTo
  <1>9. QED
    BY <1>8

LEMMA CheckedUpToSteps ==
  ASSUME NEW L, NEW q, NEW check, Len(check) \in Nat
  PROVE  \A i \in 1..Len(check) : CheckedUpTo(L, q, check)[i] = (IF i <= 2 THEN CheckOne(L, q, TailOf(check, i)) ELSE CheckLonger(CheckedUpTo(L, q, check)[i - 1], q, TailOf(check, i)))
  <1>1. CheckedUpTo(L, q, check) = [i \in 1..Len(check) |-> (IF i <= 2 THEN CheckOne(L, q, TailOf(check, i)) ELSE CheckLonger(CheckedUpTo(L, q, check)[i - 1], q, TailOf(check, i)))]
    <2>1. IsCheckedUpTo(CheckedUpTo(L, q, check), L, q, check)
      BY CheckedUpToExists DEF CheckedUpTo
    <2>2. QED
      BY <2>1 DEF IsCheckedUpTo
  <1>3. QED
    BY <1>1

LEMMA CompatibilityIs ==
  ASSUME NEW L, NEW q, NEW check
  PROVE  CheckCompatibility(L, q, check) =
           IF Len(check) > MaxSize THEN [v |-> "no", L |-> L]
           ELSE CheckedUpTo(L, q, check)[Len(check)]
  BY DEF CheckCompatibility, CheckedUpTo, IsCheckedUpTo, TailOf

LEMMA TailListed ==
  ASSUME NEW L, NEW q, NEW check, CheckList(L, q, check), NEW k \in 1..Len(check)
  PROVE  CheckList(L, q, TailOf(check, k))
  <1> DEFINE t == TailOf(check, k)
             T == Listed(L, q)
  <1>1. check \in Seq(T)
    BY DEF CheckList
  <1> HIDE DEF T
  <1>2. t \in Seq(T)
    BY <1>1, RangeTail DEF TailOf
  <1>3. t # <<>>
    <2>1. Len(check) \in Nat
      BY <1>1, RangeInside
    <2> DEFINE m == Len(check) - k + 1
    <2>2. m \in Nat /\ m \in 1..Len(check) /\ Len(check) - m + 1 = k
      BY <2>1
    <2>3. t = SubSeq(check, m, Len(check))
      BY DEF TailOf
    <2> HIDE DEF m, t
    <2>4. Len(t) = k
      BY <1>1, <2>1, <2>2, <2>3
    <2>5. k # 0
      BY <2>1
    <2>6. Len(<<>>) = 0
      OBVIOUS
    <2>7. QED
      BY <2>4, <2>5, <2>6
  <1>4. QED
    BY <1>2, <1>3 DEF CheckList, T

LEMMA Compatible ==
  ASSUME NEW L, NEW q, Searchable(L, q), NEW M, Searched(L, M, q), NEW check,
         CheckList(L, q, check), NEW r, r = CheckCompatibility(M, q, check)
  PROVE  Verified(L, r, q)
  <1> DEFINE n == Len(check)
             c == CheckedUpTo(M, q, check)
             H(i) == Verified(L, c[i], q)
             G == {i \in Nat : i \in 1..n => H(i)}
  <1>1. n \in Nat /\ n # 0
    <2>1. check \in Seq(Listed(L, q)) /\ check # <<>>
      BY DEF CheckList
    <2>2. n \in Nat
      BY <2>1, RangeInside
    <2>3. QED
      BY <2>1, <2>2
  <1>2. CASE n > MaxSize
    <2>1. r = [v |-> "no", L |-> M]
      BY <1>2, CompatibilityIs
    <2>2. r.v \in Verdicts /\ r.L = M
      BY <2>1 DEF Verdicts
    <2>3. QED
      BY <2>2 DEF Verified
  <1>3. CASE ~(n > MaxSize)
    <2>1. r = c[n]
      BY <1>3, CompatibilityIs
    <2>2. \A i \in 1..n : c[i] = IF i <= 2 THEN CheckOne(M, q, TailOf(check, i))
                                 ELSE CheckLonger(c[i - 1], q, TailOf(check, i))
      BY <1>1, CheckedUpToSteps
    <2>3. ASSUME NEW i \in 1..n, i <= 2 PROVE H(i)
      <3>1. c[i] = CheckOne(M, q, TailOf(check, i))
        BY <2>2, <2>3
      <3>2. CheckList(L, q, TailOf(check, i))
        BY TailListed
      <3>3. QED
        BY <3>1, <3>2, CheckOneVerified
    <2>4. ASSUME NEW i \in 1..n, ~(i <= 2), H(i - 1) PROVE H(i)
      <3>1. c[i] = CheckLonger(c[i - 1], q, TailOf(check, i))
        BY <2>2, <2>4
      <3>2. CheckList(L, q, TailOf(check, i))
        BY TailListed
      <3> DEFINE s == c[i - 1]
      <3>3. c[i] = CheckLonger(s, q, TailOf(check, i)) /\ Verified(L, s, q)
        BY <2>4, <3>1
      <3> HIDE DEF s
      <3>4. QED
        BY <3>2, <3>3, CheckLongerVerified
    <2>5. 0 \in G
      OBVIOUS
    <2>6. ASSUME NEW i \in Nat, i \in G PROVE i + 1 \in G
      <3> DEFINE k == i + 1
      <3>1. k \in Nat /\ k - 1 = i
        OBVIOUS
      <3>2. ASSUME k \in 1..n PROVE H(k)
        <4>1. CASE k <= 2
          <5> HIDE DEF k, H
          <5> QED
            BY <2>3, <3>2, <4>1
        <4>2. CASE ~(k <= 2)
          <5>1. i \in 1..n
            BY <1>1, <3>2, <4>2
          <5>2. H(k - 1)
            BY <2>6, <3>1, <5>1
          <5> HIDE DEF k, H
          <5>3. QED
            BY <2>4, <3>2, <4>2, <5>2
        <4>3. QED
          BY <4>1, <4>2
      <3> HIDE DEF H
      <3>3. QED
        BY <3>1, <3>2
    <2> HIDE DEF G
    <2>7. Nat \subseteq G
      BY <2>5, <2>6, NumberInduction
    <2>8. n \in 1..n
      BY <1>1
    <2>9. H(n)
      <3> HIDE DEF H
      <3> QED
        BY <1>1, <2>7, <2>8 DEF G
    <2>10. QED
      BY <2>1, <2>9
  <1>4. QED
    BY <1>2, <1>3

LEMMA BadNoMoreVerified ==
  ASSUME NEW L, NEW q, Searchable(L, q), NEW s, Verified(L, s, q), NEW check,
         CheckList(L, q, check), NEW r, r = BadNoMore(s, q, check)
  PROVE  Verified(L, r, q)
  <1> DEFINE v == "match"
             again == s.v = "bad" /\ AllQueued(s.L, Range(check), q)
  <1>1. v \in Verdicts
    BY DEF Verdicts
  <1>2. r = IF again THEN Cached(s.L, q, check, v) ELSE s
    BY DEF BadNoMore
  <1>3. Searched(L, s.L, q)
    BY DEF Verified
  <1> HIDE DEF v, again
  <1>4. CASE again
    <2>1. r = Cached(s.L, q, check, v)
      BY <1>2, <1>4
    <2>2. QED
      BY <1>1, <1>3, <2>1, CachedSearched
  <1>5. CASE ~again
    BY <1>2, <1>5
  <1>6. QED
    BY <1>4, <1>5

LEMMA VerdictVerified ==
  ASSUME NEW L, NEW q, Searchable(L, q), NEW M, Searched(L, M, q), NEW check,
         CheckList(L, q, check), NEW r, r = Verdict(M, q, check)
  PROVE  Verified(L, r, q)
  <1> DEFINE s == IF Range(check) \in DOMAIN M.cache[q]
                  THEN [v |-> M.cache[q][Range(check)], L |-> M]
                  ELSE CheckCompatibility(M, q, check)
  <1>1. r = BadNoMore(s, q, check)
    BY DEF Verdict
  <1>2. Verified(L, s, q)
    <2>1. CASE Range(check) \in DOMAIN M.cache[q]
      <3>1. s.v = M.cache[q][Range(check)] /\ s.L = M
        BY <2>1
      <3>2. Range(M.cache[q]) \subseteq Verdicts
        BY DEF Searched, Searchable, Good, QueuesOK, QueueOK
      <3>3. s.v \in Range(M.cache[q])
        BY <2>1, <3>1 DEF Range
      <3> HIDE DEF s
      <3>4. QED
        BY <3>1, <3>2, <3>3 DEF Verified
    <2>2. CASE Range(check) \notin DOMAIN M.cache[q]
      <3>1. s = CheckCompatibility(M, q, check)
        BY <2>2
      <3> HIDE DEF s
      <3>2. QED
        BY <3>1, Compatible
    <2>3. QED
      BY <2>1, <2>2
  <1> HIDE DEF s
  <1>3. QED
    BY <1>1, <1>2, BadNoMoreVerified

(* FindNewGroups, waiting entry by waiting entry.                           *)
FrontTried(L, q, front) == [check |-> <<front>>, r |-> Verdict(L, q, <<front>>)]

IsTriedUpTo(f, L, q, front) ==
  f = [i \in 0..Len(L.cur[q]) |-> (IF i = 0 THEN FrontTried(L, q, front) ELSE TryWith(f[i - 1], q, L.cur[q][i]))]
TriedUpTo(L, q, front) == CHOOSE f : IsTriedUpTo(f, L, q, front)

LEMMA TriedUpToExists ==
  ASSUME NEW L, NEW q, NEW front, Len(L.cur[q]) \in Nat
  PROVE  \E f : IsTriedUpTo(f, L, q, front)
  <1> DEFINE Fills(g, k) == \A i \in 0..k : g[i] = (IF i = 0 THEN FrontTried(L, q, front) ELSE TryWith(g[i - 1], q, L.cur[q][i]))
             G == {k \in Nat : \E g : Fills(g, k)}
  <1>1. 0 \in G
    <2>1. Fills([i \in 0..0 |-> FrontTried(L, q, front)], 0)
      OBVIOUS
    <2>2. \E g : Fills(g, 0)
      <3> HIDE DEF Fills
      <3> QED
        BY <2>1
    <2> HIDE DEF Fills
    <2>3. QED
      BY <2>2
  <1>2. ASSUME NEW k \in Nat, k \in G PROVE k + 1 \in G
    <2>1. PICK g : Fills(g, k)
      BY <1>2
    <2> DEFINE h == [i \in 0..(k + 1) |-> IF i <= k THEN g[i] ELSE (IF i = 0 THEN FrontTried(L, q, front) ELSE TryWith(g[i - 1], q, L.cur[q][i]))]
    <2>2. ASSUME NEW i \in 0..(k + 1) PROVE h[i] = (IF i = 0 THEN FrontTried(L, q, front) ELSE TryWith(h[i - 1], q, L.cur[q][i]))
      <3>1. i \in Nat /\ h[i] = IF i <= k THEN g[i] ELSE (IF i = 0 THEN FrontTried(L, q, front) ELSE TryWith(g[i - 1], q, L.cur[q][i]))
        OBVIOUS
      <3>2. i <= k => i \in 0..k
        BY <3>1
      <3>3. h[i] = (IF i = 0 THEN FrontTried(L, q, front) ELSE TryWith(g[i - 1], q, L.cur[q][i]))
        BY <2>1, <3>1, <3>2
      <3>4. ~(i = 0) => i - 1 \in 0..(k + 1) /\ i - 1 <= k
        BY <3>1
      <3>5. ~(i = 0) => h[i - 1] = g[i - 1]
        BY <3>4
      <3> HIDE DEF h
      <3>6. QED
        BY <3>3, <3>5
    <2> HIDE DEF h
    <2>3. Fills(h, k + 1)
      BY <2>2
    <2>4. \E g1 : Fills(g1, k + 1)
      <3> HIDE DEF Fills
      <3> QED
        BY <2>3
    <2> HIDE DEF Fills
    <2>5. QED
      BY <2>4
  <1>3. Nat \subseteq G
    <2> HIDE DEF G
    <2> QED
      BY <1>1, <1>2, NumberInduction
  <1>4. PICK g : Fills(g, Len(L.cur[q]))
    BY <1>3
  <1> DEFINE h == [i \in 0..Len(L.cur[q]) |-> g[i]]
  <1>5. ASSUME NEW i \in 0..Len(L.cur[q]) PROVE h[i] = (IF i = 0 THEN FrontTried(L, q, front) ELSE TryWith(h[i - 1], q, L.cur[q][i]))
    <2>1. h[i] = g[i] /\ (~(i = 0) => i - 1 \in 0..Len(L.cur[q]))
      OBVIOUS
    <2>2. ~(i = 0) => h[i - 1] = g[i - 1]
      BY <2>1
    <2>3. g[i] = (IF i = 0 THEN FrontTried(L, q, front) ELSE TryWith(g[i - 1], q, L.cur[q][i]))
      BY <1>4
    <2> HIDE DEF h
    <2>4. QED
      BY <2>1, <2>2, <2>3
  <1>6. h = [i \in 0..Len(L.cur[q]) |-> h[i]]
    OBVIOUS
  <1> HIDE DEF h
  <1>7. h = [i \in 0..Len(L.cur[q]) |-> (IF i = 0 THEN FrontTried(L, q, front) ELSE TryWith(h[i - 1], q, L.cur[q][i]))]
    BY <1>5, <1>6
  <1>8. IsTriedUpTo(h, L, q, front)
    BY <1>7 DEF IsTriedUpTo
  <1>9. QED
    BY <1>8

LEMMA TriedUpToSteps ==
  ASSUME NEW L, NEW q, NEW front, Len(L.cur[q]) \in Nat
  PROVE  /\ FindNewGroups(L, q, front) = TriedUpTo(L, q, front)[Len(L.cur[q])].r
         /\ \A i \in 0..Len(L.cur[q]) : TriedUpTo(L, q, front)[i] = (IF i = 0 THEN FrontTried(L, q, front) ELSE TryWith(TriedUpTo(L, q, front)[i - 1], q, L.cur[q][i]))
  <1>1. TriedUpTo(L, q, front) = [i \in 0..Len(L.cur[q]) |-> (IF i = 0 THEN FrontTried(L, q, front) ELSE TryWith(TriedUpTo(L, q, front)[i - 1], q, L.cur[q][i]))]
    <2>1. IsTriedUpTo(TriedUpTo(L, q, front), L, q, front)
      BY TriedUpToExists DEF TriedUpTo
    <2>2. QED
      BY <2>1 DEF IsTriedUpTo
  <1>2. FindNewGroups(L, q, front) = TriedUpTo(L, q, front)[Len(L.cur[q])].r
    BY DEF FindNewGroups, FrontTried, TriedUpTo, IsTriedUpTo
  <1>3. QED
    BY <1>1, <1>2

(* FindGroups, new entry by new entry.                                      *)

IsFoundUpTo(f, L, q) ==
  f = [i \in 0..Len(L.fresh[q]) |-> (IF i = 0 THEN L ELSE TryEntry(f[i - 1], q, L.fresh[q][i]))]
FoundUpTo(L, q) == CHOOSE f : IsFoundUpTo(f, L, q)

LEMMA FoundUpToExists ==
  ASSUME NEW L, NEW q, Len(L.fresh[q]) \in Nat
  PROVE  \E f : IsFoundUpTo(f, L, q)
  <1> DEFINE Fills(g, k) == \A i \in 0..k : g[i] = (IF i = 0 THEN L ELSE TryEntry(g[i - 1], q, L.fresh[q][i]))
             G == {k \in Nat : \E g : Fills(g, k)}
  <1>1. 0 \in G
    <2>1. Fills([i \in 0..0 |-> L], 0)
      OBVIOUS
    <2>2. \E g : Fills(g, 0)
      <3> HIDE DEF Fills
      <3> QED
        BY <2>1
    <2> HIDE DEF Fills
    <2>3. QED
      BY <2>2
  <1>2. ASSUME NEW k \in Nat, k \in G PROVE k + 1 \in G
    <2>1. PICK g : Fills(g, k)
      BY <1>2
    <2> DEFINE h == [i \in 0..(k + 1) |-> IF i <= k THEN g[i] ELSE (IF i = 0 THEN L ELSE TryEntry(g[i - 1], q, L.fresh[q][i]))]
    <2>2. ASSUME NEW i \in 0..(k + 1) PROVE h[i] = (IF i = 0 THEN L ELSE TryEntry(h[i - 1], q, L.fresh[q][i]))
      <3>1. i \in Nat /\ h[i] = IF i <= k THEN g[i] ELSE (IF i = 0 THEN L ELSE TryEntry(g[i - 1], q, L.fresh[q][i]))
        OBVIOUS
      <3>2. i <= k => i \in 0..k
        BY <3>1
      <3>3. h[i] = (IF i = 0 THEN L ELSE TryEntry(g[i - 1], q, L.fresh[q][i]))
        BY <2>1, <3>1, <3>2
      <3>4. ~(i = 0) => i - 1 \in 0..(k + 1) /\ i - 1 <= k
        BY <3>1
      <3>5. ~(i = 0) => h[i - 1] = g[i - 1]
        BY <3>4
      <3> HIDE DEF h
      <3>6. QED
        BY <3>3, <3>5
    <2> HIDE DEF h
    <2>3. Fills(h, k + 1)
      BY <2>2
    <2>4. \E g1 : Fills(g1, k + 1)
      <3> HIDE DEF Fills
      <3> QED
        BY <2>3
    <2> HIDE DEF Fills
    <2>5. QED
      BY <2>4
  <1>3. Nat \subseteq G
    <2> HIDE DEF G
    <2> QED
      BY <1>1, <1>2, NumberInduction
  <1>4. PICK g : Fills(g, Len(L.fresh[q]))
    BY <1>3
  <1> DEFINE h == [i \in 0..Len(L.fresh[q]) |-> g[i]]
  <1>5. ASSUME NEW i \in 0..Len(L.fresh[q]) PROVE h[i] = (IF i = 0 THEN L ELSE TryEntry(h[i - 1], q, L.fresh[q][i]))
    <2>1. h[i] = g[i] /\ (~(i = 0) => i - 1 \in 0..Len(L.fresh[q]))
      OBVIOUS
    <2>2. ~(i = 0) => h[i - 1] = g[i - 1]
      BY <2>1
    <2>3. g[i] = (IF i = 0 THEN L ELSE TryEntry(g[i - 1], q, L.fresh[q][i]))
      BY <1>4
    <2> HIDE DEF h
    <2>4. QED
      BY <2>1, <2>2, <2>3
  <1>6. h = [i \in 0..Len(L.fresh[q]) |-> h[i]]
    OBVIOUS
  <1> HIDE DEF h
  <1>7. h = [i \in 0..Len(L.fresh[q]) |-> (IF i = 0 THEN L ELSE TryEntry(h[i - 1], q, L.fresh[q][i]))]
    BY <1>5, <1>6
  <1>8. IsFoundUpTo(h, L, q)
    BY <1>7 DEF IsFoundUpTo
  <1>9. QED
    BY <1>8

LEMMA FoundUpToSteps ==
  ASSUME NEW L, NEW q, Len(L.fresh[q]) \in Nat
  PROVE  /\ FindGroups(L, q) = FoundUpTo(L, q)[Len(L.fresh[q])]
         /\ \A i \in 0..Len(L.fresh[q]) : FoundUpTo(L, q)[i] = (IF i = 0 THEN L ELSE TryEntry(FoundUpTo(L, q)[i - 1], q, L.fresh[q][i]))
  <1>1. FoundUpTo(L, q) = [i \in 0..Len(L.fresh[q]) |-> (IF i = 0 THEN L ELSE TryEntry(FoundUpTo(L, q)[i - 1], q, L.fresh[q][i]))]
    <2>1. IsFoundUpTo(FoundUpTo(L, q), L, q)
      BY FoundUpToExists DEF FoundUpTo
    <2>2. QED
      BY <2>1 DEF IsFoundUpTo
  <1>2. FindGroups(L, q) = FoundUpTo(L, q)[Len(L.fresh[q])]
    BY DEF FindGroups, FoundUpTo, IsFoundUpTo
  <1>3. QED
    BY <1>1, <1>2

(* The list in hand is of entries the queue lists, whatever was tried.      *)
Trying(L, acc, q) == CheckList(L, q, acc.check) /\ Verified(L, acc.r, q)

LEMMA EntryAppended ==
  ASSUME NEW L, NEW q, NEW s, CheckList(L, q, s), NEW e \in Listed(L, q)
  PROVE  CheckList(L, q, Append(s, e))
  <1> DEFINE T == Listed(L, q)
  <1>1. s \in Seq(T)
    BY DEF CheckList
  <1> HIDE DEF T
  <1>2. Append(s, e) \in Seq(T) /\ Append(s, e) # <<>>
    <2>1. e \in T
      BY DEF T
    <2>2. Append(s, e) \in Seq(T) /\ Range(Append(s, e)) = Range(s) \cup {e}
      BY <1>1, <2>1, RangeAppend
    <2>3. Len(Append(s, e)) = Len(s) + 1 /\ Len(s) \in Nat
      BY <1>1, <2>1
    <2>4. Len(<<>>) = 0
      OBVIOUS
    <2>5. QED
      BY <2>2, <2>3, <2>4
  <1>3. QED
    BY <1>2 DEF CheckList, T

LEMMA TryWithTrying ==
  ASSUME NEW L, NEW q, Searchable(L, q), NEW acc, Trying(L, acc, q), NEW e \in Listed(L, q),
         NEW new, new = TryWith(acc, q, e)
  PROVE  Trying(L, new, q)
  <1> DEFINE longer == Append(acc.check, e)
             r == Verdict(acc.r.L, q, longer)
             skip == acc.r.v # "less" \/ GetState(acc.r.L, e, q) = "waite"
             good == r.v \in {"less", "match"}
  <1>1. new = IF skip THEN acc ELSE With(acc, e, r)
    BY DEF TryWith
  <1>2. CheckList(L, q, longer)
    BY EntryAppended DEF Trying
  <1>3. Verified(L, r, q)
    <2>1. Searched(L, acc.r.L, q)
      BY DEF Trying, Verified
    <2> HIDE DEF r, longer
    <2>2. r = Verdict(acc.r.L, q, longer)
      BY DEF r
    <2>3. QED
      BY <1>2, <2>1, <2>2, VerdictVerified
  <1>4. /\ good => With(acc, e, r).check = longer /\ With(acc, e, r).r = r
        /\ ~good => /\ With(acc, e, r).check = acc.check
                    /\ With(acc, e, r).r.v = acc.r.v /\ With(acc, e, r).r.L = r.L
    BY DEF With
  <1> HIDE DEF longer, r, skip, good
  <1>5. Verified(L, With(acc, e, r).r, q)
    <2>1. CASE good
      BY <1>3, <1>4, <2>1
    <2>2. CASE ~good
      BY <1>3, <1>4, <2>2 DEF Verified, Trying
    <2>3. QED
      BY <2>1, <2>2
  <1>6. CheckList(L, q, With(acc, e, r).check)
    BY <1>2, <1>4 DEF Trying
  <1>7. QED
    BY <1>1, <1>5, <1>6 DEF Trying

LEMMA NewGroupsFound ==
  ASSUME NEW L, NEW q, Searchable(L, q), NEW M, Searched(L, M, q), NEW e \in Listed(L, q),
         NEW r, r = FindNewGroups(M, q, e)
  PROVE  Verified(L, r, q)
  <1> DEFINE n == Len(M.cur[q])
             c == TriedUpTo(M, q, e)
             H(i) == Trying(L, c[i], q)
             G == {i \in Nat : i \in 0..n => H(i)}
  <1>1. n \in Nat /\ \A i \in 1..n : M.cur[q][i] \in Listed(L, q)
    <2>1. M.cur[q] \in Seq(Entries) /\ Listed(M, q) \subseteq Listed(L, q)
      BY DEF Searched, Searchable, Good, QueuesOK, QueueOK
    <2>2. QED
      BY <2>1, RangeInside DEF Listed
  <1>2. r = c[n].r /\ \A i \in 0..n : c[i] = (IF i = 0 THEN FrontTried(M, q, e)
                                              ELSE TryWith(c[i - 1], q, M.cur[q][i]))
    BY <1>1, TriedUpToSteps
  <1>3. H(0)
    <2> DEFINE s == <<e>>
    <2>1. CheckList(L, q, s)
      BY DEF CheckList
    <2>2. c[0] = FrontTried(M, q, e)
      BY <1>1, <1>2
    <2>3. c[0].check = s /\ c[0].r = Verdict(M, q, s)
      BY <2>2 DEF FrontTried
    <2> HIDE DEF s, c
    <2>4. QED
      BY <2>1, <2>3, VerdictVerified DEF Trying
  <1>4. ASSUME NEW i \in 1..n, H(i - 1) PROVE H(i)
    <2>1. i \in 0..n /\ i # 0 /\ M.cur[q][i] \in Listed(L, q)
      BY <1>1
    <2>2. c[i] = TryWith(c[i - 1], q, M.cur[q][i])
      BY <1>2, <2>1
    <2> DEFINE acc == c[i - 1]
               x == M.cur[q][i]
    <2>3. c[i] = TryWith(acc, q, x) /\ Trying(L, acc, q) /\ x \in Listed(L, q)
      BY <1>4, <2>1, <2>2
    <2> HIDE DEF acc, x
    <2>4. QED
      BY <2>3, TryWithTrying
  <1> HIDE DEF H
  <1>5. Nat \subseteq G
    <2>1. 0 \in G
      BY <1>3
    <2>2. ASSUME NEW i \in Nat, i \in G PROVE i + 1 \in G
      <3> DEFINE k == i + 1
      <3>1. k \in Nat /\ k - 1 = i /\ (k \in 0..n => k \in 1..n /\ i \in 0..n)
        BY <1>1
      <3>2. k \in 1..n => H(k)
        <4> HIDE DEF k
        <4>1. ASSUME k \in 1..n PROVE H(k)
          <5>1. H(k - 1)
            BY <1>1, <2>2, <3>1, <4>1
          <5>2. QED
            BY <1>4, <4>1, <5>1
        <4>2. QED
          BY <4>1
      <3>3. QED
        BY <3>1, <3>2
    <2> HIDE DEF G
    <2>3. QED
      BY <2>1, <2>2, NumberInduction
  <1>6. H(n)
    BY <1>1, <1>5
  <1>7. QED
    BY <1>2, <1>6 DEF H, Trying

(* A new entry is taken from its list, and put into the other one if it     *)
(* found no match.                                                          *)
ListsSet(M, N, F, C) == N = [M EXCEPT !.fresh = F, !.cur = C]
ListsOK(L, M, q, F, C) ==
  /\ DOMAIN F = Queues /\ DOMAIN C = Queues
  /\ \A r \in Queues \ {q} : F[r] = M.fresh[r] /\ C[r] = M.cur[r]
  /\ F[q] \in Seq(Entries) /\ C[q] \in Seq(Entries)
  /\ Range(F[q]) \cup Range(C[q]) \subseteq Listed(L, q)

LEMMA ListsSearched ==
  ASSUME NEW L, NEW q, Searchable(L, q), NEW M, Searched(L, M, q), NEW F, NEW C, NEW N,
         ListsSet(M, N, F, C), ListsOK(L, M, q, F, C)
  PROVE  Searched(L, N, q)
  <1>1. /\ Good(M) /\ q \in Queues /\ DOMAIN M = Fields /\ QueueDomains(M) /\ QueueOK(M, q)
    BY DEF Searched, Searchable, Good, QueuesOK, QueueDomains
  <1>2. SameElsewhere(M, N) /\ N.data = M.data /\ N.cache = M.cache
    BY <1>1 DEF ListsSet, SameElsewhere, Fields
  <1>3. N.fresh = F /\ N.cur = C
    BY <1>1 DEF ListsSet, Fields
  <1>4. QueueDomains(N) /\ \A r \in Queues \ {q} : SameQueue(M, N, r)
    BY <1>1, <1>2, <1>3 DEF ListsOK, QueueDomains, SameQueue
  <1>5. Listed(N, q) \subseteq Listed(L, q)
    BY <1>3 DEF ListsOK, Listed
  <1>6. /\ Range(N.cache[q]) \subseteq Verdicts
        /\ UNION DOMAIN N.cache[q] \subseteq DOMAIN L.data[q]
    <2>1. M.data = L.data
      BY DEF Searched, SameBesides
    <2>2. QED
      BY <1>1, <1>2, <2>1 DEF QueueOK
  <1>7. N.fresh[q] \in Seq(Entries) /\ N.cur[q] \in Seq(Entries)
    BY <1>3 DEF ListsOK
  <1>8. QED
    BY <1>2, <1>4, <1>5, <1>6, <1>7, QueueSearched

LEMMA EntryTried ==
  ASSUME NEW L, NEW q, Searchable(L, q), NEW M, Searched(L, M, q), NEW e, NEW N,
         N = TryEntry(M, q, e)
  PROVE  Searched(L, N, q)
  <1> DEFINE F == [M.fresh EXCEPT ![q] = Minus(@, {e})]
             A == [M EXCEPT !.fresh[q] = Minus(@, {e})]
             r == FindNewGroups(A, q, e)
  <1>1. CASE e \notin Range(M.fresh[q])
    BY <1>1 DEF TryEntry
  <1>2. CASE e \in Range(M.fresh[q])
    <2>1. N = Tried(r, q, e)
      BY <1>2 DEF TryEntry
    <2>2. /\ Good(M) /\ q \in Queues /\ DOMAIN M = Fields /\ QueueDomains(M) /\ QueueOK(M, q)
          /\ Listed(M, q) \subseteq Listed(L, q)
      BY DEF Searched, Searchable, Good, QueuesOK, QueueDomains
    <2>3. e \in Listed(L, q) /\ e \in Entries
      <3>1. e \in Listed(M, q)
        BY <1>2 DEF Listed
      <3>2. QED
        BY <2>2, <3>1, ListedInData
    <2>4. Searched(L, A, q)
      <3>1. ListsSet(M, A, F, M.cur)
        BY <2>2 DEF ListsSet, Fields
      <3>2. /\ DOMAIN F = Queues /\ F[q] = Minus(M.fresh[q], {e})
            /\ \A x \in Queues \ {q} : F[x] = M.fresh[x]
        BY <2>2 DEF QueueDomains
      <3>3. DOMAIN M.cur = Queues
        BY <2>2 DEF QueueDomains
      <3> HIDE DEF A, F
      <3>4. F[q] \in Seq(Entries) /\ Range(F[q]) = Range(M.fresh[q]) \ {e}
        BY <2>2, <3>2, MinusElements DEF QueueOK
      <3>5. M.cur[q] \in Seq(Entries)
        BY <2>2 DEF QueueOK
      <3>6. Range(F[q]) \cup Range(M.cur[q]) \subseteq Listed(L, q)
        BY <2>2, <3>4 DEF Listed
      <3>7. ListsOK(L, M, q, F, M.cur)
        BY <3>2, <3>3, <3>4, <3>5, <3>6 DEF ListsOK
      <3> DEFINE C == M.cur
      <3>8. ListsSet(M, A, F, C) /\ ListsOK(L, M, q, F, C)
        BY <3>1, <3>7
      <3> HIDE DEF C
      <3>9. QED
        BY <3>8, ListsSearched
    <2>5. Verified(L, r, q)
      <3> HIDE DEF A
      <3> DEFINE s == FindNewGroups(A, q, e)
      <3>1. s = FindNewGroups(A, q, e)
        OBVIOUS
      <3> HIDE DEF s
      <3>2. Verified(L, s, q)
        BY <2>3, <2>4, <3>1, NewGroupsFound
      <3>3. QED
        BY <3>2 DEF s
    <2> HIDE DEF r, A
    <2>6. CASE r.v = "match"
      BY <2>1, <2>5, <2>6 DEF Tried, Verified
    <2>7. CASE r.v # "match"
      <3> DEFINE B == r.L
                 C == [B.cur EXCEPT ![q] = Append(@, e)]
      <3>1. N = [B EXCEPT !.cur[q] = Append(@, e)]
        BY <2>1, <2>7 DEF Tried
      <3>2. Searched(L, B, q)
        BY <2>5 DEF Verified
      <3> HIDE DEF B
      <3>3. /\ Good(B) /\ DOMAIN B = Fields /\ QueueDomains(B) /\ QueueOK(B, q)
            /\ Listed(B, q) \subseteq Listed(L, q)
        BY <2>2, <3>2 DEF Searched, Good, QueuesOK, QueueDomains
      <3>4. ListsSet(B, N, B.fresh, C)
        BY <3>1, <3>3 DEF ListsSet, Fields
      <3>5. /\ DOMAIN C = Queues /\ C[q] = Append(B.cur[q], e)
            /\ \A x \in Queues \ {q} : C[x] = B.cur[x]
        BY <2>2, <3>3 DEF QueueDomains
      <3>6. DOMAIN B.fresh = Queues
        BY <3>3 DEF QueueDomains
      <3> HIDE DEF C
      <3>7. C[q] \in Seq(Entries) /\ Range(C[q]) = Range(B.cur[q]) \cup {e}
        BY <2>3, <3>3, <3>5, RangeAppend DEF QueueOK
      <3>8. B.fresh[q] \in Seq(Entries)
        BY <3>3 DEF QueueOK
      <3>9. Range(B.fresh[q]) \cup Range(C[q]) \subseteq Listed(L, q)
        BY <2>3, <3>3, <3>7 DEF Listed
      <3>10. ListsOK(L, B, q, B.fresh, C)
        BY <3>5, <3>6, <3>7, <3>8, <3>9 DEF ListsOK
      <3> DEFINE F1 == B.fresh
      <3>11. ListsSet(B, N, F1, C) /\ ListsOK(L, B, q, F1, C)
        BY <3>4, <3>10
      <3> HIDE DEF F1
      <3>12. QED
        BY <3>2, <3>11, ListsSearched
    <2>8. QED
      BY <2>6, <2>7
  <1>3. QED
    BY <1>1, <1>2

LEMMA GroupsFound ==
  ASSUME NEW L, NEW q, Searchable(L, q), NEW M, M = FindGroups(L, q)
  PROVE  Searched(L, M, q)
  <1> DEFINE n == Len(L.fresh[q])
             c == FoundUpTo(L, q)
             H(i) == Searched(L, c[i], q)
             G == {i \in Nat : i \in 0..n => H(i)}
  <1>1. n \in Nat
    <2>1. L.fresh[q] \in Seq(Entries)
      BY DEF Searchable, Good, QueuesOK, QueueOK
    <2>2. QED
      BY <2>1, RangeInside
  <1>2. M = c[n] /\ \A i \in 0..n : c[i] = (IF i = 0 THEN L
                                            ELSE TryEntry(c[i - 1], q, L.fresh[q][i]))
    BY <1>1, FoundUpToSteps
  <1>3. H(0)
    <2>1. c[0] = L
      BY <1>1, <1>2
    <2>2. Good(L)
      BY DEF Searchable
    <2>3. QED
      BY <2>1, <2>2, SearchedItself
  <1>4. ASSUME NEW i \in 1..n, H(i - 1) PROVE H(i)
    <2> DEFINE A == c[i - 1]
    <2>1. i \in 0..n /\ i # 0
      BY <1>1
    <2>2. c[i] = TryEntry(A, q, L.fresh[q][i]) /\ Searched(L, A, q)
      BY <1>2, <1>4, <2>1
    <2> HIDE DEF A
    <2>3. QED
      BY <2>2, EntryTried
  <1> HIDE DEF H
  <1>5. Nat \subseteq G
    <2>1. 0 \in G
      BY <1>3
    <2>2. ASSUME NEW i \in Nat, i \in G PROVE i + 1 \in G
      <3> DEFINE k == i + 1
      <3>1. k \in Nat /\ k - 1 = i /\ (k \in 0..n => k \in 1..n /\ i \in 0..n)
        BY <1>1
      <3>2. k \in 1..n => H(k)
        <4> HIDE DEF k
        <4>1. ASSUME k \in 1..n PROVE H(k)
          <5>1. H(k - 1)
            BY <1>1, <2>2, <3>1, <4>1
          <5>2. QED
            BY <1>4, <4>1, <5>1
        <4>2. QED
          BY <4>1
      <3>3. QED
        BY <3>1, <3>2
    <2> HIDE DEF G
    <2>3. QED
      BY <2>1, <2>2, NumberInduction
  <1>6. H(n)
    BY <1>1, <1>5
  <1>7. QED
    BY <1>2, <1>6 DEF H

-----------------------------------------------------------------------------
(* The inductive invariant *)

(* Nobody has refused a proposal that is still held.                        *)
AnswersOK(pr) == "deny" \notin Range(pr.answer)
(* A proposal nobody has answered has the consent of those only whose       *)
(* dungeon group it fills.                                                  *)
Unanswered(pr) ==
  \A p \in DOMAIN pr.answer :
    pr.answer[p] = "agree" => pr.group # NoGroup /\ pr.from[p] = pr.group
FitsIn(S) == RolesFit(S) /\ Cardinality(S) <= MaxSize
Fits(L) ==
  /\ \A q \in Queues : \A e \in DOMAIN L.data[q] : RolesFit(L.data[q][e])
  /\ \A i \in DOMAIN L.prop : AnswersOK(L.prop[i]) /\ FitsIn(DOMAIN L.prop[i].answer)
Sound(L) ==
  /\ Good(L) /\ Known(L) /\ NewGroups(L, 0) /\ Fits(L) /\ L.last <= MaxProposals

(* What Update is about to announce is there, and nobody has answered it:   *)
(* Update holds the lock from the search on.                                *)
Announcing(L, ph) ==
  (ph \in 1..Len(QueueOrder) /\ L.last # L.before) \/ ph = Len(QueueOrder) + 1 =>
      L.last \in DOMAIN L.prop /\ Unanswered(L.prop[L.last])

(* The two action properties, of a step from L to M.                        *)
Requeued(L, M) ==
  \A id \in DOMAIN L.prop \ DOMAIN M.prop :
    LET pr == L.prop[id]
        S == DOMAIN pr.answer
        agreed == {p \in S : pr.answer[p] = "agree" /\ pr.from[p] = NoGroup}
        failed == \E p \in S : M.pl[p][pr.queue].now # "dungeon"
    IN  failed => agreed \cap DOMAIN M.data[pr.queue] \subseteq Listed(M, pr.queue)
Consented(L, M) ==
  \A p \in Players :
    M.grp[p] \in LfgGroups \ {L.grp[p]} =>
      \E id \in DOMAIN L.prop \ DOMAIN M.prop :
        LET answer == L.prop[id].answer
        IN  /\ p \in DOMAIN answer
            /\ "deny" \notin Range(answer)
            /\ Cardinality({x \in DOMAIN answer : answer[x] = "pending"}) <= 1

(* A dungeon group fits, and will if what the finder holds of it succeeds:  *)
(* it is asked for, listed and proposed with all its members.               *)
ListedWhole(L, g) ==
  \A q \in Queues : g \in Listed(L, q) => Members(L, g) \subseteq L.data[q][g]
ProposedWhole(L, g) ==
  \A i \in DOMAIN L.prop : g \in Range(L.prop[i].entries) =>
    /\ Members(L, g) \subseteq DOMAIN L.prop[i].answer
    /\ g \in DOMAIN L.data[L.prop[i].queue] =>
          Members(L, g) \subseteq L.data[L.prop[i].queue][g]
AskedWhole(L, g) == g \in DOMAIN L.chk => Members(L, g) \subseteq L.chk[g].asked
Fit(L, g) ==
  /\ ListedWhole(L, g) /\ ProposedWhole(L, g) /\ AskedWhole(L, g)
  /\ FitsIn(Members(L, g))
FitKept(L, M) == \A g \in LfgGroups : Fit(L, g) => Fit(M, g)
Fitted(L, M) ==
  \A g \in LfgGroups :
    Fit(L, g) /\ (InFinder(M, g) => Members(M, g) \subseteq Members(L, g)) => Fit(M, g)

StepOK(L, M) == Sound(M) /\ Requeued(L, M) /\ Consented(L, M) /\ Fitted(L, M)

LEMMA FewerFit ==
  ASSUME NEW S, NEW T, T \subseteq Players, S \subseteq T, FitsIn(T)
  PROVE  FitsIn(S)
  <1>1. IsFiniteSet(T) /\ MaxSize \in Nat
    BY FinderAssumption, FS_Subset
  <1>2. Cardinality(S) <= MaxSize
    <2>1. Cardinality(S) \in Nat /\ Cardinality(S) <= Cardinality(T)
      BY <1>1, SmallerSet
    <2>2. Cardinality(T) \in Nat /\ Cardinality(T) <= MaxSize
      BY <1>1, FS_CardinalityType DEF FitsIn
    <2>3. QED
      BY <1>1, <2>1, <2>2
  <1>3. ASSUME NEW r \in DOMAIN Needed PROVE Cardinality({p \in S : Role[p] = r}) <= Needed[r]
    <2> DEFINE A == {p \in S : Role[p] = r}
               B == {p \in T : Role[p] = r}
    <2>1. A \subseteq B /\ B \subseteq T
      OBVIOUS
    <2>2. Cardinality(B) <= Needed[r] /\ Needed[r] \in Nat
      BY FinderAssumption DEF FitsIn, RolesFit
    <2> HIDE DEF A, B
    <2>3. IsFiniteSet(B)
      BY <1>1, <2>1, FS_Subset
    <2>4. Cardinality(A) \in Nat /\ Cardinality(A) <= Cardinality(B)
      BY <2>1, <2>3, SmallerSet
    <2>5. Cardinality(B) \in Nat
      BY <2>3, FS_CardinalityType
    <2>6. QED
      BY <2>2, <2>4, <2>5 DEF A
  <1>4. QED
    BY <1>2, <1>3 DEF FitsIn, RolesFit

(* M holds of the queues, proposals and role checks no more than L.         *)
HoldsLess(L, M) ==
  /\ DOMAIN M.prop \subseteq DOMAIN L.prop /\ \A i \in DOMAIN M.prop : M.prop[i] = L.prop[i]
  /\ ChecksLess(L, M)
  /\ \A q \in Queues :
        /\ DOMAIN M.data[q] \subseteq DOMAIN L.data[q]
        /\ \A e \in DOMAIN M.data[q] : M.data[q][e] = L.data[q][e]
        /\ \A e \in Listed(M, q) : e \in Listed(L, q) \/ Proposed(L, q, e)

LEMMA QLessHolds ==
  ASSUME NEW L, NEW M, QLess(L, M)
  PROVE  HoldsLess(L, M)
  BY DEF QLess, ProposalsLess, QueueLess, HoldsLess

LEMMA HoldsLessFit ==
  ASSUME NEW L, NEW M, Good(M), HoldsLess(L, M), NEW g, Fit(L, g),
         Members(M, g) \subseteq Members(L, g)
  PROVE  Fit(M, g)
  <1>1. ListedWhole(M, g)
    <2> SUFFICES ASSUME NEW q \in Queues, g \in Listed(M, q)
                 PROVE  Members(M, g) \subseteq M.data[q][g]
      BY DEF ListedWhole
    <2>1. g \in DOMAIN M.data[q]
      BY DEF Good, QueuesOK, QueueOK
    <2>2. g \in DOMAIN L.data[q] /\ M.data[q][g] = L.data[q][g]
      BY <2>1 DEF HoldsLess
    <2>3. CASE g \in Listed(L, q)
      BY <2>2, <2>3 DEF Fit, ListedWhole
    <2>4. CASE Proposed(L, q, g)
      BY <2>2, <2>4 DEF Proposed, Fit, ProposedWhole
    <2>5. QED
      BY <2>3, <2>4 DEF HoldsLess
  <1>2. ProposedWhole(M, g)
    <2> SUFFICES ASSUME NEW i \in DOMAIN M.prop, g \in Range(M.prop[i].entries)
                 PROVE  /\ Members(M, g) \subseteq DOMAIN M.prop[i].answer
                        /\ g \in DOMAIN M.data[M.prop[i].queue] =>
                              Members(M, g) \subseteq M.data[M.prop[i].queue][g]
      BY DEF ProposedWhole
    <2>1. i \in DOMAIN L.prop /\ M.prop[i] = L.prop[i]
      BY DEF HoldsLess
    <2>2. M.prop[i].queue \in Queues
      BY DEF Good, ProposalsOK, ProposalOK
    <2>3. /\ Members(L, g) \subseteq DOMAIN L.prop[i].answer
          /\ g \in DOMAIN L.data[L.prop[i].queue] =>
                Members(L, g) \subseteq L.data[L.prop[i].queue][g]
      BY <2>1 DEF Fit, ProposedWhole
    <2>4. g \in DOMAIN M.data[M.prop[i].queue] =>
            /\ g \in DOMAIN L.data[M.prop[i].queue]
            /\ M.data[M.prop[i].queue][g] = L.data[M.prop[i].queue][g]
      BY <2>2 DEF HoldsLess
    <2>5. QED
      BY <2>1, <2>3, <2>4
  <1>3. AskedWhole(M, g)
    BY DEF HoldsLess, ChecksLess, Fit, AskedWhole
  <1>4. FitsIn(Members(M, g))
    BY FewerFit DEF Fit, Members
  <1>5. QED
    BY <1>1, <1>2, <1>3, <1>4 DEF Fit

LEMMA KeptFitted ==
  ASSUME NEW L, NEW M, FitKept(L, M)
  PROVE  Fitted(L, M)
  BY DEF FitKept, Fitted

(* Agreed players whose proposal is gone are listed or have no data.        *)
LEMMA LessRequeued ==
  ASSUME NEW L, Good(L), NEW M,
         \A q \in Queues : \A i \in DOMAIN L.prop \ DOMAIN M.prop : L.prop[i].queue = q =>
           \A e \in DOMAIN M.data[q] : e \in Range(L.prop[i].entries) => e \in Listed(M, q)
  PROVE  Requeued(L, M)
  <1> SUFFICES ASSUME NEW id \in DOMAIN L.prop \ DOMAIN M.prop,
                      NEW p \in DOMAIN L.prop[id].answer,
                      L.prop[id].from[p] = NoGroup,
                      p \in DOMAIN M.data[L.prop[id].queue]
               PROVE  p \in Listed(M, L.prop[id].queue)
    BY DEF Requeued
  <1>1. ProposalOK(L.prop[id])
    BY DEF Good, ProposalsOK
  <1>2. p \in Range(L.prop[id].entries) /\ L.prop[id].queue \in Queues
    BY <1>1 DEF ProposalOK
  <1>3. QED
    BY <1>2

LEMMA ShrunkConsented ==
  ASSUME NEW L, NEW M, Shrunk(L, M)
  PROVE  Consented(L, M)
  <1>1. NoGroup \notin LfgGroups
    BY GroupNames
  <1>2. \A p \in Players : M.grp[p] \notin LfgGroups \ {L.grp[p]}
    BY <1>1 DEF Shrunk
  <1>3. QED
    BY <1>2 DEF Consented

LEMMA LessFits ==
  ASSUME NEW L, NEW M, QLess(L, M), Fits(L)
  PROVE  Fits(M)
  <1>1. ASSUME NEW q \in Queues, NEW e \in DOMAIN M.data[q] PROVE RolesFit(M.data[q][e])
    <2>1. e \in DOMAIN L.data[q] /\ M.data[q][e] = L.data[q][e]
      BY DEF QLess, QueueLess
    <2>2. QED
      BY <2>1 DEF Fits
  <1>2. ASSUME NEW i \in DOMAIN M.prop
        PROVE  AnswersOK(M.prop[i]) /\ FitsIn(DOMAIN M.prop[i].answer)
    <2>1. i \in DOMAIN L.prop /\ M.prop[i] = L.prop[i]
      BY DEF QLess, ProposalsLess
    <2>2. QED
      BY <2>1 DEF Fits
  <1>3. QED
    BY <1>1, <1>2 DEF Fits

LEMMA LessSound ==
  ASSUME NEW L, Sound(L), NEW M, Good(M), QLess(L, M), Known(M), Shrunk(L, M)
  PROVE  StepOK(L, M)
  <1>1. NewGroups(M, 0)
    <2> DEFINE x == 0
    <2>1. NewGroups(L, x)
      BY DEF Sound
    <2> HIDE DEF x
    <2>2. NewGroups(M, x)
      BY <2>1, LessNewGroups
    <2>3. QED
      BY <2>2 DEF x
  <1>2. Fits(M)
    BY LessFits DEF Sound
  <1>3. M.last <= MaxProposals
    BY DEF Sound, QLess, ProposalsLess
  <1>4. Requeued(L, M)
    <2>1. Good(L)
      BY DEF Sound
    <2>2. \A q \in Queues : \A i \in DOMAIN L.prop \ DOMAIN M.prop : L.prop[i].queue = q =>
            \A e \in DOMAIN M.data[q] : e \in Range(L.prop[i].entries) => e \in Listed(M, q)
      BY DEF QLess, QueueLess
    <2>3. QED
      BY <2>1, <2>2, LessRequeued
  <1>5. Consented(L, M)
    BY ShrunkConsented
  <1>6. Fitted(L, M)
    <2>1. \A g \in LfgGroups : Members(M, g) \subseteq Members(L, g)
      BY ShrunkMembers, GroupNames
    <2>2. HoldsLess(L, M)
      BY QLessHolds
    <2>3. FitKept(L, M)
      BY <2>1, <2>2, HoldsLessFit DEF FitKept
    <2>4. QED
      BY <2>3, KeptFitted
  <1>7. QED
    BY <1>1, <1>2, <1>3, <1>4, <1>5, <1>6 DEF StepOK, Sound

LEMMA LesserSound ==
  ASSUME NEW L, Sound(L), NEW M, Good(M), Lesser(L, M)
  PROVE  StepOK(L, M)
  <1>1. QLess(L, M) /\ GSame(L, M) /\ Known(L)
    BY DEF Lesser, Sound
  <1>2. Known(M) /\ Shrunk(L, M)
    BY <1>1, SameKnown
  <1>3. QED
    BY <1>1, <1>2, LessSound

(* A step that takes no proposal out and moves nobody.                      *)
LEMMA SameStep ==
  ASSUME NEW L, Sound(L), NEW M, Good(M), GSame(L, M), NewGroups(M, 0), Fits(M),
         M.last <= MaxProposals, DOMAIN L.prop \subseteq DOMAIN M.prop, FitKept(L, M)
  PROVE  StepOK(L, M)
  <1>1. Known(M) /\ Shrunk(L, M)
    BY SameKnown DEF Sound
  <1>2. Requeued(L, M)
    BY DEF Requeued
  <1>3. QED
    BY <1>1, <1>2, ShrunkConsented, KeptFitted DEF StepOK, Sound

LEMMA SearchSound ==
  ASSUME NEW L, Sound(L), NEW q \in Queues, NEW M, Searched(L, M, q),
         M.last <= MaxProposals
  PROVE  StepOK(L, M)
  <1>1. Good(L) /\ Known(L) /\ NewGroups(L, 0) /\ Fits(L) /\ Good(M) /\ SameBesides(L, M)
    BY DEF Sound, Searched
  <1>2. GSame(L, M)
    BY <1>1 DEF SameBesides, GSame
  <1>3. Listed(L, q) \subseteq DOMAIN L.data[q] /\ L.last \in Nat /\ M.last \in Nat
        /\ M.last >= L.last
    BY <1>1 DEF Good, QueuesOK, QueueOK, ProposalsOK, Searched, ProposalsMore
  <1>4. /\ DOMAIN L.prop \subseteq DOMAIN M.prop
        /\ \A i \in DOMAIN L.prop : M.prop[i] = L.prop[i]
        /\ \A i \in DOMAIN M.prop \ DOMAIN L.prop : i > L.last /\ NewProposal(L, q, M.prop[i])
    BY DEF Searched, ProposalsMore
  <1>5. NewGroups(M, 0)
    <2> SUFFICES ASSUME NEW g \in LfgGroups, g > M.last \/ g \in DOMAIN M.prop
                 PROVE  Unlisted(M, g) /\ Members(M, g) = {}
      BY DEF NewGroups
    <2>1. g \in Nat /\ g # 0
      BY FinderAssumption DEF LfgGroups
    <2>2. g > L.last \/ g \in DOMAIN L.prop
      <3>1. CASE g > M.last
        BY <1>3, <2>1, <3>1
      <3>2. CASE g \in DOMAIN M.prop
        BY <1>4, <3>2
      <3>3. QED
        BY <3>1, <3>2
    <2>3. Unlisted(L, g) /\ Members(L, g) = {}
      BY <1>1, <2>1, <2>2 DEF NewGroups
    <2>4. Members(M, g) = {}
      BY <1>2, <2>3 DEF GSame, Members
    <2>5. g \notin DOMAIN M.chk /\ \A r \in Queues : g \notin DOMAIN M.data[r]
      BY <1>1, <2>3 DEF SameBesides, Unlisted
    <2>6. ASSUME NEW i \in DOMAIN M.prop PROVE g \notin Range(M.prop[i].entries)
      <3>1. CASE i \in DOMAIN L.prop
        BY <1>4, <2>3, <3>1 DEF Unlisted
      <3>2. CASE i \notin DOMAIN L.prop
        <4>1. Range(M.prop[i].entries) \subseteq Listed(L, q)
          BY <1>4, <3>2 DEF NewProposal
        <4>2. g \notin DOMAIN L.data[q]
          BY <2>3 DEF Unlisted
        <4>3. QED
          BY <1>3, <4>1, <4>2
      <3>3. QED
        BY <3>1, <3>2
    <2>7. QED
      BY <2>4, <2>5, <2>6 DEF Unlisted
  <1>6. Fits(M)
    <2>1. M.data = L.data
      BY <1>1 DEF SameBesides
    <2>2. ASSUME NEW i \in DOMAIN M.prop
          PROVE  AnswersOK(M.prop[i]) /\ FitsIn(DOMAIN M.prop[i].answer)
      <3>1. CASE i \in DOMAIN L.prop
        BY <1>1, <1>4, <3>1 DEF Fits
      <3>2. CASE i \notin DOMAIN L.prop
        BY <1>4, <3>2 DEF NewProposal, AnswersOK, FitsIn
      <3>3. QED
        BY <3>1, <3>2
    <2>3. QED
      BY <1>1, <2>1, <2>2 DEF Fits
  <1>7. ASSUME NEW g \in LfgGroups, Fit(L, g) PROVE Fit(M, g)
    <2>1. Members(M, g) = Members(L, g)
      BY <1>2 DEF GSame, Members
    <2>2. ListedWhole(M, g)
      <3>1. M.data = L.data /\ \A r \in Queues : Listed(M, r) \subseteq Listed(L, r)
        BY <1>1 DEF SameBesides, Searched
      <3>2. QED
        BY <1>7, <2>1, <3>1 DEF Fit, ListedWhole
    <2>3. ProposedWhole(M, g)
      <3> SUFFICES ASSUME NEW i \in DOMAIN M.prop, g \in Range(M.prop[i].entries)
                   PROVE  /\ Members(L, g) \subseteq DOMAIN M.prop[i].answer
                          /\ g \in DOMAIN L.data[M.prop[i].queue] =>
                                Members(L, g) \subseteq L.data[M.prop[i].queue][g]
        BY <1>1, <2>1 DEF ProposedWhole, SameBesides
      <3>1. CASE i \in DOMAIN L.prop
        BY <1>4, <1>7, <3>1 DEF Fit, ProposedWhole
      <3>2. CASE i \notin DOMAIN L.prop
        <4>1. /\ M.prop[i].queue = q /\ g \in Listed(L, q)
              /\ DOMAIN M.prop[i].answer = UNION {L.data[q][e] : e \in Range(M.prop[i].entries)}
          BY <1>4, <3>2 DEF NewProposal
        <4>2. Members(L, g) \subseteq L.data[q][g]
          BY <1>7, <4>1 DEF Fit, ListedWhole
        <4>3. L.data[q][g] \subseteq DOMAIN M.prop[i].answer
          BY <4>1
        <4>4. QED
          BY <4>1, <4>2, <4>3
      <3>3. QED
        BY <3>1, <3>2
    <2>4. AskedWhole(M, g)
      BY <1>1, <1>7, <2>1 DEF SameBesides, Fit, AskedWhole
    <2>5. QED
      BY <1>7, <2>1, <2>2, <2>3, <2>4 DEF Fit
  <1>8. FitKept(L, M)
    BY <1>7 DEF FitKept
  <1>9. QED
    BY <1>1, <1>2, <1>4, <1>5, <1>6, <1>8, SameStep

(* Steps that move nobody and take no proposal out compose.                 *)
Soft(L, M) ==
  Sound(M) /\ GSame(L, M) /\ DOMAIN M.prop = DOMAIN L.prop /\ FitKept(L, M)

LEMMA SoftStep ==
  ASSUME NEW L, Sound(L), NEW M, Soft(L, M)
  PROVE  StepOK(L, M)
  BY SameStep DEF Soft, Sound

LEMMA SoftTransitive ==
  ASSUME NEW L, NEW M, NEW N, Soft(L, M), Soft(M, N)
  PROVE  Soft(L, N)
  <1>1. GSame(L, N)
    BY DEF Soft, GSame
  <1>2. FitKept(L, N)
    BY DEF Soft, FitKept
  <1>3. QED
    BY <1>1, <1>2 DEF Soft

LEMMA SameMembers ==
  ASSUME NEW L, NEW M, GSame(L, M), NEW g
  PROVE  Members(M, g) = Members(L, g)
  BY DEF GSame, Members

LEMMA LesserSoft ==
  ASSUME NEW L, Sound(L), NEW M, Good(M), Lesser(L, M), DOMAIN M.prop = DOMAIN L.prop
  PROVE  Soft(L, M)
  <1>1. Sound(M)
    BY LesserSound DEF StepOK
  <1>2. GSame(L, M) /\ HoldsLess(L, M)
    BY QLessHolds DEF Lesser
  <1>3. FitKept(L, M)
    BY <1>2, HoldsLessFit, SameMembers DEF FitKept
  <1>4. QED
    BY <1>1, <1>2, <1>3 DEF Soft

LEMMA StatesSoft ==
  ASSUME NEW L, Sound(L), NEW M, OnlyStates(L, M)
  PROVE  Soft(L, M)
  <1>1. Good(L)
    BY DEF Sound
  <1>2. Good(M) /\ Lesser(L, M) /\ M.prop = L.prop
    BY <1>1, OnlyStatesLesser DEF OnlyStates
  <1>3. QED
    BY <1>2, LesserSoft

(* A group that asks is neither one to come nor one a proposal may found.   *)
Underway(L, e) == e \in LfgGroups => ~(e > L.last) /\ e \notin DOMAIN L.prop

LEMMA QueuedSoft ==
  ASSUME NEW L, Sound(L), NEW M, Good(M), GSame(L, M), NEW e, NEW q, NEW S,
         Queued(L, M, e, q, S), RolesFit(S), Underway(L, e),
         Fit(L, e) => Members(L, e) \subseteq S
  PROVE  Soft(L, M)
  <1>1. /\ q \in Queues /\ M.prop = L.prop /\ M.last = L.last /\ ChecksLess(L, M)
        /\ Known(L) /\ NewGroups(L, 0) /\ Fits(L)
    BY DEF Queued, Sound
  <1>2. /\ \A r \in Queues \ {q} : M.data[r] = L.data[r] /\ Listed(M, r) = Listed(L, r)
        /\ DOMAIN M.data[q] = DOMAIN L.data[q] \cup {e} /\ M.data[q][e] = S
        /\ \A x \in DOMAIN L.data[q] \ {e} : M.data[q][x] = L.data[q][x]
        /\ Listed(M, q) = Listed(L, q) \cup {e}
    BY DEF Queued
  <1>3. Known(M)
    BY <1>1, SameKnown
  <1>4. NewGroups(M, 0)
    <2> SUFFICES ASSUME NEW g \in LfgGroups
                 PROVE  /\ g > L.last \/ g \in DOMAIN L.prop => Unlisted(M, g)
                        /\ g > L.last \/ g \in DOMAIN L.prop \ {0} => Members(L, g) = {}
      BY <1>1, SameMembers DEF NewGroups
    <2>1. g > L.last \/ g \in DOMAIN L.prop \ {0} => Members(L, g) = {}
      BY <1>1 DEF NewGroups
    <2>2. ASSUME g > L.last \/ g \in DOMAIN L.prop PROVE Unlisted(M, g)
      <3>1. Unlisted(L, g) /\ g # e
        BY <1>1, <2>2 DEF NewGroups, Underway
      <3>2. g \notin DOMAIN M.chk /\ \A i \in DOMAIN M.prop : g \notin Range(M.prop[i].entries)
        BY <1>1, <3>1 DEF Unlisted, ChecksLess
      <3>3. \A r \in Queues : g \notin DOMAIN M.data[r]
        BY <1>2, <3>1 DEF Unlisted
      <3>4. QED
        BY <3>2, <3>3 DEF Unlisted
    <2>3. QED
      BY <2>1, <2>2
  <1>5. Fits(M)
    <2>1. ASSUME NEW r \in Queues, NEW x \in DOMAIN M.data[r] PROVE RolesFit(M.data[r][x])
      <3>1. CASE r # q
        BY <1>1, <1>2, <3>1 DEF Fits
      <3>2. CASE r = q
        <4>1. CASE x = e
          BY <1>2, <3>2, <4>1
        <4>2. CASE x # e
          <5>1. x \in DOMAIN L.data[q] /\ M.data[q][x] = L.data[q][x]
            BY <1>2, <3>2, <4>2
          <5>2. QED
            BY <1>1, <3>2, <5>1 DEF Fits
        <4>3. QED
          BY <4>1, <4>2
      <3>3. QED
        BY <3>1, <3>2
    <2>2. QED
      BY <1>1, <2>1 DEF Fits
  <1>6. ASSUME NEW g \in LfgGroups, Fit(L, g) PROVE Fit(M, g)
    <2>1. Members(M, g) = Members(L, g) /\ (g = e => Members(L, g) \subseteq S)
      BY <1>6, SameMembers
    <2>2. ASSUME NEW r \in Queues, g \in DOMAIN M.data[r],
                 g \in DOMAIN L.data[r] => Members(L, g) \subseteq L.data[r][g]
          PROVE  Members(L, g) \subseteq M.data[r][g]
      <3>1. CASE r = q /\ g = e
        BY <1>2, <2>1, <3>1
      <3>2. CASE ~(r = q /\ g = e)
        <4>1. g \in DOMAIN L.data[r] /\ M.data[r][g] = L.data[r][g]
          BY <1>2, <2>2, <3>2
        <4>2. QED
          BY <2>2, <4>1
      <3>3. QED
        BY <3>1, <3>2
    <2>3. ListedWhole(M, g)
      <3> SUFFICES ASSUME NEW r \in Queues, g \in Listed(M, r)
                   PROVE  Members(L, g) \subseteq M.data[r][g]
        BY <2>1 DEF ListedWhole
      <3>1. CASE r = q /\ g = e
        BY <1>2, <2>1, <3>1
      <3>2. CASE ~(r = q /\ g = e)
        <4>1. g \in Listed(L, r)
          BY <1>2, <3>2
        <4>2. g \in DOMAIN L.data[r]
          BY <4>1 DEF Sound, Good, QueuesOK, QueueOK
        <4>3. M.data[r][g] = L.data[r][g]
          BY <1>2, <3>2, <4>2
        <4>4. QED
          BY <1>6, <4>1, <4>3 DEF Fit, ListedWhole
      <3>3. QED
        BY <3>1, <3>2
    <2>4. ProposedWhole(M, g)
      <3> SUFFICES ASSUME NEW i \in DOMAIN L.prop, g \in Range(L.prop[i].entries)
                   PROVE  /\ Members(L, g) \subseteq DOMAIN L.prop[i].answer
                          /\ g \in DOMAIN M.data[L.prop[i].queue] =>
                                Members(L, g) \subseteq M.data[L.prop[i].queue][g]
        BY <1>1, <2>1 DEF ProposedWhole
      <3>1. L.prop[i].queue \in Queues
        BY DEF Sound, Good, ProposalsOK, ProposalOK
      <3>2. /\ Members(L, g) \subseteq DOMAIN L.prop[i].answer
            /\ g \in DOMAIN L.data[L.prop[i].queue] =>
                  Members(L, g) \subseteq L.data[L.prop[i].queue][g]
        BY <1>6 DEF Fit, ProposedWhole
      <3>3. QED
        BY <2>2, <3>1, <3>2
    <2>5. AskedWhole(M, g)
      BY <1>1, <1>6, <2>1 DEF Fit, AskedWhole, ChecksLess
    <2>6. QED
      BY <1>6, <2>1, <2>3, <2>4, <2>5 DEF Fit
  <1>7. Sound(M)
    BY <1>1, <1>3, <1>4, <1>5 DEF Sound
  <1>8. QED
    BY <1>1, <1>6, <1>7 DEF Soft, FitKept

(* A role check is begun or goes on.                                        *)
AsksMore(L, M, g) ==
  /\ M.prop = L.prop /\ M.last = L.last /\ M.data = L.data /\ M.fresh = L.fresh
  /\ M.cur = L.cur /\ DOMAIN M.chk \subseteq DOMAIN L.chk \cup {g}
  /\ \A x \in DOMAIN L.chk \ {g} : M.chk[x] = L.chk[x]

LEMMA AskedSoft ==
  ASSUME NEW L, Sound(L), NEW M, Good(M), GSame(L, M), NEW e, AsksMore(L, M, e),
         Underway(L, e), Fit(L, e) => Members(L, e) \subseteq M.chk[e].asked
  PROVE  Soft(L, M)
  <1>1. /\ M.prop = L.prop /\ M.last = L.last /\ M.data = L.data /\ M.fresh = L.fresh
        /\ M.cur = L.cur /\ Known(L) /\ NewGroups(L, 0) /\ Fits(L)
    BY DEF AsksMore, Sound
  <1>2. Known(M)
    BY <1>1, SameKnown
  <1>3. NewGroups(M, 0)
    <2> SUFFICES ASSUME NEW g \in LfgGroups
                 PROVE  /\ g > L.last \/ g \in DOMAIN L.prop => Unlisted(M, g)
                        /\ g > L.last \/ g \in DOMAIN L.prop \ {0} => Members(L, g) = {}
      BY <1>1, SameMembers DEF NewGroups
    <2>1. g > L.last \/ g \in DOMAIN L.prop \ {0} => Members(L, g) = {}
      BY <1>1 DEF NewGroups
    <2>2. ASSUME g > L.last \/ g \in DOMAIN L.prop PROVE Unlisted(M, g)
      <3>1. Unlisted(L, g) /\ g # e
        BY <1>1, <2>2 DEF NewGroups, Underway
      <3>2. g \notin DOMAIN M.chk
        BY <3>1 DEF Unlisted, AsksMore
      <3>3. QED
        BY <1>1, <3>1, <3>2 DEF Unlisted
    <2>3. QED
      BY <2>1, <2>2
  <1>4. Fits(M)
    BY <1>1 DEF Fits
  <1>5. ASSUME NEW g \in LfgGroups, Fit(L, g) PROVE Fit(M, g)
    <2>1. Members(M, g) = Members(L, g)
      BY SameMembers
    <2>2. ListedWhole(M, g)
      BY <1>1, <1>5, <2>1 DEF Fit, ListedWhole, Listed
    <2>3. ProposedWhole(M, g)
      BY <1>1, <1>5, <2>1 DEF Fit, ProposedWhole
    <2>4. AskedWhole(M, g)
      <3>1. CASE g = e
        BY <1>5, <2>1, <3>1 DEF AskedWhole, Fit
      <3>2. CASE g # e
        BY <1>5, <2>1, <3>2 DEF AskedWhole, Fit, AsksMore
      <3>3. QED
        BY <3>1, <3>2
    <2>5. QED
      BY <1>5, <2>1, <2>2, <2>3, <2>4 DEF Fit
  <1>6. Sound(M)
    BY <1>1, <1>2, <1>3, <1>4 DEF Sound
  <1>7. QED
    BY <1>1, <1>5, <1>6 DEF Soft, FitKept

LEMMA RoleCheckSoft ==
  ASSUME NEW L, Sound(L), NEW g \in DOMAIN L.chk, NEW p \in Players, NEW how, NEW M,
         M = UpdateRoleCheck(L, g, p, how)
  PROVE  Soft(L, M)
  <1>1. Good(L) /\ NewGroups(L, 0)
    BY DEF Sound
  <1>2. Underway(L, g)
    BY <1>1 DEF Underway, NewGroups, Unlisted
  <1>3. Fit(L, g) => Members(L, g) \subseteq L.chk[g].asked
    BY DEF Fit, AskedWhole
  <1>4. Good(M) /\ M.prop = L.prop /\ RoleCheckMoved(L, M, g, p, how)
    BY <1>1, RoleCheckUpdated
  <1>5. CASE Lesser(L, M)
    BY <1>4, <1>5, LesserSoft
  <1>6. CASE GSame(L, M) /\ Waits(L, M, g, p)
    <2>1. AsksMore(L, M, g)
      BY <1>6 DEF Waits, AsksMore
    <2>2. Fit(L, g) => Members(L, g) \subseteq M.chk[g].asked
      BY <1>3, <1>6 DEF Waits
    <2>3. QED
      BY <1>2, <1>4, <1>6, <2>1, <2>2, AskedSoft
  <1>7. CASE /\ GSame(L, M) /\ RolesFit(L.chk[g].asked \cup {p})
             /\ Queued(L, M, g, L.chk[g].queue, L.chk[g].asked \cup {p})
    <2> DEFINE S == L.chk[g].asked \cup {p}
               q == L.chk[g].queue
    <2>1. GSame(L, M) /\ RolesFit(S) /\ Queued(L, M, g, q, S)
      BY <1>7
    <2>2. Fit(L, g) => Members(L, g) \subseteq S
      BY <1>3
    <2> HIDE DEF S, q
    <2>3. QED
      BY <1>2, <1>4, <2>1, <2>2, QueuedSoft
  <1>8. QED
    BY <1>4, <1>5, <1>6, <1>7 DEF RoleCheckMoved

-----------------------------------------------------------------------------
(* The steps *)

LEMMA OneRoleFits ==
  ASSUME NEW p \in Players
  PROVE  RolesFit({p})
  <1> SUFFICES ASSUME NEW r \in DOMAIN Needed
               PROVE  Cardinality({x \in {p} : Role[x] = r}) <= Needed[r]
    BY DEF RolesFit
  <1> DEFINE A == {x \in {p} : Role[x] = r}
  <1>1. A = {} \/ A = {p}
    OBVIOUS
  <1>2. Cardinality({}) = 0 /\ Cardinality({p}) = 1
    BY FS_EmptySet, FS_Singleton
  <1>3. Needed[r] \in Nat /\ Needed[r] # 0
    BY FinderAssumption
  <1> HIDE DEF A
  <1>4. Cardinality(A) <= Needed[r]
    BY <1>1, <1>2, <1>3
  <1>5. QED
    BY <1>4 DEF A

(* A player joins alone.                                                    *)
JoinedAlone(L, p, q) ==
  SetStates(AddQueueData([L EXCEPT !.mem[p] = @ \cup {q}], q, p, {p}), {p}, q, "queued")

LEMMA MembershipGrows ==
  ASSUME NEW L, Sound(L), NEW p \in Players, NEW q \in Queues, NEW M,
         M = [L EXCEPT !.mem[p] = @ \cup {q}]
  PROVE  OnlyStates(L, M) /\ Soft(L, M)
  <1> DEFINE f == [L.mem EXCEPT ![p] = @ \cup {q}]
  <1>1. Good(L)
    BY DEF Sound
  <1>2. L.mem \in [Players -> SUBSET Queues]
    BY <1>1 DEF Good, PlayersOK
  <1>3. f \in [Players -> SUBSET Queues]
    BY <1>2
  <1>4. M = [L EXCEPT !.mem = f]
    BY <1>1 DEF Good, Fields
  <1> HIDE DEF f
  <1>5. OnlyStates(L, [L EXCEPT !.mem = f])
    BY <1>1, <1>3, MembershipOnly
  <1>6. OnlyStates(L, M)
    BY <1>4, <1>5
  <1>7. QED
    BY <1>6, StatesSoft

LEMMA AloneSoft ==
  ASSUME NEW L, Sound(L), NEW p \in Players, NEW q \in Queues, NEW M,
         M = JoinedAlone(L, p, q)
  PROVE  Soft(L, M)
  <1> DEFINE J == [L EXCEPT !.mem[p] = @ \cup {q}]
             S == {p}
             A == AddQueueData(J, q, p, S)
             s == "queued"
  <1>1. M = SetStates(A, S, q, s) /\ s \in States
    BY DEF JoinedAlone, States
  <1>2. Soft(L, J)
    <2>1. J = [L EXCEPT !.mem[p] = @ \cup {q}]
      OBVIOUS
    <2> HIDE DEF J
    <2>2. QED
      BY <2>1, MembershipGrows
  <1> HIDE DEF J
  <1>3. Sound(J)
    BY <1>2 DEF Soft
  <1>4. Good(J) /\ p \in Entries /\ S \in SUBSET Players /\ S = {p} /\ RolesFit(S)
    BY <1>3, OneRoleFits DEF Sound, Entries
  <1>5. p \notin Groups /\ p \notin DOMAIN J.chk
    BY <1>4, FinderAssumption DEF Good, ChecksOK
  <1> HIDE DEF S, s
  <1>6. /\ Good(A) /\ SameButQueue(J, A, q) /\ GSame(J, A)
        /\ DOMAIN A.data[q] = DOMAIN J.data[q] \cup {p} /\ A.data[q][p] = S
        /\ \A x \in DOMAIN J.data[q] \ {p} : A.data[q][x] = J.data[q][x]
        /\ Listed(A, q) = Listed(J, q) \cup {p}
        /\ A.prop = J.prop /\ A.chk = J.chk /\ A.last = J.last
    <2>1. A = AddQueueData(J, q, p, S)
      OBVIOUS
    <2> HIDE DEF A
    <2>2. QED
      BY <1>4, <2>1, AddQueueDataFields
  <1> HIDE DEF A
  <1>7. Queued(J, A, p, q, S)
    <2>1. \A r \in Queues \ {q} : A.data[r] = J.data[r] /\ Listed(A, r) = Listed(J, r)
      BY <1>6 DEF SameButQueue, SameQueue, Listed
    <2>2. ChecksLess(J, A)
      BY <1>6 DEF ChecksLess
    <2>3. QED
      BY <1>4, <1>5, <1>6, <2>1, <2>2 DEF Queued
  <1>8. Soft(J, A)
    <2>1. Underway(J, p)
      BY <1>5, GroupNames DEF Underway
    <2>2. Fit(J, p) => Members(J, p) \subseteq S
      <3>1. Members(J, p) = {}
        <4>1. p # NoGroup
          BY FinderAssumption
        <4>2. J.grp \in [Players -> Groups \cup {NoGroup}]
          BY <1>4 DEF Good, PlayersOK
        <4>3. \A x \in Players : J.grp[x] # p
          BY <1>5, <4>1, <4>2
        <4>4. QED
          BY <4>3 DEF Members
      <3>2. QED
        BY <3>1
    <2>3. QED
      BY <1>3, <1>4, <1>6, <1>7, <2>1, <2>2, QueuedSoft
  <1>9. Soft(A, M)
    <2>1. Sound(A)
      BY <1>8 DEF Soft
    <2>2. OnlyStates(A, M)
      BY <1>1, <1>6, SetStatesOnly
    <2>3. QED
      BY <2>1, <2>2, StatesSoft
  <1>10. Soft(L, A)
    BY <1>2, <1>8, SoftTransitive
  <1>11. QED
    BY <1>9, <1>10, SoftTransitive

(* A group joins: a role check of all its members begins, and the one who   *)
(* asks answers it.                                                         *)
CheckOfAll(L, p, g, q, S) ==
  SetStates(SetGroupState(
      [[L EXCEPT !.mem[p] = @ \cup {q}] EXCEPT
         !.chk = [x \in DOMAIN @ \cup {g} |->
                    IF x = g THEN [queue |-> q, asked |-> S, given |-> {}] ELSE @[x]]],
      g, "rolecheck"), S, q, "rolecheck")

LEMMA CheckOfAllSoft ==
  ASSUME NEW L, Sound(L), NEW p \in Players, NEW g \in Groups, L.grp[p] = g,
         NEW q \in Queues, NEW M, M = CheckOfAll(L, p, g, q, Members(L, g))
  PROVE  Soft(L, M) /\ g \in DOMAIN M.chk
  <1> DEFINE J == [L EXCEPT !.mem[p] = @ \cup {q}]
             S == Members(L, g)
             c == [x \in DOMAIN J.chk \cup {g} |->
                     IF x = g THEN [queue |-> q, asked |-> S, given |-> {}] ELSE J.chk[x]]
             A == [J EXCEPT !.chk = c]
             s == "rolecheck"
             B == SetGroupState(A, g, s)
  <1>1. M = SetStates(B, S, q, s) /\ s \in States /\ s \notin Lasting
    BY DEF CheckOfAll, States, Lasting
  <1>2. Soft(L, J)
    <2>1. J = [L EXCEPT !.mem[p] = @ \cup {q}]
      OBVIOUS
    <2> HIDE DEF J
    <2>2. QED
      BY <2>1, MembershipGrows
  <1> HIDE DEF J
  <1>3. Sound(J) /\ Good(J) /\ GSame(L, J)
    BY <1>2 DEF Soft, Sound
  <1>4. S = Members(J, g) /\ S \subseteq Players /\ p \in S
    BY <1>3, SameMembers DEF Members
  <1> HIDE DEF S
  <1>5. /\ DOMAIN c = DOMAIN J.chk \cup {g} /\ c[g].queue = q /\ c[g].asked = S
        /\ CheckOK(c[g]) /\ \A x \in DOMAIN J.chk \ {g} : c[x] = J.chk[x]
    BY <1>4 DEF CheckOK
  <1>6. ChecksSet(J, A, c)
    BY DEF ChecksSet
  <1> HIDE DEF c, A
  <1>7. RoleChecks(c)
    BY <1>3, <1>5 DEF RoleChecks, Good, ChecksOK
  <1>8. /\ Good(A) /\ GSame(J, A) /\ A.chk = c /\ A.last = J.last /\ A.prop = J.prop
        /\ A.data = J.data /\ A.fresh = J.fresh /\ A.cur = J.cur
    BY <1>3, <1>6, <1>7, ChecksChange
  <1>9. Soft(J, A)
    <2>1. AsksMore(J, A, g)
      BY <1>5, <1>8 DEF AsksMore
    <2>2. Underway(J, g)
      <3>1. NewGroups(J, 0) /\ Members(J, g) # {}
        BY <1>3, <1>4 DEF Sound
      <3>2. ASSUME g \in LfgGroups PROVE g # 0
        BY <3>2, FinderAssumption DEF LfgGroups
      <3>3. QED
        BY <3>1, <3>2 DEF Underway, NewGroups
    <2>3. Members(J, g) \subseteq A.chk[g].asked
      BY <1>4, <1>5, <1>8
    <2>4. QED
      BY <1>3, <1>8, <2>1, <2>2, <2>3, AskedSoft
  <1>10. Sound(A) /\ Good(A)
    BY <1>8, <1>9 DEF Soft
  <1> HIDE DEF s
  <1>11. OnlyStates(A, B)
    BY <1>1, <1>10, SetGroupStateOnly
  <1> HIDE DEF B
  <1>12. Soft(A, B)
    BY <1>10, <1>11, StatesSoft
  <1>13. Sound(B) /\ Good(B)
    BY <1>12 DEF Soft, Sound
  <1>14. OnlyStates(B, M)
    BY <1>1, <1>13, SetStatesOnly
  <1>15. Soft(B, M)
    BY <1>13, <1>14, StatesSoft
  <1>16. Soft(L, M)
    <2>1. Soft(L, A)
      BY <1>2, <1>9, SoftTransitive
    <2>2. Soft(L, B)
      BY <1>12, <2>1, SoftTransitive
    <2>3. QED
      BY <1>15, <2>2, SoftTransitive
  <1>17. g \in DOMAIN M.chk
    BY <1>5, <1>8, <1>11, <1>14 DEF OnlyStates
  <1>18. QED
    BY <1>16, <1>17

LEMMA JoinStep ==
  ASSUME Sound(lfg), NEW p \in Players, NEW chosen, NEW ok, JoinLfg(p, chosen, ok)
  PROVE  Soft(lfg, lfg')
  <1> DEFINE g == lfg.grp[p]
             e == IF g = NoGroup THEN p ELSE g
             continued == g \in LfgGroups /\ lfg.gr[g].now # "finished"
             q == IF continued THEN lfg.gr[g].dungeon ELSE chosen
             S == IF g = NoGroup THEN {p} ELSE Members(lfg, g)
             fits == Cardinality(S) <= MaxSize /\ \A x \in S : q \in lfg.open[x]
             was == GetState(lfg, e, q) = "queued"
             R == RemoveEntries(lfg, q, {e})
             L == IF was THEN R ELSE lfg
  <1>1. q \in Queues
    BY DEF JoinLfg
  <1>2. lfg' = IF ~(ok /\ fits) THEN L
               ELSE IF g = NoGroup THEN JoinedAlone(L, p, q)
               ELSE UpdateRoleCheck(CheckOfAll(L, p, g, q, S), g, p, "role")
    BY DEF JoinLfg, JoinedAlone, CheckOfAll
  <1>3. g # NoGroup => S = Members(lfg, g)
    OBVIOUS
  <1>4. Good(lfg)
    BY DEF Sound
  <1>5. g \in Groups \cup {NoGroup}
    BY <1>4 DEF Good, PlayersOK
  <1> HIDE DEF g, e, q, S, fits, was
  <1>6. Soft(lfg, L)
    <2>1. CASE was
      <3>1. Good(R) /\ Lesser(lfg, R) /\ SameButQueue(lfg, R, q)
        BY <1>1, <1>4, RemoveEntriesLesser
      <3>2. DOMAIN R.prop = DOMAIN lfg.prop
        BY <3>1 DEF SameButQueue, SameElsewhere
      <3>3. L = R
        BY <2>1
      <3> HIDE DEF L, R
      <3>4. QED
        BY <3>1, <3>2, <3>3, LesserSoft
    <2>2. CASE ~was
      <3>1. Good(lfg) /\ Lesser(lfg, lfg)
        BY <1>4, LesserItself
      <3>2. L = lfg
        BY <2>2
      <3>3. Soft(lfg, lfg)
        BY <3>1, LesserSoft
      <3>4. QED
        BY <3>2, <3>3
    <2>3. QED
      BY <2>1, <2>2
  <1> HIDE DEF L
  <1>7. Sound(L) /\ GSame(lfg, L)
    BY <1>6 DEF Soft
  <1>8. CASE ~(ok /\ fits)
    BY <1>2, <1>6, <1>8
  <1>9. CASE ok /\ fits /\ g = NoGroup
    <2>1. lfg' = JoinedAlone(L, p, q)
      BY <1>2, <1>9
    <2>2. Soft(L, lfg')
      BY <1>1, <1>7, <2>1, AloneSoft
    <2>3. QED
      BY <1>6, <2>2, SoftTransitive
  <1>10. CASE ok /\ fits /\ g # NoGroup
    <2> DEFINE K == CheckOfAll(L, p, g, q, Members(L, g))
               how == "role"
    <2>1. S = Members(L, g) /\ L.grp[p] = g /\ g \in Groups
      BY <1>3, <1>5, <1>7, <1>10, SameMembers DEF GSame, g
    <2>2. lfg' = UpdateRoleCheck(K, g, p, how)
      BY <1>2, <1>10, <2>1
    <2>3. Soft(L, K) /\ g \in DOMAIN K.chk
      <3>1. K = CheckOfAll(L, p, g, q, Members(L, g))
        OBVIOUS
      <3> HIDE DEF K
      <3>2. QED
        BY <1>1, <1>7, <2>1, <3>1, CheckOfAllSoft
    <2> HIDE DEF K, how
    <2>4. Sound(K)
      BY <2>3 DEF Soft
    <2>5. Soft(K, lfg')
      BY <2>2, <2>3, <2>4, RoleCheckSoft
    <2>6. Soft(lfg, K)
      BY <1>6, <2>3, SoftTransitive
    <2>7. QED
      BY <2>5, <2>6, SoftTransitive
  <1>11. QED
    BY <1>8, <1>9, <1>10

LEMMA AnswerRoleCheckStep ==
  ASSUME Sound(lfg), NEW p \in Players, NEW how, AnswerRoleCheck(p, how)
  PROVE  Soft(lfg, lfg')
  <1>1. lfg.grp[p] \in DOMAIN lfg.chk /\ lfg' = UpdateRoleCheck(lfg, lfg.grp[p], p, how)
    BY DEF AnswerRoleCheck
  <1> DEFINE g == lfg.grp[p]
  <1>2. g \in DOMAIN lfg.chk /\ lfg' = UpdateRoleCheck(lfg, g, p, how)
    BY <1>1
  <1> HIDE DEF g
  <1>3. QED
    BY <1>2, RoleCheckSoft

LEMMA LeaveStep ==
  ASSUME Sound(lfg), NEW p \in Players, NEW q \in Queues, Leave(p, q)
  PROVE  StepOK(lfg, lfg')
  <1>1. lfg' = LeaveLfg(lfg, p, q) /\ Good(lfg)
    BY DEF Leave, Sound
  <1>2. Good(lfg') /\ Lesser(lfg, lfg')
    BY <1>1, LeaveLesser
  <1>3. QED
    BY <1>2, LesserSound

LEMMA RefuseStep ==
  ASSUME Sound(lfg), NEW p \in Players, NEW id, Refuse(p, id)
  PROVE  StepOK(lfg, lfg')
  <1>1. /\ id \in DOMAIN lfg.prop /\ p \in DOMAIN lfg.prop[id].answer
        /\ lfg' = Decline(lfg, id, p) /\ Good(lfg)
    BY DEF Refuse, Sound
  <1>2. Good(lfg') /\ Lesser(lfg, lfg')
    BY <1>1, DeclineLesser
  <1>3. QED
    BY <1>2, LesserSound

LEMMA LeaveGroupStep ==
  ASSUME Sound(lfg), NEW p \in Players, NEW stay, LeaveGroup(p, stay)
  PROVE  StepOK(lfg, lfg')
  <1> DEFINE g == lfg.grp[p]
             by == FALSE
  <1>1. /\ g # NoGroup /\ lfg' = RemoveMember(lfg, p, g, by, stay)
        /\ Good(lfg) /\ Known(lfg)
    BY DEF LeaveGroup, Sound
  <1>2. g \in Groups
    BY <1>1 DEF Good, PlayersOK
  <1>3. lfg.grp[p] = g
    OBVIOUS
  <1> HIDE DEF g, by
  <1>4. Removed(lfg, lfg', p, g)
    BY <1>1, <1>2, <1>3, MemberRemoved
  <1>5. QED
    BY <1>4, LessSound DEF Removed

(* Who is away changes no more than that.                                   *)
LEMMA AwayOnly ==
  ASSUME NEW L, Good(L), NEW M, NEW A, A \subseteq Players, M = [L EXCEPT !.away = A]
  PROVE  OnlyStates(L, M)
  <1>1. DOMAIN L = Fields
    BY DEF Good
  <1>2. /\ DOMAIN M = Fields /\ M.before = L.before
        /\ M.data = L.data /\ M.fresh = L.fresh /\ M.cur = L.cur /\ M.cache = L.cache
        /\ M.prop = L.prop /\ M.chk = L.chk /\ M.last = L.last
    BY <1>1 DEF Fields
  <1>3. /\ M.pl = L.pl /\ M.gr = L.gr /\ M.grp = L.grp /\ M.mem = L.mem /\ M.open = L.open
        /\ M.away = A
    BY <1>1 DEF Fields
  <1>4. PlayersOK(M)
    BY <1>3 DEF Good, PlayersOK
  <1>5. GSame(L, M)
    BY <1>3 DEF GSame
  <1>6. QED
    BY <1>2, <1>4, <1>5 DEF OnlyStates

LEMMA TeleportStep ==
  ASSUME Sound(lfg), NEW p \in Players, Teleport(p)
  PROVE  OnlyStates(lfg, lfg')
  <1> DEFINE S == {p}
             L == StopAllOtherQueue(lfg, S, NoQueue)
             A == L.away \cup {p}
  <1>1. Good(lfg)
    BY DEF Sound
  <1>2. OnlyStates(lfg, L)
    <2> HIDE DEF S
    <2> QED
      BY <1>1, StopOthersOnly
  <1>3. Good(L)
    BY <1>1, <1>2, OnlyStatesLesser
  <1>4. lfg' = [L EXCEPT !.away = A]
    BY DEF Teleport
  <1> HIDE DEF L
  <1>5. A \subseteq Players
    BY <1>3 DEF Good, PlayersOK
  <1> HIDE DEF A
  <1>6. OnlyStates(L, lfg')
    BY <1>3, <1>4, <1>5, AwayOnly
  <1>7. QED
    BY <1>2, <1>6, OnlyStatesTransitive

LEMMA ArriveStep ==
  ASSUME Sound(lfg), NEW p \in Players, Arrive(p)
  PROVE  OnlyStates(lfg, lfg')
  <1> DEFINE S == {p}
             L == StartAllOtherQueue(lfg, S, NoQueue)
             A == L.away \ {p}
  <1>1. Good(lfg)
    BY DEF Sound
  <1>2. OnlyStates(lfg, L)
    <2> HIDE DEF S
    <2> QED
      BY <1>1, StartOthersOnly
  <1>3. Good(L)
    BY <1>1, <1>2, OnlyStatesLesser
  <1>4. lfg' = [L EXCEPT !.away = A]
    BY DEF Arrive
  <1> HIDE DEF L
  <1>5. A \subseteq Players
    BY <1>3 DEF Good, PlayersOK
  <1> HIDE DEF A
  <1>6. OnlyStates(L, lfg')
    BY <1>3, <1>4, <1>5, AwayOnly
  <1>7. QED
    BY <1>2, <1>6, OnlyStatesTransitive

LEMMA FinishStep ==
  ASSUME Sound(lfg), NEW g \in LfgGroups, FinishDungeon(g)
  PROVE  OnlyStates(lfg, lfg')
  <1> DEFINE q == lfg.gr[g].dungeon
             S == {p \in lfg.gr[g].players : lfg.pl[p][q].now # "finished"}
             s == "finished"
             A == SetGroupState(lfg, g, s)
             B == SetStates(A, S, q, s)
  <1>1. Good(lfg) /\ g \in Groups /\ s \in States
    BY GroupNames DEF Sound, States
  <1>2. lfg' = StartAllOtherQueue(B, S, q)
    BY DEF FinishDungeon
  <1> HIDE DEF s, S
  <1>3. OnlyStates(lfg, A)
    BY <1>1, SetGroupStateOnly
  <1>4. Good(A)
    BY <1>1, <1>3, OnlyStatesLesser
  <1> HIDE DEF A, q
  <1>5. OnlyStates(A, B)
    BY <1>1, <1>4, SetStatesOnly
  <1>6. Good(B)
    BY <1>4, <1>5, OnlyStatesLesser
  <1> HIDE DEF B
  <1>7. OnlyStates(B, lfg')
    BY <1>2, <1>6, StartOthersOnly
  <1>8. OnlyStates(lfg, B)
    BY <1>3, <1>5, OnlyStatesTransitive
  <1>9. QED
    BY <1>7, <1>8, OnlyStatesTransitive

(* A proposal succeeds.                                                     *)
Succeeded(L, M, id, ticket) ==
  /\ Sound(M) /\ Fitted(L, M) /\ DOMAIN M.prop \subseteq DOMAIN L.prop \ {id}
  /\ \A x \in Players : \/ M.grp[x] \in {L.grp[x], NoGroup}
                        \/ x \in DOMAIN L.prop[id].answer
  /\ \A q \in Queues : \A i \in DOMAIN L.prop \ DOMAIN M.prop :
        i # id /\ L.prop[i].queue = q =>
           \A e \in DOMAIN M.data[q] : e \in Range(L.prop[i].entries) => e \in Listed(M, q)
  /\ ticket # NoQueue =>
        \A e \in DOMAIN M.data[ticket] : e \notin Range(L.prop[id].entries)

LEMMA ProposalNumber ==
  ASSUME NEW L, Sound(L), NEW id \in DOMAIN L.prop
  PROVE  id \in LfgGroups /\ id # 0
  <1>1. L.last \in Nat /\ L.last <= MaxProposals /\ id \in 1..L.last /\ MaxProposals \in Nat
    BY FinderAssumption DEF Sound, Good, ProposalsOK
  <1>2. QED
    BY <1>1 DEF LfgGroups

LEMMA SuccessSucceeds ==
  ASSUME NEW L, Sound(L), NEW id \in DOMAIN L.prop, NEW ticket, NEW M, NEW N, NEW g,
         Success(L, M, N, id, g, ticket)
  PROVE  Succeeded(L, M, id, ticket)
  <1> DEFINE pr == L.prop[id]
  <1>1. /\ Good(M) /\ Known(M) /\ NewGroups(M, 0) /\ QLess(L, N) /\ Settled(N, M, id)
        /\ g \in {NoGroup, id, pr.group}
        /\ \A x \in Players : \/ M.grp[x] \in {L.grp[x], NoGroup}
                              \/ x \in DOMAIN pr.answer /\ M.grp[x] = g
    BY DEF Success
  <1>2. /\ M.data = N.data /\ M.fresh = N.fresh /\ M.cur = N.cur /\ M.chk = N.chk
        /\ M.last = N.last /\ DOMAIN M.prop = DOMAIN N.prop \ {id}
        /\ \A i \in DOMAIN M.prop : M.prop[i] = N.prop[i]
    BY <1>1 DEF Settled
  <1>3. /\ Good(L) /\ NewGroups(L, 0) /\ Fits(L) /\ L.last <= MaxProposals
        /\ DOMAIN N.prop \subseteq DOMAIN L.prop /\ N.last = L.last
        /\ \A i \in DOMAIN N.prop : N.prop[i] = L.prop[i]
    BY <1>1 DEF Sound, QLess, ProposalsLess
  <1>4. HoldsLess(L, M)
    <2>1. HoldsLess(L, N)
      BY <1>1, QLessHolds
    <2>2. \A q : Listed(M, q) = Listed(N, q)
      BY <1>2 DEF Listed
    <2>3. ChecksLess(L, M)
      BY <1>2, <2>1 DEF HoldsLess, ChecksLess
    <2>4. /\ DOMAIN M.prop \subseteq DOMAIN L.prop
          /\ \A i \in DOMAIN M.prop : M.prop[i] = L.prop[i]
      BY <1>2, <1>3
    <2>5. \A q \in Queues :
        /\ DOMAIN M.data[q] \subseteq DOMAIN L.data[q]
        /\ \A e \in DOMAIN M.data[q] : M.data[q][e] = L.data[q][e]
        /\ \A e \in Listed(M, q) : e \in Listed(L, q) \/ Proposed(L, q, e)
      BY <1>2, <2>1, <2>2 DEF HoldsLess
    <2>6. QED
      BY <2>3, <2>4, <2>5 DEF HoldsLess
  <1>5. Sound(M)
    <2>1. Fits(N)
      BY <1>1, <1>3, LessFits
    <2>2. Fits(M)
      BY <1>2, <2>1 DEF Fits
    <2>3. QED
      BY <1>1, <1>2, <1>3, <2>2 DEF Sound
  <1>6. ASSUME NEW h \in LfgGroups, Fit(L, h),
               InFinder(M, h) => Members(M, h) \subseteq Members(L, h)
        PROVE  Fit(M, h)
    <2>1. CASE Members(M, h) \subseteq Members(L, h)
      BY <1>1, <1>4, <1>6, <2>1, HoldsLessFit
    <2>2. CASE ~(Members(M, h) \subseteq Members(L, h))
      <3>1. ~InFinder(M, h)
        BY <1>6, <2>2
      <3>2. ListedWhole(M, h) /\ ProposedWhole(M, h) /\ AskedWhole(M, h)
        BY <3>1 DEF InFinder, ListedWhole, ProposedWhole, AskedWhole
      <3>3. h # NoGroup
        BY GroupNames
      <3>4. h = g
        BY <1>1, <2>2, <3>3 DEF Members
      <3>5. ProposalOK(pr) /\ FitsIn(DOMAIN pr.answer)
        BY <1>3 DEF Good, ProposalsOK, Fits
      <3>6. Members(L, h) \subseteq DOMAIN pr.answer
        <4>1. CASE h = id
          <5>1. id \in LfgGroups /\ id # 0
            BY ProposalNumber
          <5>2. Members(L, id) = {}
            BY <1>3, <5>1 DEF NewGroups
          <5>3. QED
            BY <4>1, <5>2
        <4>2. CASE h = pr.group
          <5>1. h \in Range(pr.entries)
            BY <3>3, <3>5, <4>2 DEF ProposalOK
          <5>2. QED
            BY <1>6, <5>1 DEF Fit, ProposedWhole
        <4>3. QED
          BY <1>1, <3>3, <3>4, <4>1, <4>2
      <3>7. Members(M, h) \subseteq DOMAIN pr.answer
        BY <1>1, <3>3, <3>6 DEF Members
      <3>8. FitsIn(Members(M, h))
        BY <3>5, <3>7, FewerFit DEF ProposalOK
      <3>9. QED
        BY <3>2, <3>8 DEF Fit
    <2>3. QED
      BY <2>1, <2>2
  <1>7. ASSUME NEW q \in Queues, NEW i \in DOMAIN L.prop \ DOMAIN M.prop, i # id,
               L.prop[i].queue = q, NEW e \in DOMAIN M.data[q], e \in Range(L.prop[i].entries)
        PROVE  e \in Listed(M, q)
    <2>1. i \in DOMAIN L.prop \ DOMAIN N.prop /\ e \in DOMAIN N.data[q]
      BY <1>2, <1>7
    <2>2. e \in Listed(N, q)
      BY <1>1, <1>7, <2>1 DEF QLess, QueueLess
    <2>3. QED
      BY <1>2, <2>2 DEF Listed
  <1>8. ticket # NoQueue => \A e \in DOMAIN M.data[ticket] : e \notin Range(pr.entries)
    BY DEF Success
  <1>9. Fitted(L, M)
    BY <1>6 DEF Fitted
  <1>10. DOMAIN M.prop \subseteq DOMAIN L.prop \ {id}
    BY <1>2, <1>3
  <1>11. \A x \in Players : M.grp[x] \in {L.grp[x], NoGroup} \/ x \in DOMAIN pr.answer
    BY <1>1
  <1>12. QED
    BY <1>5, <1>7, <1>8, <1>9, <1>10, <1>11 DEF Succeeded

LEMMA SucceedSucceeds ==
  ASSUME NEW L, Sound(L), NEW id \in DOMAIN L.prop, NEW ticket \in Queues \cup {NoQueue},
         NEW first, NEW stay, NEW M, M = Succeed(L, id, ticket, first, stay)
  PROVE  Succeeded(L, M, id, ticket)
  <1>1. Good(L) /\ Known(L) /\ NewGroups(L, 0) /\ id \in LfgGroups
    BY ProposalNumber DEF Sound
  <1>2. PICK N, g : Success(L, M, N, id, g, ticket)
    BY <1>1, ProposalSucceeds
  <1>3. QED
    BY <1>2, SuccessSucceeds

(* M differs from L in states, and in answers to proposal id.               *)
Touched(L, M, id) ==
  /\ GSame(L, M) /\ M.data = L.data /\ M.fresh = L.fresh /\ M.cur = L.cur
  /\ M.chk = L.chk /\ M.last = L.last /\ DOMAIN M.prop = DOMAIN L.prop
  /\ \A i \in DOMAIN L.prop \ {id} : M.prop[i] = L.prop[i]
  /\ M.prop[id].queue = L.prop[id].queue /\ M.prop[id].entries = L.prop[id].entries
  /\ M.prop[id].group = L.prop[id].group /\ M.prop[id].from = L.prop[id].from
  /\ DOMAIN M.prop[id].answer = DOMAIN L.prop[id].answer

LEMMA TouchedSoft ==
  ASSUME NEW L, Sound(L), NEW id \in DOMAIN L.prop, NEW M, Good(M), Touched(L, M, id),
         AnswersOK(M.prop[id])
  PROVE  Soft(L, M)
  <1>1. /\ GSame(L, M) /\ M.data = L.data /\ M.fresh = L.fresh /\ M.cur = L.cur
        /\ M.chk = L.chk /\ M.last = L.last /\ DOMAIN M.prop = DOMAIN L.prop
    BY DEF Touched
  <1>2. \A i \in DOMAIN L.prop :
           /\ M.prop[i].queue = L.prop[i].queue /\ M.prop[i].entries = L.prop[i].entries
           /\ DOMAIN M.prop[i].answer = DOMAIN L.prop[i].answer
    BY DEF Touched
  <1>3. Known(L) /\ NewGroups(L, 0) /\ Fits(L) /\ L.last <= MaxProposals
    BY DEF Sound
  <1>4. \A g : Members(M, g) = Members(L, g)
    BY <1>1, SameMembers
  <1>5. NewGroups(M, 0)
    <2>1. ASSUME NEW g, Unlisted(L, g) PROVE Unlisted(M, g)
      BY <1>1, <1>2, <2>1 DEF Unlisted
    <2>2. QED
      BY <1>1, <1>3, <1>4, <2>1 DEF NewGroups
  <1>6. Fits(M)
    <2>1. ASSUME NEW i \in DOMAIN M.prop
          PROVE  AnswersOK(M.prop[i]) /\ FitsIn(DOMAIN M.prop[i].answer)
      <3>1. FitsIn(DOMAIN M.prop[i].answer)
        BY <1>1, <1>2, <1>3 DEF Fits
      <3>2. AnswersOK(M.prop[i])
        BY <1>1, <1>3 DEF Fits, Touched
      <3>3. QED
        BY <3>1, <3>2
    <2>2. QED
      BY <1>1, <1>3, <2>1 DEF Fits
  <1>7. ASSUME NEW g \in LfgGroups, Fit(L, g) PROVE Fit(M, g)
    <2>1. ListedWhole(M, g)
      BY <1>1, <1>4, <1>7 DEF Fit, ListedWhole, Listed
    <2>2. ProposedWhole(M, g)
      BY <1>1, <1>2, <1>4, <1>7 DEF Fit, ProposedWhole
    <2>3. AskedWhole(M, g)
      BY <1>1, <1>4, <1>7 DEF Fit, AskedWhole
    <2>4. QED
      BY <1>4, <1>7, <2>1, <2>2, <2>3 DEF Fit
  <1>8. Sound(M)
    BY <1>1, <1>3, <1>5, <1>6, SameKnown DEF Sound
  <1>9. QED
    BY <1>1, <1>7, <1>8 DEF Soft, FitKept

(* All have agreed, and none but the one who answers now had not; who is in *)
(* no dungeon group is taken from the queue or had not agreed before.       *)
LEMMA SuccessStep ==
  ASSUME NEW L, Sound(L), NEW id \in DOMAIN L.prop, NEW A, Soft(L, A), Touched(L, A, id),
         NEW ticket, NEW M, Succeeded(A, M, id, ticket),
         Cardinality({x \in DOMAIN L.prop[id].answer : L.prop[id].answer[x] = "pending"}) <= 1,
         \/ ticket = L.prop[id].queue
         \/ \A p \in DOMAIN L.prop[id].answer :
               L.prop[id].answer[p] = "agree" => L.prop[id].from[p] # NoGroup
  PROVE  StepOK(L, M)
  <1>1. /\ DOMAIN A.prop = DOMAIN L.prop /\ A.grp = L.grp
        /\ \A i \in DOMAIN L.prop : /\ A.prop[i].queue = L.prop[i].queue
                                    /\ A.prop[i].entries = L.prop[i].entries
        /\ DOMAIN A.prop[id].answer = DOMAIN L.prop[id].answer
    BY DEF Touched, GSame
  <1>2. /\ Sound(M) /\ Fitted(A, M) /\ DOMAIN M.prop \subseteq DOMAIN A.prop \ {id}
    BY DEF Succeeded
  <1>3. Requeued(L, M)
    <2> SUFFICES ASSUME NEW i \in DOMAIN L.prop \ DOMAIN M.prop,
                        NEW p \in DOMAIN L.prop[i].answer,
                        L.prop[i].answer[p] = "agree", L.prop[i].from[p] = NoGroup,
                        p \in DOMAIN M.data[L.prop[i].queue]
                 PROVE  p \in Listed(M, L.prop[i].queue)
      BY DEF Requeued
    <2>1. ProposalOK(L.prop[i])
      BY DEF Sound, Good, ProposalsOK
    <2>2. p \in Range(L.prop[i].entries) /\ L.prop[i].queue \in Queues
      BY <2>1 DEF ProposalOK
    <2>3. i \in DOMAIN A.prop \ DOMAIN M.prop /\ p \in Range(A.prop[i].entries)
          /\ A.prop[i].queue = L.prop[i].queue
      BY <1>1, <2>2
    <2>4. CASE i # id
      BY <2>2, <2>3, <2>4 DEF Succeeded
    <2>5. CASE i = id
      <3>1. ticket = L.prop[i].queue
        BY <2>5
      <3>2. ticket # NoQueue
        BY <2>2, <3>1, GroupNames
      <3>3. \A e \in DOMAIN M.data[ticket] : e \notin Range(A.prop[id].entries)
        BY <3>2 DEF Succeeded
      <3>4. QED
        BY <2>3, <2>5, <3>1, <3>3
    <2>6. QED
      BY <2>4, <2>5
  <1>4. Consented(L, M)
    <2> SUFFICES ASSUME NEW p \in Players, M.grp[p] \in LfgGroups \ {L.grp[p]}
                 PROVE  \E i \in DOMAIN L.prop \ DOMAIN M.prop :
                           /\ p \in DOMAIN L.prop[i].answer
                           /\ "deny" \notin Range(L.prop[i].answer)
                           /\ Cardinality({x \in DOMAIN L.prop[i].answer :
                                             L.prop[i].answer[x] = "pending"}) <= 1
      BY DEF Consented
    <2>1. M.grp[p] \notin {A.grp[p], NoGroup}
      BY <1>1, GroupNames
    <2>2. p \in DOMAIN L.prop[id].answer
      BY <1>1, <2>1 DEF Succeeded
    <2>3. "deny" \notin Range(L.prop[id].answer)
      BY DEF Sound, Fits, AnswersOK
    <2>4. id \in DOMAIN L.prop \ DOMAIN M.prop
      BY <1>2
    <2>5. QED
      BY <2>2, <2>3, <2>4
  <1>5. Fitted(L, M)
    <2> SUFFICES ASSUME NEW g \in LfgGroups, Fit(L, g),
                        InFinder(M, g) => Members(M, g) \subseteq Members(L, g)
                 PROVE  Fit(M, g)
      BY DEF Fitted
    <2>1. Fit(A, g) /\ Members(A, g) = Members(L, g)
      BY SameMembers DEF Soft, FitKept
    <2>2. QED
      BY <1>2, <2>1 DEF Fitted
  <1>6. QED
    BY <1>2, <1>3, <1>4, <1>5 DEF StepOK

LEMMA AgreeStep ==
  ASSUME Sound(lfg), NEW p, NEW id, Agree(p, id)
  PROVE  StepOK(lfg, lfg')
  <1> DEFINE a == "agree"
             A == [lfg EXCEPT !.prop[id].answer[p] = a]
             pr == lfg.prop[id]
  <1>1. /\ id \in DOMAIN lfg.prop /\ p \in DOMAIN pr.answer
        /\ \/ lfg' = A
           \/ /\ Range(A.prop[id].answer) = {a}
              /\ \E first, stay : lfg' = Succeed(A, id, A.prop[id].queue, first, stay)
    BY DEF Agree
  <1>2. Good(lfg) /\ a # "deny" /\ a # "pending"
    BY DEF Sound
  <1>3. A = [lfg EXCEPT !.prop[id].answer[p] = a]
    OBVIOUS
  <1> HIDE DEF A, a
  <1>4. /\ Good(A) /\ Answered(lfg, A, id, p, a)
        /\ A.prop[id].queue = pr.queue
        /\ A.prop[id].entries = pr.entries /\ A.prop[id].group = pr.group
        /\ A.prop[id].from = pr.from
        /\ DOMAIN A.prop[id].answer = DOMAIN pr.answer
        /\ A.prop[id].answer[p] = a
        /\ \A x \in DOMAIN pr.answer \ {p} : A.prop[id].answer[x] = pr.answer[x]
        /\ A.data = lfg.data /\ A.fresh = lfg.fresh /\ A.cur = lfg.cur
        /\ A.chk = lfg.chk /\ A.last = lfg.last /\ GSame(lfg, A)
    BY <1>1, <1>2, <1>3, AnswerFields
  <1>5. Touched(lfg, A, id)
    BY <1>4 DEF Touched, Answered
  <1>6. AnswersOK(A.prop[id])
    <2>1. "deny" \notin Range(pr.answer)
      BY <1>1 DEF Sound, Fits, AnswersOK
    <2>2. "deny" \notin Range(A.prop[id].answer)
      BY <1>2, <1>4, <2>1 DEF Range
    <2>3. QED
      BY <2>2 DEF AnswersOK
  <1>7. Soft(lfg, A)
    BY <1>1, <1>4, <1>5, <1>6, TouchedSoft
  <1>8. CASE lfg' = A
    BY <1>7, <1>8, SoftStep
  <1>9. CASE /\ Range(A.prop[id].answer) = {a}
             /\ \E first, stay : lfg' = Succeed(A, id, A.prop[id].queue, first, stay)
    <2> DEFINE ticket == A.prop[id].queue
               T == {x \in DOMAIN pr.answer : pr.answer[x] = "pending"}
    <2>1. PICK first, stay : lfg' = Succeed(A, id, ticket, first, stay)
      BY <1>9
    <2>2. ticket \in Queues \cup {NoQueue} /\ Sound(A) /\ id \in DOMAIN A.prop
      <3>1. Sound(A) /\ id \in DOMAIN A.prop
        BY <1>1, <1>5, <1>7 DEF Soft, Touched
      <3>2. QED
        BY <3>1 DEF Sound, Good, ProposalsOK, ProposalOK
    <2>3. ticket = pr.queue
      BY <1>4
    <2>4. Cardinality(T) <= 1
      <3>1. T \subseteq {p}
        <4>1. \A x \in DOMAIN pr.answer : A.prop[id].answer[x] = a
          BY <1>4, <1>9 DEF Range
        <4>2. \A x \in DOMAIN pr.answer \ {p} : pr.answer[x] = a
          BY <1>4, <4>1
        <4>3. QED
          BY <1>2, <4>2
      <3>2. IsFiniteSet({p}) /\ Cardinality({p}) = 1
        BY FS_Singleton
      <3> HIDE DEF T
      <3>3. QED
        BY <3>1, <3>2, SmallerSet
    <2> HIDE DEF ticket
    <2>5. Succeeded(A, lfg', id, ticket)
      BY <2>1, <2>2, SucceedSucceeds
    <2>6. QED
      BY <1>1, <1>5, <1>7, <2>3, <2>4, <2>5, SuccessStep
  <1>10. QED
    BY <1>1, <1>8, <1>9

(* Update keeps the number of the proposal it began with.                   *)
LEMMA BeforeSet ==
  ASSUME NEW L, Sound(L), NEW b \in Nat, NEW M, M = [L EXCEPT !.before = b]
  PROVE  /\ Soft(L, M) /\ M.before = b /\ M.last = L.last /\ M.prop = L.prop
         /\ M.pl = L.pl /\ M.grp = L.grp /\ M.data = L.data /\ M.fresh = L.fresh
         /\ M.cur = L.cur /\ M.chk = L.chk
  <1>1. Good(L) /\ DOMAIN L = Fields
    BY DEF Sound, Good
  <1>2. /\ DOMAIN M = Fields /\ M.pl = L.pl /\ M.gr = L.gr /\ M.mem = L.mem
        /\ M.grp = L.grp /\ M.open = L.open /\ M.away = L.away
    BY <1>1 DEF Fields
  <1>3. /\ M.data = L.data /\ M.fresh = L.fresh /\ M.cur = L.cur /\ M.cache = L.cache
        /\ M.prop = L.prop /\ M.chk = L.chk /\ M.last = L.last /\ M.before = b
    BY <1>1 DEF Fields
  <1>4. Good(M)
    <2>1. PlayersOK(M) /\ ChecksOK(M) /\ ProposalsOK(M)
      BY <1>1, <1>2, <1>3 DEF Good, PlayersOK, ChecksOK, ProposalsOK
    <2>2. ASSUME NEW r \in Queues PROVE QueueOK(M, r)
      <3>1. QueueOK(L, r) /\ SameQueue(L, M, r)
        BY <1>1, <1>3 DEF Good, QueuesOK, SameQueue
      <3>2. QED
        BY <3>1, QueueKept
    <2>3. QueuesOK(M)
      BY <1>1, <1>3, <2>2 DEF Good, QueuesOK
    <2>4. QED
      BY <1>2, <1>3, <2>1, <2>3 DEF Good
  <1>5. Lesser(L, M)
    <2>1. QLess(L, M)
      BY <1>3, QLessItself
    <2>2. GSame(L, M)
      BY <1>2 DEF GSame
    <2>3. QED
      BY <2>1, <2>2 DEF Lesser
  <1>6. Soft(L, M)
    BY <1>3, <1>4, <1>5, LesserSoft
  <1>7. QED
    BY <1>2, <1>3, <1>6

LEMMA BeforeStep ==
  ASSUME NEW K, NEW L, StepOK(K, L), NEW b \in Nat, NEW M, M = [L EXCEPT !.before = b]
  PROVE  StepOK(K, M)
  <1>1. Sound(L)
    BY DEF StepOK
  <1>2. /\ Soft(L, M) /\ M.prop = L.prop /\ M.pl = L.pl /\ M.grp = L.grp /\ M.data = L.data
        /\ M.fresh = L.fresh /\ M.cur = L.cur /\ M.chk = L.chk
    BY <1>1, BeforeSet
  <1>3. Requeued(K, M)
    BY <1>2 DEF StepOK, Requeued, Listed
  <1>4. Consented(K, M)
    BY <1>2 DEF StepOK, Consented
  <1>5. Fitted(K, M)
    <2> SUFFICES ASSUME NEW g \in LfgGroups, Fit(K, g),
                        InFinder(M, g) => Members(M, g) \subseteq Members(K, g)
                 PROVE  Fit(M, g)
      BY DEF Fitted
    <2>1. Members(M, g) = Members(L, g) /\ (InFinder(L, g) => InFinder(M, g))
      BY <1>2 DEF Members, InFinder, Listed
    <2>2. Fit(L, g)
      BY <2>1 DEF StepOK, Fitted
    <2>3. QED
      BY <1>2, <2>2 DEF Soft, FitKept
  <1>6. QED
    BY <1>2, <1>3, <1>4, <1>5 DEF StepOK, Soft

Phases == 0..Len(QueueOrder) + 1

LEMMA QueueCount == Len(QueueOrder) \in Nat /\ DOMAIN QueueOrder = 1..Len(QueueOrder)
                    /\ \A i \in DOMAIN QueueOrder : QueueOrder[i] \in Queues
  <1>1. QueueOrder \in Seq(Queues)
    BY FinderAssumption
  <1>2. QED
    BY <1>1, RangeInside

(* The last proposal is a new one, if one was made since Update began.      *)
Pending(L) == L.last # L.before => L.last \in DOMAIN L.prop /\ Unanswered(L.prop[L.last])

LEMMA GoOnStep ==
  ASSUME NEW K, NEW L, StepOK(K, L), Pending(L), NEW i \in Nat, GoOn(L, i), K = lfg
  PROVE  StepOK(lfg, lfg') /\ Announcing(lfg', phase') /\ phase' \in Phases /\ left' = left
  <1> DEFINE next == {j \in DOMAIN QueueOrder : j > i /\ L.fresh[QueueOrder[j]] # <<>>}
             n == Len(QueueOrder)
             to == IF next # {} THEN Min(next) ELSE IF L.last # L.before THEN n + 1 ELSE 0
             b == IF to = 0 THEN 0 ELSE L.before
  <1>1. phase' = to /\ left' = left
    BY DEF GoOn
  <1>2. lfg' = [L EXCEPT !.before = b]
    <2>1. lfg' = [L EXCEPT !.before = IF to = 0 THEN 0 ELSE @]
      BY DEF GoOn
    <2> HIDE DEF to
    <2>2. QED
      BY <2>1
  <1>3. next \subseteq 1..n /\ n \in Nat
    BY QueueCount
  <1>4. next # {} => Min(next) \in 1..n
    <2> HIDE DEF next
    <2>1. next \subseteq Nat
      BY <1>3
    <2>2. QED
      BY <1>3, <2>1, MinOf
  <1>5. to \in 0..n + 1 /\ (to = n + 1 => L.last # L.before)
    <2> HIDE DEF next
    <2>1. CASE next # {}
      <3>1. to \in 1..n
        BY <1>4, <2>1
      <3> HIDE DEF to
      <3>2. QED
        BY <1>3, <3>1
    <2>2. CASE next = {} /\ L.last # L.before
      <3>1. to = n + 1
        BY <2>2
      <3> HIDE DEF to
      <3>2. QED
        BY <1>3, <2>2, <3>1
    <2>3. CASE next = {} /\ L.last = L.before
      <3>1. to = 0
        BY <2>3
      <3> HIDE DEF to
      <3>2. QED
        BY <1>3, <2>3, <3>1
    <2>4. QED
      BY <2>1, <2>2, <2>3
  <1> HIDE DEF to
  <1>6. Sound(L) /\ L.before \in Nat
    BY DEF StepOK, Sound, Good
  <1>7. b \in Nat /\ (to # 0 => b = L.before)
    BY <1>6
  <1> HIDE DEF b
  <1>8. StepOK(lfg, lfg')
    BY <1>2, <1>7, BeforeStep
  <1>9. lfg'.before = b /\ lfg'.last = L.last /\ lfg'.prop = L.prop
    BY <1>2, <1>6, <1>7, BeforeSet
  <1>10. Announcing(lfg', to)
    <2> SUFFICES ASSUME (to \in 1..n /\ lfg'.last # lfg'.before) \/ to = n + 1
                 PROVE  lfg'.last \in DOMAIN lfg'.prop /\ Unanswered(lfg'.prop[lfg'.last])
      BY DEF Announcing
    <2>1. to # 0
      BY <1>3
    <2>2. L.last # L.before
      BY <1>5, <1>7, <1>9, <2>1
    <2>3. QED
      BY <1>9, <2>2 DEF Pending
  <1>11. QED
    BY <1>1, <1>5, <1>8, <1>10 DEF Phases

LEMMA ExpireStep ==
  ASSUME Sound(lfg), NEW E, NEW D, Expire(E, D)
  PROVE  StepOK(lfg, lfg') /\ Announcing(lfg', phase') /\ phase' \in Phases /\ left' = left
  <1> DEFINE L == Ended(lfg, E, D)
             b == L.last
             M == [L EXCEPT !.before = b]
             i == 0
  <1>1. D \subseteq DOMAIN lfg.prop /\ GoOn(M, i)
    BY DEF Expire
  <1>2. Good(lfg)
    BY DEF Sound
  <1>3. Good(L) /\ Lesser(lfg, L)
    <2>1. L = Ended(lfg, E, D)
      OBVIOUS
    <2> HIDE DEF L
    <2>2. QED
      BY <1>1, <1>2, <2>1, EndedLesser
  <1> HIDE DEF L
  <1>4. StepOK(lfg, L)
    BY <1>3, LesserSound
  <1>5. b \in Nat /\ Sound(L) /\ b = L.last
    BY <1>3, <1>4 DEF Good, ProposalsOK, StepOK
  <1> HIDE DEF b
  <1>6. M = [L EXCEPT !.before = b]
    OBVIOUS
  <1> HIDE DEF M
  <1>7. StepOK(lfg, M)
    BY <1>4, <1>5, <1>6, BeforeStep
  <1>8. M.before = b /\ M.last = L.last
    BY <1>5, <1>6, BeforeSet
  <1>9. Pending(M)
    BY <1>5, <1>8 DEF Pending
  <1>10. i \in Nat
    OBVIOUS
  <1> HIDE DEF i
  <1>11. QED
    BY <1>1, <1>7, <1>9, <1>10, GoOnStep

LEMMA SearchStep ==
  ASSUME Sound(lfg), Announcing(lfg, phase), Search
  PROVE  StepOK(lfg, lfg') /\ Announcing(lfg', phase') /\ phase' \in Phases /\ left' = left
  <1> DEFINE q == QueueOrder[phase]
             L == FindGroups(lfg, q)
             X == IF L.last > MaxProposals THEN lfg ELSE L
             n == Len(QueueOrder)
  <1>1. phase \in 1..n /\ phase \in Nat /\ q \in Queues
    <2>1. phase \in DOMAIN QueueOrder
      BY DEF Search
    <2>2. QED
      BY <2>1, QueueCount
  <1>2. GoOn(X, phase)
    BY DEF Search
  <1>3. Pending(lfg)
    BY <1>1 DEF Announcing, Pending
  <1>4. Searchable(lfg, q)
    BY <1>1 DEF Sound, Known, Fits, Searchable
  <1>5. L = FindGroups(lfg, q)
    OBVIOUS
  <1> HIDE DEF L, q
  <1>6. Searched(lfg, L, q)
    BY <1>4, <1>5, GroupsFound
  <1>7. CASE L.last > MaxProposals
    <2>1. X = lfg
      BY <1>7
    <2> HIDE DEF X
    <2>2. Good(lfg) /\ Lesser(lfg, lfg)
      BY LesserItself DEF Sound
    <2>3. StepOK(lfg, lfg)
      BY <2>2, LesserSound
    <2>4. StepOK(lfg, X) /\ Pending(X)
      BY <1>3, <2>1, <2>3
    <2>5. QED
      BY <1>1, <1>2, <2>4, GoOnStep
  <1>8. CASE ~(L.last > MaxProposals)
    <2>1. X = L
      BY <1>8
    <2> HIDE DEF X
    <2>2. /\ L.last \in Nat /\ L.last >= lfg.last /\ MaxProposals \in Nat /\ lfg.last \in Nat
          /\ DOMAIN lfg.prop \subseteq 1..lfg.last /\ L.before = lfg.before
          /\ L.last > lfg.last => L.last \in DOMAIN L.prop
          /\ DOMAIN lfg.prop \subseteq DOMAIN L.prop
          /\ \A i \in DOMAIN lfg.prop : L.prop[i] = lfg.prop[i]
          /\ \A i \in DOMAIN L.prop \ DOMAIN lfg.prop : NewProposal(lfg, q, L.prop[i])
      BY <1>6, FinderAssumption
      DEF Sound, Good, ProposalsOK, Searched, SameBesides, ProposalsMore
    <2>3. L.last <= MaxProposals
      BY <1>8, <2>2
    <2>4. StepOK(lfg, L)
      BY <1>1, <1>6, <2>3, SearchSound
    <2>5. Pending(L)
      <3>1. CASE L.last > lfg.last
        <4>1. L.last \in DOMAIN L.prop \ DOMAIN lfg.prop
          BY <2>2, <3>1
        <4>2. Unanswered(L.prop[L.last])
          BY <2>2, <4>1 DEF NewProposal, Unanswered
        <4>3. QED
          BY <4>1, <4>2 DEF Pending
      <3>2. CASE ~(L.last > lfg.last)
        <4>1. L.last = lfg.last
          BY <2>2, <3>2
        <4>2. QED
          BY <1>3, <2>2, <4>1 DEF Pending
      <3>3. QED
        BY <3>1, <3>2
    <2>6. StepOK(lfg, X) /\ Pending(X)
      BY <2>1, <2>4, <2>5
    <2>7. QED
      BY <1>1, <1>2, <2>6, GoOnStep
  <1>9. QED
    BY <1>7, <1>8

(* The proposal made last is shown to its players.                          *)
ShownSet(L, M, f) == M = [L EXCEPT !.before = 0, !.gr = f]
GroupsMoved(L, f) ==
  /\ f \in [Groups -> GroupData]
  /\ \A g \in Groups : f[g].players = L.gr[g].players /\ f[g].queue = L.gr[g].queue
  /\ L.gr[Party].old = "none" => f[Party].old = "none"

LEMMA ShownTouched ==
  ASSUME NEW L, Good(L), NEW id \in DOMAIN L.prop, NEW f, GroupsMoved(L, f),
         NEW M, ShownSet(L, M, f)
  PROVE  Good(M) /\ Touched(L, M, id) /\ M.prop[id].answer = L.prop[id].answer
  <1>1. DOMAIN L = Fields /\ ProposalsOK(L)
    BY DEF Good
  <1>2. M = [L EXCEPT !.before = 0, !.gr = f]
    BY DEF ShownSet
  <1>3. /\ M.prop = L.prop /\ DOMAIN M = Fields /\ M.pl = L.pl /\ M.gr = f /\ M.mem = L.mem
        /\ M.grp = L.grp /\ M.open = L.open /\ M.away = L.away
    BY <1>1, <1>2 DEF Fields
  <1>4. /\ M.data = L.data /\ M.fresh = L.fresh /\ M.cur = L.cur /\ M.cache = L.cache
        /\ M.chk = L.chk /\ M.last = L.last /\ M.before = 0
    BY <1>1, <1>2 DEF Fields
  <1>5. GSame(L, M)
    BY <1>3 DEF GSame, GroupsMoved
  <1>6. Touched(L, M, id)
    BY <1>3, <1>4, <1>5 DEF Touched
  <1>7. ProposalsOK(M)
    BY <1>1, <1>3, <1>4 DEF ProposalsOK
  <1>8. ASSUME NEW r \in Queues PROVE QueueOK(M, r)
    <2>1. QueueOK(L, r) /\ SameQueue(L, M, r)
      BY <1>4 DEF Good, QueuesOK, SameQueue
    <2>2. QED
      BY <2>1, QueueKept
  <1>9. Good(M)
    <2>1. PlayersOK(M)
      BY <1>3 DEF Good, PlayersOK, GroupsMoved
    <2>2. ChecksOK(M) /\ M.before \in Nat
      BY <1>4 DEF Good, ChecksOK
    <2>3. QueuesOK(M)
      BY <1>4, <1>8 DEF Good, QueuesOK
    <2>4. QED
      BY <1>3, <1>7, <2>1, <2>2, <2>3 DEF Good
  <1>10. QED
    BY <1>3, <1>6, <1>9

LEMMA StatesTouched ==
  ASSUME NEW L, NEW P, OnlyStates(L, P), NEW id \in DOMAIN L.prop, NEW M, Touched(P, M, id)
  PROVE  Touched(L, M, id)
  <1>1. GSame(L, M)
    BY DEF OnlyStates, Touched, GSame
  <1>2. QED
    BY <1>1 DEF OnlyStates, Touched

LEMMA AnnounceStep ==
  ASSUME Sound(lfg), Announcing(lfg, phase), NEW stay, Announce(stay)
  PROVE  StepOK(lfg, lfg') /\ phase' = 0 /\ left' = left
  <1> DEFINE id == lfg.last
             pr == lfg.prop[id]
             S == DOMAIN pr.answer
             q == pr.queue
             asked == {lfg.pl[p][q].group : p \in S} \ {NoGroup}
             s == "proposal"
             A == SetStates(lfg, S, q, s)
             P == StopAllOtherQueue(A, S, q)
             f == [g \in Groups |-> IF g \in asked THEN MovedTo(P.gr[g], s) ELSE P.gr[g]]
             L == [P EXCEPT !.before = 0, !.gr = f]
             no == NoQueue
             none == NoGroup
  <1>1. /\ phase = Len(QueueOrder) + 1 /\ phase' = 0 /\ left' = left
        /\ lfg' = IF Range(pr.answer) = {"agree"} THEN Succeed(L, id, no, none, stay) ELSE L
    BY DEF Announce
  <1>2. id \in DOMAIN lfg.prop /\ Unanswered(pr)
    BY <1>1 DEF Announcing
  <1>3. Good(lfg) /\ s \in States /\ s \notin Lasting
    BY DEF Sound, States, Lasting
  <1>4. ShownSet(P, L, f)
    BY DEF ShownSet
  <1>5. f = [g \in Groups |-> IF g \in asked THEN MovedTo(P.gr[g], s) ELSE P.gr[g]]
    OBVIOUS
  <1> HIDE DEF s, asked, L, f
  <1>6. OnlyStates(lfg, A)
    BY <1>3, SetStatesOnly
  <1>7. Good(A)
    BY <1>3, <1>6, OnlyStatesLesser
  <1> HIDE DEF A
  <1>8. OnlyStates(A, P)
    BY <1>7, StopOthersOnly
  <1>9. Good(P)
    BY <1>7, <1>8, OnlyStatesLesser
  <1> HIDE DEF P
  <1>10. OnlyStates(lfg, P)
    BY <1>6, <1>8, OnlyStatesTransitive
  <1>11. GroupsMoved(P, f)
    <2>1. P.gr \in [Groups -> GroupData]
      BY <1>9 DEF Good, PlayersOK
    <2>2. ASSUME NEW g \in Groups
          PROVE  /\ f[g] \in GroupData /\ f[g].players = P.gr[g].players
                 /\ f[g].queue = P.gr[g].queue /\ f[g].old = P.gr[g].old
      <3>1. f[g] = IF g \in asked THEN MovedTo(P.gr[g], s) ELSE P.gr[g]
        BY <1>5
      <3>2. P.gr[g] \in GroupData
        BY <2>1
      <3> DEFINE d == P.gr[g]
      <3>3. f[g] = (IF g \in asked THEN MovedTo(d, s) ELSE d) /\ d \in GroupData
        BY <3>1, <3>2
      <3> HIDE DEF d
      <3>4. /\ MovedTo(d, s) \in GroupData /\ MovedTo(d, s).players = d.players
            /\ MovedTo(d, s).queue = d.queue /\ MovedTo(d, s).old = d.old
        BY <1>3, <3>3, MovedGroup
      <3>5. QED
        BY <3>3, <3>4 DEF d
    <2>3. f \in [Groups -> GroupData]
      <3>1. DOMAIN f = Groups /\ f = [g \in Groups |-> f[g]]
        BY <1>5
      <3>2. QED
        BY <2>2, <3>1
    <2>4. QED
      BY <2>2, <2>3, GroupNames DEF GroupsMoved
  <1>12. P.prop = lfg.prop /\ id \in DOMAIN P.prop
    BY <1>2, <1>10 DEF OnlyStates
  <1>13. /\ Good(L) /\ Touched(P, L, id) /\ L.prop[id].answer = pr.answer
    <2> HIDE DEF id
    <2>1. /\ Good(L) /\ Touched(P, L, id) /\ L.prop[id].answer = P.prop[id].answer
      BY <1>4, <1>9, <1>11, <1>12, ShownTouched
    <2>2. QED
      BY <1>12, <2>1
  <1>14. Touched(lfg, L, id)
    <2> HIDE DEF id
    <2> QED
      BY <1>2, <1>10, <1>13, StatesTouched
  <1>15. AnswersOK(pr)
    BY <1>2 DEF Sound, Fits
  <1>16. AnswersOK(L.prop[id])
    BY <1>13, <1>15 DEF AnswersOK
  <1> HIDE DEF id
  <1>17. Soft(lfg, L)
    BY <1>2, <1>13, <1>14, <1>16, TouchedSoft
  <1>18. CASE Range(pr.answer) # {"agree"}
    <2>1. lfg' = L
      BY <1>1, <1>18
    <2>2. QED
      BY <1>1, <1>17, <2>1, SoftStep
  <1>19. CASE Range(pr.answer) = {"agree"}
    <2> DEFINE T == {x \in DOMAIN pr.answer : pr.answer[x] = "pending"}
    <2>1. lfg' = Succeed(L, id, no, none, stay)
      BY <1>1, <1>19
    <2>2. Sound(L) /\ id \in DOMAIN L.prop /\ no \in Queues \cup {NoQueue}
      BY <1>2, <1>14, <1>17 DEF Soft, Touched
    <2> HIDE DEF no, none
    <2>3. Succeeded(L, lfg', id, no)
      BY <2>1, <2>2, SucceedSucceeds
    <2>4. Cardinality(T) <= 1
      <3>1. T = {}
        BY <1>19 DEF Range
      <3>2. Cardinality({}) = 0
        BY FS_EmptySet
      <3> HIDE DEF T
      <3>3. Cardinality(T) = 0
        BY <3>1, <3>2
      <3>4. QED
        BY <3>3
    <2>5. \A p \in DOMAIN pr.answer : pr.answer[p] = "agree" => pr.from[p] # NoGroup
      BY <1>2 DEF Unanswered
    <2>6. StepOK(lfg, lfg')
      BY <1>2, <1>14, <1>17, <2>3, <2>4, <2>5, SuccessStep
    <2>7. QED
      BY <1>1, <2>6
  <1>20. QED
    BY <1>18, <1>19

-----------------------------------------------------------------------------
(* The invariant, and what follows from it *)

FinderInv ==
  /\ Sound(lfg) /\ Announcing(lfg, phase) /\ phase \in Phases
  /\ left \in [joins : Nat, trips : Nat] /\ outdated \subseteq LfgGroups
FitInv == \A g \in LfgGroups \ outdated : Fit(lfg, g)

LEMMA NothingFits == FitsIn({})
  <1>1. Cardinality({}) = 0 /\ MaxSize \in Nat
    BY FS_EmptySet, FinderAssumption
  <1>2. ASSUME NEW r \in DOMAIN Needed PROVE Cardinality({p \in {} : Role[p] = r}) <= Needed[r]
    <2>1. {p \in {} : Role[p] = r} = {} /\ Needed[r] \in Nat
      BY FinderAssumption
    <2>2. QED
      BY <1>1, <2>1
  <1>3. QED
    BY <1>1, <1>2 DEF FitsIn, RolesFit

LEMMA InitFields ==
  ASSUME Init
  PROVE  /\ DOMAIN lfg = Fields /\ lfg.before = 0 /\ lfg.last = 0 /\ lfg.away = {}
         /\ lfg.prop = <<>> /\ lfg.chk = <<>>
         /\ lfg.data = [q \in Queues |-> <<>>] /\ lfg.fresh = [q \in Queues |-> <<>>]
         /\ lfg.cur = [q \in Queues |-> <<>>] /\ lfg.cache = [q \in Queues |-> <<>>]
         /\ lfg.pl = [p \in Players |-> [q \in Queues |-> NoPlayerData]]
         /\ lfg.gr = [g \in Groups |-> NoGroupData]
         /\ lfg.mem = [p \in Players |-> {}]
         /\ lfg.open \in [Players -> SUBSET Queues]
         /\ lfg.grp \in [Players -> {Party, NoGroup}]
         /\ left \in [joins : Nat, trips : Nat]
  <1>1. PICK s \in Starts :
        /\ left = [joins |-> s.joins, trips |-> s.trips]
        /\ lfg = [pl |-> [p \in Players |-> [q \in Queues |-> NoPlayerData]],
                mem |-> [p \in Players |-> {}],
                gr |-> [g \in Groups |-> NoGroupData],
                grp |-> [p \in Players |-> IF p \in s.party THEN Party ELSE NoGroup],
                data |-> [q \in Queues |-> <<>>],
                fresh |-> [q \in Queues |-> <<>>],
                cur |-> [q \in Queues |-> <<>>],
                cache |-> [q \in Queues |-> <<>>],
                open |-> s.open,
                prop |-> <<>>, chk |-> <<>>, last |-> 0, before |-> 0, away |-> {}]
    BY DEF Init
  <1>2. s.open \in [Players -> SUBSET Queues] /\ s.joins \in Nat /\ s.trips \in Nat
    BY FinderAssumption
  <1>3. /\ lfg.before = 0 /\ lfg.last = 0 /\ lfg.away = {}
        /\ lfg.prop = <<>> /\ lfg.chk = <<>>
        /\ lfg.data = [q \in Queues |-> <<>>] /\ lfg.fresh = [q \in Queues |-> <<>>]
        /\ lfg.cur = [q \in Queues |-> <<>>] /\ lfg.cache = [q \in Queues |-> <<>>]
    BY <1>1
  <1>4. /\ lfg.pl = [p \in Players |-> [q \in Queues |-> NoPlayerData]]
        /\ lfg.gr = [g \in Groups |-> NoGroupData]
        /\ lfg.mem = [p \in Players |-> {}] /\ lfg.open = s.open
        /\ lfg.grp = [p \in Players |-> IF p \in s.party THEN Party ELSE NoGroup]
    BY <1>1
  <1>5. DOMAIN lfg = Fields
    BY <1>1 DEF Fields
  <1>6. lfg.grp \in [Players -> {Party, NoGroup}]
    BY <1>4
  <1>7. left \in [joins : Nat, trips : Nat]
    BY <1>1, <1>2
  <1>8. QED
    BY <1>2, <1>3, <1>4, <1>5, <1>6, <1>7

LEMMA InitSound ==
  ASSUME Init
  PROVE  Sound(lfg) /\ \A g \in LfgGroups : Fit(lfg, g)
  <1> DEFINE e == <<>>
  <1>1. DOMAIN e = {} /\ Range(e) = {} /\ e \in Seq(Entries)
    BY DEF Range
  <1>2. /\ DOMAIN lfg = Fields /\ lfg.before = 0 /\ lfg.last = 0 /\ lfg.away = {}
        /\ lfg.prop = e /\ lfg.chk = e
        /\ lfg.data = [q \in Queues |-> e] /\ lfg.fresh = [q \in Queues |-> e]
        /\ lfg.cur = [q \in Queues |-> e] /\ lfg.cache = [q \in Queues |-> e]
    BY InitFields
  <1>3. /\ lfg.pl = [p \in Players |-> [q \in Queues |-> NoPlayerData]]
        /\ lfg.gr = [g \in Groups |-> NoGroupData]
        /\ lfg.mem = [p \in Players |-> {}]
        /\ lfg.open \in [Players -> SUBSET Queues]
        /\ lfg.grp \in [Players -> {Party, NoGroup}]
    BY InitFields
  <1> HIDE DEF e
  <1>4. \A q \in Queues : /\ lfg.data[q] = e /\ lfg.fresh[q] = e /\ lfg.cur[q] = e
                          /\ lfg.cache[q] = e /\ Listed(lfg, q) = {}
    BY <1>1, <1>2 DEF Listed
  <1>5. \A g \in LfgGroups : Members(lfg, g) = {}
    <2>1. \A p \in Players : lfg.grp[p] \notin LfgGroups
      BY <1>3, GroupNames
    <2>2. QED
      BY <2>1 DEF Members
  <1>6. Good(lfg)
    <2>1. NoPlayerData \in PlayerData /\ NoGroupData \in GroupData
      BY DEF NoPlayerData, NoGroupData, PlayerData, GroupData, States
    <2>2. PlayersOK(lfg)
      <3>1. lfg.pl \in [Players -> [Queues -> PlayerData]] /\ lfg.gr \in [Groups -> GroupData]
        BY <1>3, <2>1
      <3>2. lfg.grp \in [Players -> Groups \cup {NoGroup}] /\ lfg.mem \in [Players -> SUBSET Queues]
        BY <1>3, GroupNames
      <3>3. QED
        BY <1>2, <1>3, <3>1, <3>2 DEF PlayersOK
    <2>3. ProposalsOK(lfg) /\ ChecksOK(lfg)
      BY <1>1, <1>2 DEF ProposalsOK, ChecksOK
    <2>4. ASSUME NEW q \in Queues PROVE QueueOK(lfg, q)
      BY <1>1, <1>4 DEF QueueOK, DataOK
    <2>5. QueuesOK(lfg)
      BY <1>2, <2>4 DEF QueuesOK
    <2>6. QED
      BY <1>2, <2>2, <2>3, <2>5 DEF Good
  <1>7. Known(lfg)
    <2>1. \A g \in Groups : lfg.gr[g] = NoGroupData
      BY <1>3
    <2>2. PartyIdle(lfg)
      BY <2>1, GroupNames DEF PartyIdle, NoGroupData
    <2>3. NamesKnown(lfg)
      BY <1>3 DEF NamesKnown, NoPlayerData
    <2>4. \A g \in LfgGroups : GroupKnown(lfg, g)
      BY <1>5, <2>1, GroupNames DEF GroupKnown, NoGroupData
    <2>5. QED
      BY <2>2, <2>3, <2>4 DEF Known
  <1>8. \A g \in LfgGroups : Unlisted(lfg, g)
    BY <1>1, <1>2, <1>4 DEF Unlisted
  <1>9. NewGroups(lfg, 0)
    BY <1>5, <1>8 DEF NewGroups
  <1>10. Fits(lfg)
    BY <1>1, <1>2, <1>4 DEF Fits
  <1>11. Sound(lfg)
    BY <1>2, <1>6, <1>7, <1>9, <1>10, FinderAssumption DEF Sound
  <1>12. ASSUME NEW g \in LfgGroups PROVE Fit(lfg, g)
    <2>1. ListedWhole(lfg, g)
      BY <1>4 DEF ListedWhole
    <2>2. ProposedWhole(lfg, g) /\ AskedWhole(lfg, g)
      BY <1>1, <1>2 DEF ProposedWhole, AskedWhole
    <2>3. FitsIn(Members(lfg, g))
      BY <1>5, NothingFits
    <2>4. QED
      BY <2>1, <2>2, <2>3 DEF Fit
  <1>13. QED
    BY <1>11, <1>12

LEMMA IdlePhase ==
  ASSUME phase' = 0
  PROVE  Announcing(lfg', phase') /\ phase' \in Phases
  BY QueueCount DEF Announcing, Phases

LEMMA StatesStep ==
  ASSUME Sound(lfg), Announcing(lfg, phase), OnlyStates(lfg, lfg'), phase' = phase
  PROVE  StepOK(lfg, lfg') /\ Announcing(lfg', phase')
  <1>1. StepOK(lfg, lfg')
    BY StatesSoft, SoftStep
  <1>2. lfg'.prop = lfg.prop /\ lfg'.last = lfg.last /\ lfg'.before = lfg.before
    BY DEF OnlyStates
  <1>3. QED
    BY <1>1, <1>2 DEF Announcing

(* Every step keeps the invariant and has the two action properties.        *)
StepOK1 == StepOK(lfg, lfg') /\ Announcing(lfg', phase') /\ phase' \in Phases
           /\ left' \in [joins : Nat, trips : Nat] /\ NoteOutdated

LEMMA StepInv ==
  ASSUME FinderInv, Next
  PROVE  StepOK1
  <1>1. Sound(lfg) /\ Announcing(lfg, phase) /\ phase \in Phases
        /\ left \in [joins : Nat, trips : Nat]
    BY DEF FinderInv
  <1>2. lfg.away \subseteq Players
    BY <1>1 DEF Sound, Good, PlayersOK
  <1>3. ASSUME NEW p \in Players, NEW q \in Queues, NEW ok \in BOOLEAN,
               JoinLfg(p, q, ok), NoteOutdated
        PROVE  StepOK1
    <2>1. StepOK(lfg, lfg')
      BY <1>1, <1>3, JoinStep, SoftStep
    <2>2. left' \in [joins : Nat, trips : Nat] /\ phase' = 0
      <3>1. left.joins > 0 /\ left' \in {left, [left EXCEPT !.joins = @ - 1]} /\ phase' = 0
        BY <1>3 DEF JoinLfg, Idle
      <3>2. QED
        BY <1>1, <3>1
    <2>3. QED
      BY <1>3, <2>1, <2>2, IdlePhase DEF StepOK1
  <1>4. ASSUME NEW p \in Players, NEW how, AnswerRoleCheck(p, how), NoteOutdated
        PROVE  StepOK1
    <2>1. StepOK(lfg, lfg') /\ left' = left /\ phase' = 0
      BY <1>1, <1>4, AnswerRoleCheckStep, SoftStep DEF AnswerRoleCheck, Idle
    <2>2. QED
      BY <1>1, <1>4, <2>1, IdlePhase DEF StepOK1
  <1>5. ASSUME NEW p \in Players, NEW q \in Queues, Leave(p, q), NoteOutdated
        PROVE  StepOK1
    <2>1. StepOK(lfg, lfg') /\ left' = left /\ phase' = 0
      BY <1>1, <1>5, LeaveStep DEF Leave, Idle
    <2>2. QED
      BY <1>1, <1>5, <2>1, IdlePhase DEF StepOK1
  <1>6. ASSUME NEW p \in Players, NEW id, Refuse(p, id), NoteOutdated
        PROVE  StepOK1
    <2>1. StepOK(lfg, lfg') /\ left' = left /\ phase' = 0
      BY <1>1, <1>6, RefuseStep DEF Refuse, Idle
    <2>2. QED
      BY <1>1, <1>6, <2>1, IdlePhase DEF StepOK1
  <1>7. ASSUME NEW p \in Players, NEW id, Agree(p, id), NoteOutdated
        PROVE  StepOK1
    <2>1. StepOK(lfg, lfg') /\ left' = left /\ phase' = 0
      BY <1>1, <1>7, AgreeStep DEF Agree, Idle
    <2>2. QED
      BY <1>1, <1>7, <2>1, IdlePhase DEF StepOK1
  <1>8. ASSUME NEW p \in Players, NEW stay \in BOOLEAN, LeaveGroup(p, stay), NoteOutdated
        PROVE  StepOK1
    <2>1. StepOK(lfg, lfg') /\ left' = left /\ phase' = 0
      BY <1>1, <1>8, LeaveGroupStep DEF LeaveGroup, Idle
    <2>2. QED
      BY <1>1, <1>8, <2>1, IdlePhase DEF StepOK1
  <1>9. ASSUME NEW p \in Players, Teleport(p), NoteOutdated
        PROVE  StepOK1
    <2>1. OnlyStates(lfg, lfg') /\ phase' = phase
      BY <1>1, <1>9, TeleportStep DEF Teleport
    <2>2. left' \in [joins : Nat, trips : Nat]
      <3>1. left.trips > 0 /\ left' = [left EXCEPT !.trips = @ - 1]
        BY <1>9 DEF Teleport
      <3>2. QED
        BY <1>1, <3>1
    <2>3. QED
      BY <1>1, <1>9, <2>1, <2>2, StatesStep DEF StepOK1
  <1>10. ASSUME NEW p \in Players, Arrive(p), NoteOutdated
         PROVE  StepOK1
    <2>1. OnlyStates(lfg, lfg') /\ phase' = phase /\ left' = left
      BY <1>1, <1>10, ArriveStep DEF Arrive
    <2>2. QED
      BY <1>1, <1>10, <2>1, StatesStep DEF StepOK1
  <1>11. ASSUME NEW g \in LfgGroups, FinishDungeon(g), NoteOutdated
         PROVE  StepOK1
    <2>1. OnlyStates(lfg, lfg') /\ phase' = phase /\ left' = left
      BY <1>1, <1>11, FinishStep DEF FinishDungeon
    <2>2. QED
      BY <1>1, <1>11, <2>1, StatesStep DEF StepOK1
  <1>12. ASSUME NEW E, NEW D, Expire(E, D), NoteOutdated
         PROVE  StepOK1
    BY <1>1, <1>12, ExpireStep DEF StepOK1
  <1>13. ASSUME Search, NoteOutdated
         PROVE  StepOK1
    BY <1>1, <1>13, SearchStep DEF StepOK1
  <1>14. ASSUME NEW stay \in BOOLEAN, Announce(stay), NoteOutdated
         PROVE  StepOK1
    <2>1. StepOK(lfg, lfg') /\ left' = left /\ phase' = 0
      BY <1>1, <1>14, AnnounceStep
    <2>2. QED
      BY <1>1, <1>14, <2>1, IdlePhase DEF StepOK1
  <1>15. CASE UpdateStep
    BY <1>12, <1>13, <1>14, <1>15 DEF UpdateStep
  <1>16. CASE ~UpdateStep
    BY <1>2, <1>3, <1>4, <1>5, <1>6, <1>7, <1>8, <1>9, <1>10, <1>11, <1>16
    DEF Next, Present
  <1>17. QED
    BY <1>15, <1>16

LEMMA InvKept ==
  ASSUME FinderInv, [Next]_vars
  PROVE  FinderInv'
  <1>1. CASE Next
    <2>1. StepOK1
      BY <1>1, StepInv
    <2>2. outdated' \subseteq LfgGroups
      <3>1. NoteOutdated
        BY <2>1 DEF StepOK1
      <3>2. QED
        BY <3>1 DEF NoteOutdated, FinderInv
    <2>3. QED
      BY <2>1, <2>2 DEF StepOK1, StepOK, FinderInv
  <1>2. CASE UNCHANGED vars
    <2>1. lfg' = lfg /\ phase' = phase /\ left' = left /\ outdated' = outdated
      BY <1>2 DEF vars
    <2>2. QED
      BY <2>1 DEF FinderInv
  <1>3. QED
    BY <1>1, <1>2

LEMMA FitInvKept ==
  ASSUME FinderInv, FitInv, [Next]_vars
  PROVE  FitInv'
  <1>1. CASE Next
    <2>1. Fitted(lfg, lfg') /\ NoteOutdated
      BY <1>1, StepInv DEF StepOK1, StepOK
    <2>2. ASSUME NEW g \in LfgGroups \ outdated' PROVE Fit(lfg', g)
      <3>1. g \in LfgGroups \ outdated
            /\ (InFinder(lfg', g) => Members(lfg', g) \subseteq Members(lfg, g))
        BY <2>1 DEF NoteOutdated
      <3>2. Fit(lfg, g)
        BY <3>1 DEF FitInv
      <3>3. QED
        BY <2>1, <3>1, <3>2 DEF Fitted
    <2>3. QED
      BY <2>2 DEF FitInv
  <1>2. CASE UNCHANGED vars
    <2>1. lfg' = lfg /\ outdated' = outdated
      BY <1>2 DEF vars
    <2>2. QED
      BY <2>1 DEF FitInv
  <1>3. QED
    BY <1>1, <1>2

LEMMA FinderInvariant == Spec => [](FinderInv /\ FitInv)
  <1>1. Init => FinderInv /\ FitInv
    <2> SUFFICES ASSUME Init PROVE FinderInv /\ FitInv
      OBVIOUS
    <2>1. Sound(lfg) /\ \A g \in LfgGroups : Fit(lfg, g)
      BY InitSound
    <2>2. phase = 0 /\ outdated = {} /\ left \in [joins : Nat, trips : Nat]
      BY InitFields DEF Init
    <2>3. Announcing(lfg, phase) /\ phase \in Phases
      BY <2>2, QueueCount DEF Announcing, Phases
    <2>4. QED
      BY <2>1, <2>2, <2>3 DEF FinderInv, FitInv
  <1>2. FinderInv /\ FitInv /\ [Next]_vars => (FinderInv /\ FitInv)'
    BY InvKept, FitInvKept
  <1>3. QED
    BY <1>1, <1>2, PTL DEF Spec

(* The stores of LFGMgr keep their types in every run: what a handler,      *)
(* Update's search or a teleport from a map's thread leaves behind.         *)
THEOREM FinderTypeCorrect == Spec => []TypeOK
  <1>1. FinderInv => TypeOK
    <2> SUFFICES ASSUME FinderInv PROVE TypeOK
      OBVIOUS
    <2>1. /\ Good(lfg) /\ lfg.last <= MaxProposals /\ phase \in Phases
          /\ left \in [joins : Nat, trips : Nat] /\ outdated \subseteq LfgGroups
      BY DEF FinderInv, Sound
    <2>2. /\ lfg.pl \in [Players -> [Queues -> PlayerData]]
          /\ lfg.gr \in [Groups -> GroupData]
          /\ lfg.grp \in [Players -> Groups \cup {NoGroup}]
          /\ {lfg.mem, lfg.open} \subseteq [Players -> SUBSET Queues]
          /\ lfg.away \subseteq Players
      BY <2>1 DEF Good, PlayersOK
    <2>3. \A q \in Queues : /\ DOMAIN lfg.data[q] \subseteq Entries
                            /\ Range(lfg.cache[q]) \subseteq Verdicts
      BY <2>1 DEF Good, QueuesOK, QueueOK, DataOK
    <2>4. DOMAIN lfg.prop \subseteq LfgGroups
      BY ProposalNumber DEF FinderInv
    <2>5. DOMAIN lfg.chk \subseteq Groups
      BY <2>1 DEF Good, ChecksOK
    <2>6. QED
      BY <2>1, <2>2, <2>3, <2>4, <2>5 DEF TypeOK, Phases
  <1>2. QED
    BY <1>1, FinderInvariant, PTL

(* Whatever sequence of joins, leaves, refusals, timeouts, disbandings and  *)
(* searches, an entry that a queue lists or has a verdict of has its data.  *)
THEOREM FinderQueuesAgree == Spec => []QueueStoresAgree
  <1>1. FinderInv => QueueStoresAgree
    BY DEF FinderInv, Sound, Good, QueuesOK, QueueOK, QueueStoresAgree
  <1>2. QED
    BY <1>1, FinderInvariant, PTL

(* LFGMgr's data of a dungeon group has the members the Group has, and no   *)
(* player's data names a group it has left.                                 *)
THEOREM FinderGroupsKnown == Spec => []GroupDataAgrees
  <1>1. FinderInv => GroupDataAgrees
    <2> SUFFICES ASSUME FinderInv PROVE GroupDataAgrees
      OBVIOUS
    <2>1. Known(lfg)
      BY DEF FinderInv, Sound
    <2>2. \A g \in LfgGroups : lfg.gr[g].players = Members(lfg, g)
      BY <2>1 DEF Known, GroupKnown
    <2>3. \A p \in Players, q \in Queues : lfg.pl[p][q].group \in {NoGroup, lfg.grp[p]}
      BY <2>1 DEF Known, NamesKnown
    <2>4. QED
      BY <2>2, <2>3 DEF GroupDataAgrees
  <1>2. QED
    BY <1>1, FinderInvariant, PTL

(* A dungeon group fits its dungeon, however often it is filled up again,   *)
(* unless it took in a player while the finder still held it.               *)
THEOREM FinderGroupsFit == Spec => []GroupsFit
  <1>1. FitInv => GroupsFit
    <2> SUFFICES ASSUME FitInv, NEW g \in LfgGroups \ outdated
                 PROVE  /\ Cardinality(Members(lfg, g)) <= MaxSize
                        /\ RolesFit(Members(lfg, g))
      BY DEF GroupsFit, RolesFit
    <2>1. FitsIn(Members(lfg, g))
      BY DEF FitInv, Fit
    <2>2. QED
      BY <2>1 DEF FitsIn
  <1>2. QED
    BY <1>1, FinderInvariant, PTL

(* Who is put into a dungeon group is of a proposal nobody refused and all  *)
(* but the one who answers had agreed to.                                   *)
THEOREM FinderOnlyByConsent == Spec => OnlyByConsent
  <1> DEFINE A == \A p \in Players :
        lfg'.grp[p] \in LfgGroups \ {lfg.grp[p]} =>
            \E id \in DOMAIN lfg.prop \ DOMAIN lfg'.prop :
                LET answer == lfg.prop[id].answer
                IN  /\ p \in DOMAIN answer
                    /\ "deny" \notin Range(answer)
                    /\ Cardinality({x \in DOMAIN answer : answer[x] = "pending"}) <= 1
  <1>1. FinderInv /\ [Next]_vars => [A]_vars
    <2> SUFFICES ASSUME FinderInv, Next PROVE A
      OBVIOUS
    <2>1. Consented(lfg, lfg')
      BY StepInv DEF StepOK1, StepOK
    <2>2. QED
      BY <2>1 DEF Consented
  <1>2. OnlyByConsent <=> [][A]_vars
    BY DEF OnlyByConsent
  <1> HIDE DEF A
  <1>3. QED
    BY <1>1, <1>2, FinderInvariant, PTL DEF Spec

(* A proposal that fails, by a refusal, a timeout, or a player who leaves   *)
(* the queue, the group or the party, leaves those who agreed to it listed. *)
THEOREM FinderInnocentRequeued == Spec => InnocentRequeued
  <1> DEFINE A == \A id \in DOMAIN lfg.prop \ DOMAIN lfg'.prop :
        LET pr == lfg.prop[id]
            S == DOMAIN pr.answer
            agreed == {p \in S : pr.answer[p] = "agree" /\ pr.from[p] = NoGroup}
            failed == \E p \in S : lfg'.pl[p][pr.queue].now # "dungeon"
        IN  failed => agreed \cap DOMAIN lfg'.data[pr.queue]
                        \subseteq Listed(lfg', pr.queue)
  <1>1. FinderInv /\ [Next]_vars => [A]_vars
    <2> SUFFICES ASSUME FinderInv, Next PROVE A
      OBVIOUS
    <2>1. Requeued(lfg, lfg')
      BY StepInv DEF StepOK1, StepOK
    <2>2. QED
      BY <2>1 DEF Requeued
  <1>2. InnocentRequeued <=> [][A]_vars
    BY DEF InnocentRequeued
  <1> HIDE DEF A
  <1>3. QED
    BY <1>1, <1>2, FinderInvariant, PTL DEF Spec
=============================================================================
