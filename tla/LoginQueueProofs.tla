-------------------------- MODULE LoginQueueProofs --------------------------
(* Proofs about LoginQueue for any accounts, sessions, threads and limit.   *)
EXTENDS LoginQueue, SequenceTheorems, FiniteSetTheorems, TLAPS

(* Queues without repetition, and the sets they hold.                       *)
LEMMA Held ==
  ASSUME NEW S, NEW q \in Seq(S)
  PROVE  /\ ToSet(q) \subseteq S
         /\ \A x : x \in ToSet(q) <=> \E i \in 1..Len(q) : q[i] = x
         /\ IsInjective(q) <=> \A i, j \in 1..Len(q) : q[i] = q[j] => i = j
  BY DEF ToSet, IsInjective

LEMMA HeldCount ==
  ASSUME NEW S, NEW q \in Seq(S), IsInjective(q)
  PROVE  IsFiniteSet(ToSet(q)) /\ Cardinality(ToSet(q)) = Len(q)
  <1> DEFINE I == 1..Len(q)
  <1>1. Len(q) \in Nat /\ q \in [I -> S]
    OBVIOUS
  <1>2. IsFiniteSet(I) /\ Cardinality(I) = Len(q)
    BY <1>1, FS_Interval
  <1>3. q \in [I -> ToSet(q)]
    BY <1>1 DEF ToSet
  <1>4. q \in Surjection(I, ToSet(q))
    BY <1>1, <1>3 DEF Surjection, ToSet
  <1>5. q \in Injection(I, ToSet(q))
    BY <1>1, <1>3 DEF Injection, IsInjective
  <1>6. QED
    BY <1>2, <1>4, <1>5, FS_Surjection

LEMMA HeldAppend ==
  ASSUME NEW S, NEW q \in Seq(S), IsInjective(q), NEW x \in S, x \notin ToSet(q)
  PROVE  /\ Append(q, x) \in Seq(S) /\ IsInjective(Append(q, x))
         /\ ToSet(Append(q, x)) = ToSet(q) \cup {x}
  <1> DEFINE r == Append(q, x)
             n == Len(q)
  <1>1. /\ r \in Seq(S) /\ n \in Nat /\ Len(r) = n + 1
        /\ \A i \in 1..n : r[i] = q[i]
        /\ r[n + 1] = x
    OBVIOUS
  <1> HIDE DEF r, n
  <1>2. \A i \in 1..Len(r) : i \in 1..n \/ i = n + 1
    BY <1>1
  <1>3. /\ \A i \in 1..n : i \in 1..Len(r)
        /\ n + 1 \in 1..Len(r)
    BY <1>1
  <1>4. \A y : y \in ToSet(r) <=> \E i \in 1..Len(r) : r[i] = y
    BY <1>1, Held
  <1>5. \A y : y \in ToSet(q) <=> \E i \in 1..n : q[i] = y
    BY Held DEF n
  <1>6. ToSet(r) = ToSet(q) \cup {x}
    <2>1. ASSUME NEW y \in ToSet(r) PROVE y \in ToSet(q) \cup {x}
      <3>1. PICK i \in 1..Len(r) : r[i] = y
        BY <1>4
      <3>2. CASE i \in 1..n
        BY <1>1, <1>5, <3>1, <3>2
      <3>3. CASE i = n + 1
        BY <1>1, <3>1, <3>3
      <3>4. QED
        BY <1>2, <3>2, <3>3, Zenon
    <2>2. ASSUME NEW y \in ToSet(q) \cup {x} PROVE y \in ToSet(r)
      <3>1. CASE y = x
        BY <1>1, <1>3, <1>4, <3>1, Zenon
      <3>2. CASE y \in ToSet(q)
        BY <1>1, <1>3, <1>4, <1>5, <3>2, Zenon
      <3>3. QED
        BY <3>1, <3>2
    <2>3. QED
      BY <2>1, <2>2, Zenon
  <1>7. \A i, j \in 1..n : q[i] = q[j] => i = j
    BY Held DEF n
  <1>8. \A i \in 1..n : q[i] # x
    BY <1>5
  <1>9. \A i, j \in 1..Len(r) : r[i] = r[j] => i = j
    <2>1. SUFFICES ASSUME NEW i \in 1..Len(r), NEW j \in 1..Len(r), r[i] = r[j]
                   PROVE  i = j
      BY Zenon
    <2>2. CASE i \in 1..n /\ j \in 1..n
      BY <1>1, <1>7, <2>1, <2>2, Zenon
    <2>3. CASE i \in 1..n /\ j = n + 1
      BY <1>1, <1>8, <2>1, <2>3, Zenon
    <2>4. CASE j \in 1..n /\ i = n + 1
      BY <1>1, <1>8, <2>1, <2>4, Zenon
    <2>5. QED
      BY <1>2, <2>2, <2>3, <2>4, Zenon
  <1>10. IsInjective(r)
    BY <1>1, <1>9, Held
  <1>11. QED
    BY <1>1, <1>6, <1>10 DEF r

LEMMA HeldTail ==
  ASSUME NEW S, NEW q \in Seq(S), IsInjective(q), q # <<>>
  PROVE  /\ Tail(q) \in Seq(S) /\ IsInjective(Tail(q))
         /\ Head(q) \in ToSet(q) /\ ToSet(Tail(q)) = ToSet(q) \ {Head(q)}
  <1> DEFINE r == Tail(q)
             n == Len(q)
  <1>1. /\ r \in Seq(S) /\ n \in Nat /\ n >= 1 /\ Len(r) = n - 1
        /\ \A i \in 1..(n - 1) : r[i] = q[i + 1]
        /\ Head(q) = q[1]
    OBVIOUS
  <1> HIDE DEF r, n
  <1>2. /\ \A i \in 1..Len(r) : i + 1 \in 1..n /\ i + 1 # 1
        /\ \A i \in 1..n : i = 1 \/ (i - 1 \in 1..Len(r) /\ (i - 1) + 1 = i)
        /\ 1 \in 1..n
    BY <1>1
  <1>3. /\ \A y : y \in ToSet(r) <=> \E i \in 1..Len(r) : r[i] = y
        /\ \A y : y \in ToSet(q) <=> \E i \in 1..n : q[i] = y
    BY <1>1, Held DEF n
  <1>4. \A i, j \in 1..n : q[i] = q[j] => i = j
    BY Held DEF n
  <1>5. \A i \in 1..Len(r) : r[i] = q[i + 1]
    BY <1>1
  <1>6. Head(q) \in ToSet(q)
    BY <1>1, <1>2, <1>3, Zenon
  <1>7. ASSUME NEW y \in ToSet(r) PROVE y \in ToSet(q) \ {Head(q)}
    <2>1. PICK i \in 1..Len(r) : r[i] = y
      BY <1>3
    <2>2. q[i + 1] = y /\ i + 1 \in 1..n /\ i + 1 # 1
      BY <1>2, <1>5, <2>1, Zenon
    <2>3. y # q[1]
      BY <1>2, <1>4, <2>2, Zenon
    <2>4. QED
      BY <1>1, <1>3, <2>2, <2>3
  <1>8. ASSUME NEW y \in ToSet(q) \ {Head(q)} PROVE y \in ToSet(r)
    <2>1. PICK i \in 1..n : q[i] = y
      BY <1>3
    <2>2. i # 1
      BY <1>1, <2>1
    <2>3. i - 1 \in 1..Len(r) /\ (i - 1) + 1 = i
      BY <1>2, <2>2, Zenon
    <2>4. r[i - 1] = q[(i - 1) + 1]
      BY <1>5, <2>3, Zenon
    <2>5. r[i - 1] = y
      BY <2>1, <2>3, <2>4, Zenon
    <2>6. QED
      BY <1>3, <2>3, <2>5, Zenon
  <1>9. ToSet(r) = ToSet(q) \ {Head(q)}
    BY <1>7, <1>8, Zenon
  <1>10. \A i, j \in 1..Len(r) : r[i] = r[j] => i = j
    <2>1. SUFFICES ASSUME NEW i \in 1..Len(r), NEW j \in 1..Len(r), r[i] = r[j]
                   PROVE  i = j
      BY Zenon
    <2>2. i + 1 = j + 1
      BY <1>2, <1>4, <1>5, <2>1, Zenon
    <2>3. QED
      BY <2>2
  <1>11. IsInjective(r)
    BY <1>1, <1>10, Held
  <1>12. QED
    BY <1>1, <1>6, <1>9, <1>11 DEF r

(* Erasing a session from the queue.                                        *)
LEMMA HeldWithout ==
  ASSUME NEW S, NEW q \in Seq(S), IsInjective(q), NEW s
  PROVE  /\ Without(q, s) \in Seq(S) /\ IsInjective(Without(q, s))
         /\ ToSet(Without(q, s)) = ToSet(q) \ {s}
  <1>1. CASE s \notin ToSet(q)
    BY <1>1 DEF Without
  <1>2. CASE s \in ToSet(q)
    <2> DEFINE n == Len(q)
               First(i) == q[i] = s /\ \A j \in 1..(i - 1) : q[j] # s
               k == CHOOSE i \in 1..Len(q) : First(i)
               r == RemoveAt(q, k)
    <2>1. n \in Nat /\ \A i, j \in 1..n : q[i] = q[j] => i = j
      BY Held
    <2>2. \E i \in 1..n : First(i)
      <3>1. PICK i \in 1..n : q[i] = s
        BY <1>2, Held
      <3>2. \A j \in 1..(i - 1) : j \in 1..n /\ j # i
        BY <2>1
      <3>3. \A j \in 1..(i - 1) : q[j] # s
        BY <2>1, <3>1, <3>2, Zenon
      <3>4. QED
        BY <3>1, <3>3
    <2>3. k \in 1..n /\ q[k] = s
      BY <2>2, Zenon
    <2> HIDE DEF k, n
    <2>4. /\ r \in Seq(S) /\ Len(r) = n - 1
          /\ \A i \in 1..(n - 1) : r[i] = IF i < k THEN q[i] ELSE q[i + 1]
      <3> DEFINE a == SubSeq(q, 1, k - 1)
                 b == SubSeq(q, k + 1, n)
      <3>1. /\ a \in Seq(S) /\ Len(a) = k - 1
            /\ \A i \in 1..(k - 1) : a[i] = q[i]
        BY <2>1, <2>3, SubSeqProperties DEF n
      <3>2. /\ b \in Seq(S) /\ Len(b) = n - k
            /\ \A i \in 1..(n - k) : b[i] = q[k + i]
        BY <2>1, <2>3, SubSeqProperties DEF n
      <3>3. r = a \o b
        BY DEF RemoveAt, n
      <3> HIDE DEF a, b, r
      <3>4. /\ r \in Seq(S) /\ Len(r) = Len(a) + Len(b)
            /\ \A i \in 1..(Len(a) + Len(b)) : r[i] = IF i <= Len(a) THEN a[i] ELSE b[i - Len(a)]
        BY <3>1, <3>2, <3>3, ConcatProperties
      <3>5. Len(r) = n - 1
        BY <2>1, <2>3, <3>1, <3>2, <3>4
      <3>6. ASSUME NEW i \in 1..(n - 1) PROVE r[i] = IF i < k THEN q[i] ELSE q[i + 1]
        <4>1. CASE i < k
          BY <2>1, <2>3, <3>1, <3>2, <3>4, <4>1
        <4>2. CASE ~(i < k)
          <5>1. i - (k - 1) \in 1..(n - k) /\ k + (i - (k - 1)) = i + 1
            BY <2>1, <2>3, <4>2
          <5>2. r[i] = b[i - (k - 1)]
            BY <2>1, <2>3, <3>1, <3>2, <3>4, <4>2
          <5>3. b[i - (k - 1)] = q[i + 1]
            BY <3>2, <5>1
          <5>4. QED
            BY <4>2, <5>2, <5>3
        <4>3. QED
          BY <4>1, <4>2
      <3>7. QED
        BY <3>4, <3>5, <3>6
    <2> HIDE DEF r
    <2> DEFINE Old(i) == IF i < k THEN i ELSE i + 1
    <2>5. \A i \in 1..Len(r) : Old(i) \in 1..n /\ Old(i) # k /\ r[i] = q[Old(i)]
      BY <2>1, <2>3, <2>4
    <2>6. \A i, j \in 1..Len(r) : Old(i) = Old(j) => i = j
      BY <2>1, <2>3, <2>4
    <2>7. \A m \in 1..n : m # k => \E i \in 1..Len(r) : Old(i) = m
      <3>1. SUFFICES ASSUME NEW m \in 1..n, m # k
                     PROVE  \E i \in 1..Len(r) : Old(i) = m
        BY Zenon
      <3>2. CASE m < k
        <4>1. m \in 1..Len(r) /\ Old(m) = m
          BY <2>1, <2>3, <2>4, <3>2
        <4>2. QED
          BY <4>1
      <3>3. CASE m > k
        <4>1. m - 1 \in 1..Len(r) /\ Old(m - 1) = m
          BY <2>1, <2>3, <2>4, <3>3
        <4>2. QED
          BY <4>1
      <3>4. QED
        BY <2>1, <2>3, <3>1, <3>2, <3>3
    <2> HIDE DEF Old
    <2>8. /\ \A y : y \in ToSet(r) <=> \E i \in 1..Len(r) : r[i] = y
          /\ \A y : y \in ToSet(q) <=> \E i \in 1..n : q[i] = y
      BY <2>4, Held DEF n
    <2>9. ASSUME NEW y \in ToSet(r) PROVE y \in ToSet(q) \ {s}
      <3>1. PICK i \in 1..Len(r) : r[i] = y
        BY <2>8
      <3>2. Old(i) \in 1..n /\ Old(i) # k /\ q[Old(i)] = y
        BY <2>5, <3>1, Zenon
      <3>3. y # s
        BY <2>1, <2>3, <3>2, Zenon
      <3>4. QED
        BY <2>8, <3>2, <3>3
    <2>10. ASSUME NEW y \in ToSet(q) \ {s} PROVE y \in ToSet(r)
      <3>1. PICK m \in 1..n : q[m] = y
        BY <2>8
      <3>2. m # k
        BY <2>3, <3>1
      <3>3. PICK i \in 1..Len(r) : Old(i) = m
        BY <2>7, <3>2, Zenon
      <3>4. QED
        BY <2>5, <2>8, <3>1, <3>3, Zenon
    <2>11. ToSet(r) = ToSet(q) \ {s}
      BY <2>9, <2>10, Zenon
    <2>12. \A i, j \in 1..Len(r) : r[i] = r[j] => i = j
      BY <2>1, <2>5, <2>6, Zenon
    <2>13. IsInjective(r)
      BY <2>4, <2>12, Held
    <2>14. Without(q, s) = r
      BY <1>2 DEF Without, r, k
    <2>15. QED
      BY <2>4, <2>11, <2>13, <2>14
  <1>3. QED
    BY <1>1, <1>2
-----------------------------------------------------------------------------
(* RemoveQueuedPlayer on a record of the state it works on.                 *)
QState == [queue : Seq(Sessions), inQueue : SUBSET Sessions, initializing : SUBSET Sessions,
           admitted : SUBSET Sessions, count : 0..(Modulus - 1)]

LEMMA Bounds ==
  /\ Limit \in Nat /\ Modulus \in Nat /\ Modulus >= 1
  /\ IsFiniteSet(Sessions) /\ Cardinality(Sessions) \in Nat /\ Cardinality(Sessions) < Modulus
  /\ NoSession \notin Sessions /\ AccountOf \in [Sessions -> Accounts]
  <1>1. Cardinality(Sessions) \in Nat
    BY LoginQueueConstants, FS_CardinalityType
  <1>2. QED
    BY <1>1, LoginQueueConstants

(* How many sessions are in, besides s, when s leaves.                      *)
Others(st, s) ==
  LET sessions == ActiveSessionCount(st.count, st.queue)
  IN  IF s \notin ToSet(st.queue) /\ sessions > 0 THEN sessions - 1 ELSE sessions

(* It takes s out and lets at most one session in: the set in.              *)
LetIn(st, s, r, in) ==
  /\ in \subseteq ToSet(st.queue) \ {s}
  /\ ToSet(r.queue) = (ToSet(st.queue) \ {s}) \ in
  /\ r.initializing = st.initializing \cup in
  /\ r.admitted = st.admitted \cup in
  /\ in = {} \/ \E h : in = {h} /\ (Limit = 0 \/ Others(st, s) < Limit)

TakenOut(st, s, r) ==
  /\ r \in QState /\ r.count = st.count /\ IsInjective(r.queue)
  /\ r.inQueue = IF s \in ToSet(st.queue) THEN st.inQueue \ {s} ELSE st.inQueue
  /\ \E in \in SUBSET Sessions : LetIn(st, s, r, in)

LEMMA RemoveEffect ==
  ASSUME NEW st \in QState, IsInjective(st.queue), NEW s \in Sessions
  PROVE  TakenOut(st, s, RemoveQueuedPlayer(st, s))
  <1> DEFINE r == RemoveQueuedPlayer(st, s)
  <1> DEFINE q == Without(st.queue, s)
             left == IF s \in ToSet(st.queue) THEN st.inQueue \ {s} ELSE st.inQueue
             w == [st EXCEPT !.queue = q, !.inQueue = left]
             admits == (Limit = 0 \/ Others(st, s) < Limit) /\ q # <<>>
  <1>1. st.queue \in Seq(Sessions)
    BY DEF QState
  <1>2. q \in Seq(Sessions) /\ IsInjective(q) /\ ToSet(q) = ToSet(st.queue) \ {s}
    BY <1>1, HeldWithout
  <1>3. left \in SUBSET Sessions
    BY DEF QState
  <1> HIDE DEF q, left
  <1>4. /\ w \in QState /\ w.queue = q /\ w.inQueue = left
        /\ w.initializing = st.initializing /\ w.admitted = st.admitted /\ w.count = st.count
    BY <1>2, <1>3 DEF QState
  <1>5. r = IF admits THEN AdmitFirst(w) ELSE w
    BY DEF RemoveQueuedPlayer, Others, q, left
  <1> HIDE DEF w, r
  <1>6. CASE ~admits
    <2>1. r = w
      BY <1>5, <1>6
    <2>2. {} \in SUBSET Sessions
      OBVIOUS
    <2>3. ToSet(r.queue) = (ToSet(st.queue) \ {s}) \ {}
      BY <1>2, <1>4, <2>1
    <2>4. r.initializing = st.initializing \cup {} /\ r.admitted = st.admitted \cup {}
      BY <1>4, <2>1
    <2>5. r \in QState /\ r.count = st.count /\ IsInjective(r.queue) /\ r.inQueue = left
      BY <1>2, <1>4, <2>1, Zenon
    <2>6. LetIn(st, s, r, {})
      BY <2>3, <2>4, Zenon DEF LetIn
    <2>7. QED
      BY <2>2, <2>5, <2>6, Zenon DEF left, r, TakenOut
  <1>7. CASE admits
    <2> DEFINE h == Head(q)
    <2>1. r = AdmitFirst(w)
      BY <1>5, <1>7
    <2>2. /\ Tail(q) \in Seq(Sessions) /\ IsInjective(Tail(q))
          /\ h \in ToSet(q) /\ ToSet(Tail(q)) = ToSet(q) \ {h}
      BY <1>2, <1>7, HeldTail
    <2>3. h \in Sessions
      BY <1>2, <1>7
    <2> HIDE DEF h
    <2>4. r = [w EXCEPT !.queue = Tail(q), !.initializing = w.initializing \cup {h},
                        !.admitted = w.admitted \cup {h}]
      BY <1>4, <2>1 DEF AdmitFirst, h
    <2>5. /\ w.initializing \cup {h} \in SUBSET Sessions /\ w.admitted \cup {h} \in SUBSET Sessions
      BY <1>4, <2>3 DEF QState
    <2>6. /\ r \in QState /\ r.queue = Tail(q) /\ r.inQueue = w.inQueue /\ r.count = w.count
           /\ r.initializing = w.initializing \cup {h} /\ r.admitted = w.admitted \cup {h}
      <3> DEFINE a == w.initializing \cup {h}
                 b == w.admitted \cup {h}
                 t == Tail(q)
      <3>1. r = [w EXCEPT !.queue = t, !.initializing = a, !.admitted = b]
        BY <2>4
      <3>2. t \in Seq(Sessions) /\ a \in SUBSET Sessions /\ b \in SUBSET Sessions
        BY <2>2, <2>5, Zenon
      <3> HIDE DEF a, b, t
      <3>3. /\ r \in QState /\ r.queue = t /\ r.inQueue = w.inQueue /\ r.count = w.count
            /\ r.initializing = a /\ r.admitted = b
        BY <1>4, <3>1, <3>2 DEF QState
      <3>4. QED
        BY <3>3 DEF a, b, t
    <2>7. /\ r \in QState /\ r.queue = Tail(q) /\ r.inQueue = left /\ r.count = st.count
          /\ r.initializing = st.initializing \cup {h} /\ r.admitted = st.admitted \cup {h}
      BY <1>4, <2>6, Zenon
    <2>8. {h} \in SUBSET Sessions /\ {h} \subseteq ToSet(st.queue) \ {s}
      BY <1>2, <2>2, <2>3
    <2>9. ToSet(r.queue) = (ToSet(st.queue) \ {s}) \ {h}
      BY <1>2, <2>2, <2>7
    <2>10. IsInjective(r.queue)
      BY <2>2, <2>7
    <2>11. LetIn(st, s, r, {h})
      BY <1>7, <2>7, <2>8, <2>9, Zenon DEF LetIn
    <2>12. QED
      BY <2>7, <2>8, <2>10, <2>11, Zenon DEF left, r, TakenOut
  <1>8. QED
    BY <1>6, <1>7

LEMMA RemoveAgree ==
  ASSUME NEW st \in QState, NEW L, Agree(st, L), NEW s \in Sessions,
         NEW r, r = RemoveQueuedPlayer(st, s)
  PROVE  /\ r \in QState /\ r.count = st.count /\ Agree(r, L)
         /\ s \notin ToSet(r.queue)
         /\ s \in r.admitted <=> s \in st.admitted
         /\ s \in r.initializing <=> s \in st.initializing
         /\ ToSet(r.queue) \subseteq ToSet(st.queue)
         /\ st.admitted \subseteq r.admitted
         /\ r.admitted \subseteq st.admitted \cup ToSet(st.queue)
         /\ r.inQueue \subseteq st.inQueue
  <1>1. IsInjective(st.queue)
    BY DEF Agree
  <1>0. TakenOut(st, s, r)
    BY <1>1, RemoveEffect, Zenon
  <1> DEFINE Q == ToSet(st.queue)
  <1>2. /\ r \in QState /\ r.count = st.count /\ IsInjective(r.queue)
        /\ r.inQueue = IF s \in Q THEN st.inQueue \ {s} ELSE st.inQueue
    BY <1>0 DEF TakenOut
  <1>3. PICK in \in SUBSET Sessions :
          /\ in \subseteq Q \ {s}
          /\ ToSet(r.queue) = (Q \ {s}) \ in
          /\ r.initializing = st.initializing \cup in
          /\ r.admitted = st.admitted \cup in
    BY <1>0 DEF TakenOut, LetIn
  <1> HIDE DEF Q
  <1>4. /\ Q \subseteq L /\ Q \cap st.admitted = {}
        /\ st.initializing \subseteq L \cap st.admitted
        /\ Q \subseteq st.inQueue /\ st.inQueue \subseteq Q \cup st.admitted
        /\ st.inQueue \cap L \subseteq Q \cup st.initializing
    BY DEF Agree, Q
  <1>5. ToSet(r.queue) \subseteq L /\ ToSet(r.queue) \cap r.admitted = {}
    BY <1>3, <1>4
  <1>6. r.initializing \subseteq L \cap r.admitted
    BY <1>3, <1>4
  <1>7. ToSet(r.queue) \subseteq r.inQueue /\ r.inQueue \subseteq ToSet(r.queue) \cup r.admitted
    BY <1>2, <1>3, <1>4
  <1>8. r.inQueue \cap L \subseteq ToSet(r.queue) \cup r.initializing
    BY <1>2, <1>3, <1>4
  <1>9. Agree(r, L)
    BY <1>2, <1>5, <1>6, <1>7, <1>8 DEF Agree
  <1>10. /\ s \notin ToSet(r.queue) /\ ToSet(r.queue) \subseteq Q
         /\ s \in r.admitted <=> s \in st.admitted
    BY <1>3
  <1>11. /\ s \in r.initializing <=> s \in st.initializing
         /\ st.admitted \subseteq r.admitted /\ r.admitted \subseteq st.admitted \cup Q
    BY <1>3
  <1>12. r.inQueue \subseteq st.inQueue
    BY <1>2
  <1>13. QED
    BY <1>2, <1>9, <1>10, <1>11, <1>12 DEF Q

(* Whoever it lets in, there is room for: C stands for all the sessions.    *)
LEMMA RemoveBound ==
  ASSUME NEW st \in QState, IsInjective(st.queue), NEW s \in Sessions, Limit > 0,
         NEW C \in SUBSET Sessions, ToSet(st.queue) \subseteq C, s \in C,
         st.count = Cardinality(C),
         NEW r, r = RemoveQueuedPlayer(st, s)
  PROVE  \/ ToSet(r.queue) = ToSet(st.queue) \ {s}
         \/ Cardinality((C \ {s}) \ ToSet(r.queue)) <= Limit
  <1> DEFINE Q == ToSet(st.queue) \ {s}
             D == C \ {s}
  <1>1. PICK in \in SUBSET Sessions :
          /\ in \subseteq Q /\ ToSet(r.queue) = Q \ in
          /\ in = {} \/ \E h : in = {h} /\ (Limit = 0 \/ Others(st, s) < Limit)
    <2>1. TakenOut(st, s, r)
      BY RemoveEffect, Zenon
    <2>2. QED
      BY <2>1 DEF TakenOut, LetIn
  <1>2. CASE in = {}
    BY <1>1, <1>2
  <1>3. CASE in # {}
    <2>1. PICK h : in = {h} /\ (Limit = 0 \/ Others(st, s) < Limit)
      BY <1>1, <1>3
    <2>2. Others(st, s) < Limit /\ h \in Q /\ ToSet(r.queue) = Q \ {h}
      BY <1>1, <2>1, Bounds
    <2>3. /\ IsFiniteSet(ToSet(st.queue)) /\ Cardinality(ToSet(st.queue)) = Len(st.queue)
          /\ Len(st.queue) \in Nat
      BY HeldCount DEF QState
    <2> DEFINE W == ToSet(st.queue)
    <2> HIDE DEF W
    <2>4. /\ IsFiniteSet(W \ {s})
          /\ Cardinality(W \ {s}) = IF s \in W THEN Cardinality(W) - 1 ELSE Cardinality(W)
      <3>1. IsFiniteSet(W)
        BY <2>3 DEF W
      <3>2. QED
        BY <3>1, FS_RemoveElement
    <2>5. IsFiniteSet(C)
      BY Bounds, FS_Subset
    <2>6. IsFiniteSet(D) /\ Cardinality(D) = Cardinality(C) - 1
      BY <2>5, FS_RemoveElement
    <2>7. Q = W \ {s} /\ Q \subseteq D /\ D \cap Q = Q
      BY DEF W
    <2> HIDE DEF Q, D
    <2>8. IsFiniteSet(Q) /\ IsFiniteSet(D) /\ IsFiniteSet(D \ Q)
      BY <2>4, <2>6, <2>7, FS_Difference
    <2>9. Cardinality(C) \in Nat /\ Cardinality(D) \in Nat /\ Cardinality(Q) \in Nat
      BY <2>5, <2>8, FS_CardinalityType
    <2>10. Cardinality(Q) <= Cardinality(D)
      BY <2>7, <2>8, FS_Subset
    <2>11. Cardinality(D \ Q) = Cardinality(D) - Cardinality(Q)
      <3>1. Cardinality(D \ Q) = Cardinality(D) - Cardinality(D \cap Q)
        BY <2>8, FS_Difference, Zenon
      <3>2. QED
        BY <2>7, <3>1
    <2>12. /\ D \ (Q \ {h}) = (D \ Q) \cup {h}
           /\ h \notin D \ Q
      BY <2>2, <2>7
    <2>13. Cardinality(D \ (Q \ {h})) = Cardinality(D) - Cardinality(Q) + 1
      <3>1. Cardinality((D \ Q) \cup {h}) = Cardinality(D \ Q) + 1
        BY <2>8, <2>12, FS_AddElement
      <3>2. QED
        BY <2>11, <2>12, <3>1
    <2>14. Others(st, s) = Cardinality(D) - Cardinality(Q)
      <3>1. Cardinality(W) = Len(st.queue) /\ st.count = Cardinality(C)
        BY <2>3 DEF W
      <3>2. Others(st, s) = LET n == IF st.count >= Len(st.queue) THEN st.count - Len(st.queue)
                                     ELSE Modulus - 1
                            IN IF s \notin W /\ n > 0 THEN n - 1 ELSE n
        BY DEF Others, ActiveSessionCount, W
      <3>3. CASE s \in W
        BY <2>3, <2>4, <2>6, <2>7, <2>9, <2>10, <3>1, <3>2, <3>3
      <3>4. CASE s \notin W
        BY <2>3, <2>4, <2>6, <2>7, <2>9, <2>10, <3>1, <3>2, <3>4
      <3>5. QED
        BY <3>3, <3>4
    <2>15. Cardinality(D \ (Q \ {h})) <= Limit
      BY <2>2, <2>9, <2>13, <2>14, Bounds
    <2>16. QED
      BY <2>2, <2>15 DEF Q, D
  <1>4. QED
    BY <1>2, <1>3
-----------------------------------------------------------------------------
(* What the invariant says of the sets.                                     *)
LEMMA Parts ==
  ASSUME LoginInv
  PROVE  /\ authing \subseteq Sessions /\ Listed \subseteq Sessions /\ lingering \subseteq Sessions
         /\ pending \in Seq(Sessions) /\ ToSet(pending) \subseteq Sessions
         /\ queue \in Seq(Sessions) /\ IsInjective(queue) /\ Waiting \subseteq Listed
         /\ sessionCount \in 0..(Modulus - 1)
         /\ State \in QState /\ Agree(State, Listed)
         /\ State.queue = queue /\ State.inQueue = inQueue /\ State.initializing = initializing
         /\ State.admitted = admitted /\ State.count = sessionCount
  <1>1. TypeOK /\ Agree(State, Listed)
    BY DEF LoginInv
  <1>2. authing \subseteq Sessions /\ Listed \subseteq Sessions /\ lingering \subseteq Sessions
    BY <1>1 DEF TypeOK, Listed
  <1>3. pending \in Seq(Sessions) /\ queue \in Seq(Sessions) /\ sessionCount \in 0..(Modulus - 1)
    BY <1>1 DEF TypeOK
  <1>4. ToSet(pending) \subseteq Sessions
    BY <1>3, Held
  <1>5. /\ State.queue = queue /\ State.inQueue = inQueue /\ State.initializing = initializing
        /\ State.admitted = admitted /\ State.count = sessionCount
    BY DEF State
  <1>6. State \in QState
    BY <1>1 DEF TypeOK, State, QState
  <1>7. IsInjective(queue) /\ Waiting \subseteq Listed
    BY <1>1, <1>5 DEF Agree, Waiting
  <1>8. QED
    BY <1>1, <1>2, <1>3, <1>4, <1>5, <1>6, <1>7

LEMMA Places ==
  ASSUME LoginInv
  PROVE  /\ IsInjective(pending) /\ authing \cap ToSet(pending) = {}
         /\ (authing \cup ToSet(pending)) \cap (Listed \cup lingering \cup admitted) = {}
         /\ lingering \cap Listed = {} /\ lingering \subseteq offline
         /\ Constructed = authing \cup ToSet(pending) \cup Listed \cup lingering
         /\ Constructed \in SUBSET Sessions
         /\ IsFiniteSet(Constructed) /\ Cardinality(Constructed) \in Nat
  <1>1. /\ IsInjective(pending) /\ authing \cap ToSet(pending) = {}
        /\ (authing \cup ToSet(pending)) \cap (Listed \cup lingering \cup admitted) = {}
        /\ lingering \cap Listed = {} /\ lingering \subseteq offline
    BY DEF LoginInv, OnePlace
  <1>2. /\ Constructed = authing \cup ToSet(pending) \cup Listed \cup lingering
        /\ Constructed \in SUBSET Sessions
    BY Parts DEF Constructed
  <1>3. IsFiniteSet(Constructed)
    BY <1>2, Bounds, FS_Subset
  <1>4. Cardinality(Constructed) \in Nat
    BY <1>3, FS_CardinalityType
  <1>5. QED
    BY <1>1, <1>2, <1>3, <1>4

(* The counter follows the objects, and never wraps.                        *)
LEMMA CountUp ==
  ASSUME LoginInv, ~lostUpdate, NEW s \in Sessions, s \notin Constructed
  PROVE  Plus(sessionCount) = Cardinality(Constructed \cup {s})
  <1>1. sessionCount = Cardinality(Constructed)
    BY DEF LoginInv, CountIsSessions
  <1>2. /\ Cardinality(Constructed \cup {s}) = Cardinality(Constructed) + 1
        /\ Cardinality(Constructed) \in Nat
    BY Places, FS_AddElement
  <1>3. Constructed \cup {s} \subseteq Sessions
    BY Places
  <1>4. Cardinality(Constructed \cup {s}) <= Cardinality(Sessions)
    BY <1>3, Bounds, FS_Subset
  <1>5. QED
    BY <1>1, <1>2, <1>4, Bounds DEF Plus

LEMMA CountDown ==
  ASSUME LoginInv, ~lostUpdate, NEW s \in Constructed
  PROVE  /\ sessionCount = Cardinality(Constructed) /\ sessionCount > 0
         /\ Minus(sessionCount) = sessionCount - 1
         /\ Cardinality(Constructed \ {s}) = sessionCount - 1
         /\ IsFiniteSet(Constructed \ {s})
  <1>1. sessionCount = Cardinality(Constructed)
    BY DEF LoginInv, CountIsSessions
  <1>2. /\ Cardinality(Constructed \ {s}) = Cardinality(Constructed) - 1
        /\ IsFiniteSet(Constructed \ {s}) /\ Cardinality(Constructed) \in Nat
    BY Places, FS_RemoveElement
  <1>3. Cardinality(Constructed \ {s}) \in Nat
    BY <1>2, FS_CardinalityType
  <1>4. QED
    BY <1>1, <1>2, <1>3 DEF Minus

LEMMA CountTyped ==
  ASSUME NEW n \in 0..(Modulus - 1)
  PROVE  Plus(n) \in 0..(Modulus - 1) /\ Minus(n) \in 0..(Modulus - 1)
  BY Bounds DEF Plus, Minus
-----------------------------------------------------------------------------
(* Steps that leave the list and the queue alone.                           *)
LEMMA ListKept ==
  ASSUME LoginInv, UNCHANGED <<world, queueVars, disconnects>>, lostUpdate => lostUpdate'
  PROVE  Listed' = Listed /\ Waiting' = Waiting /\ Agree(State, Listed)' /\ LimitRespected'
  <1>1. /\ world' = world /\ queue' = queue /\ inQueue' = inQueue /\ staff' = staff
        /\ initializing' = initializing /\ admitted' = admitted /\ disconnects' = disconnects
    BY DEF queueVars
  <1>2. Listed' = Listed /\ Waiting' = Waiting
    BY <1>1 DEF Listed, Waiting
  <1>3. Active' = Active
    BY <1>2 DEF Active
  <1>4. LimitRespected'
    BY <1>1, <1>3 DEF LoginInv, LimitRespected
  <1>5. Agree(State, Listed)
    BY DEF LoginInv
  <1>6. Agree(State, Listed)'
    BY <1>1, <1>2, <1>5 DEF Agree, State
  <1>7. QED
    BY <1>2, <1>4, <1>6

LEMMA CountKept ==
  ASSUME LoginInv, Constructed' = Constructed, sessionCount' = sessionCount,
         lostUpdate' = lostUpdate
  PROVE  CountIsSessions'
  BY DEF LoginInv, CountIsSessions

LEMMA PlacesKept ==
  ASSUME LoginInv, UNCHANGED <<creating, authing, pending, world, queue, lingering, admitted>>,
         offline \subseteq offline', offline' \subseteq offline \cup Constructed
  PROVE  OnePlace' /\ Constructed' = Constructed
  <1>1. Listed' = Listed /\ Waiting' = Waiting
    BY DEF Listed, Waiting
  <1>2. Constructed' = Constructed /\ Creating' = Creating
    BY <1>1 DEF Constructed, Creating
  <1>3. OnePlace
    BY DEF LoginInv
  <1>4. (Creating \cap (Constructed \cup offline \cup admitted))' = {}
    BY <1>2, <1>3 DEF OnePlace
  <1>5. (lingering \cap Listed)' = {} /\ (lingering \subseteq offline)'
    BY <1>1, <1>3 DEF OnePlace
  <1>6. QED
    BY <1>1, <1>2, <1>3, <1>4, <1>5 DEF OnePlace
-----------------------------------------------------------------------------
(* The network threads.                                                     *)
LEMMA CreateBeginStep ==
  ASSUME LoginInv, NEW t \in Threads, NEW s \in Sessions, CreateBegin(t, s)
  PROVE  LoginInv'
  <1>1. /\ creating[t].session = NoSession /\ s \notin Used
        /\ creating' = [creating EXCEPT ![t] = [session |-> s, load |-> sessionCount]]
        /\ UNCHANGED <<authing, lostUpdate, pending, world, lingering, disconnects>>
        /\ UNCHANGED <<queueVars, offline, sessionCount, phase, todo>>
    BY DEF CreateBegin, listVars
  <1>2. UNCHANGED <<queue, inQueue, initializing, admitted, tolerance, staff>>
    BY <1>1 DEF queueVars
  <1>3. TypeOK
    BY DEF LoginInv
  <1>4. TypeOK'
    <2>1. creating' \in [Threads -> [session : Sessions \cup {NoSession}, load : 0..(Modulus - 1)]]
      BY <1>1, <1>3 DEF TypeOK
    <2>2. QED
      BY <1>1, <1>2, <1>3, <2>1 DEF TypeOK
  <1>5. Listed' = Listed /\ Waiting' = Waiting /\ Agree(State, Listed)' /\ LimitRespected'
    BY <1>1, ListKept
  <1>6. Constructed' = Constructed
    BY <1>1, <1>5 DEF Constructed
  <1>7. CountIsSessions'
    BY <1>1, <1>6, CountKept
  <1>8. OnePlace
    BY DEF LoginInv
  <1>9. \A u \in Threads : creating'[u].session = IF u = t THEN s ELSE creating[u].session
    BY <1>1, <1>3 DEF TypeOK
  <1>10. \A u \in Threads : creating[u].session # s
    BY <1>1 DEF Used
  <1>11. \A u, v \in Threads :
           creating'[u].session = creating'[v].session /\ creating'[u].session # NoSession => u = v
    BY <1>8, <1>9, <1>10 DEF OnePlace
  <1>12. Creating' \subseteq Creating \cup {s}
    BY <1>9 DEF Creating
  <1>13. Creating' \cap (Constructed \cup offline \cup admitted) = {}
    BY <1>1, <1>8, <1>12 DEF OnePlace, Used
  <1>14. (Creating \cap (Constructed \cup offline \cup admitted))' = {}
    BY <1>1, <1>2, <1>6, <1>13
  <1>15. OnePlace'
    BY <1>1, <1>2, <1>5, <1>8, <1>11, <1>14 DEF OnePlace
  <1>16. QED
    BY <1>4, <1>5, <1>7, <1>15 DEF LoginInv

LEMMA CreateEndStep ==
  ASSUME LoginInv, NEW t \in Threads, CreateEnd(t)
  PROVE  LoginInv'
  <1> DEFINE s == creating[t].session
  <1>1. /\ s # NoSession
        /\ sessionCount' = Plus(creating[t].load)
        /\ lostUpdate' = (lostUpdate \/ sessionCount # creating[t].load)
        /\ authing' = authing \cup {s}
        /\ creating' = [creating EXCEPT ![t].session = NoSession]
        /\ UNCHANGED <<pending, world, lingering, disconnects, queueVars, offline, phase, todo>>
    BY DEF CreateEnd, listVars
  <1>2. UNCHANGED <<queue, inQueue, initializing, admitted, tolerance, staff>>
    BY <1>1 DEF queueVars
  <1>3. TypeOK /\ OnePlace
    BY DEF LoginInv
  <1>4. creating[t].load \in 0..(Modulus - 1) /\ s \in Sessions
    BY <1>1, <1>3 DEF TypeOK
  <1>5. lostUpdate \in BOOLEAN
    BY <1>3 DEF TypeOK
  <1>6. lostUpdate => lostUpdate'
    BY <1>1
  <1>7. ~lostUpdate' => ~lostUpdate /\ sessionCount = creating[t].load
    BY <1>1
  <1>8. lostUpdate' \in BOOLEAN
    BY <1>1, Zenon
  <1>9. TypeOK'
    <2>1. creating' \in [Threads -> [session : Sessions \cup {NoSession}, load : 0..(Modulus - 1)]]
      BY <1>1, <1>3 DEF TypeOK
    <2>2. sessionCount' \in 0..(Modulus - 1)
      BY <1>1, <1>4, CountTyped
    <2>3. authing' \subseteq Sessions
      BY <1>1, <1>3, <1>4 DEF TypeOK
    <2>4. QED
      BY <1>1, <1>2, <1>3, <1>8, <2>1, <2>2, <2>3 DEF TypeOK
  <1>10. Listed' = Listed /\ Waiting' = Waiting /\ Agree(State, Listed)' /\ LimitRespected'
    BY <1>1, <1>6, ListKept
  <1>11. s \in Creating
    BY <1>1 DEF Creating
  <1>12. s \notin Constructed /\ s \notin offline /\ s \notin admitted
    BY <1>3, <1>11 DEF OnePlace
  <1>13. Constructed' = Constructed \cup {s}
    BY <1>1, <1>10 DEF Constructed
  <1>14. CountIsSessions'
    <2>1. SUFFICES ASSUME ~lostUpdate' PROVE sessionCount' = Cardinality(Constructed')
      BY DEF CountIsSessions
    <2>2. ~lostUpdate /\ sessionCount = creating[t].load
      BY <1>7, <2>1
    <2>3. Plus(sessionCount) = Cardinality(Constructed \cup {s})
      BY <1>4, <1>12, <2>2, CountUp, Zenon
    <2>4. QED
      BY <1>1, <1>13, <2>2, <2>3
  <1>15. \A u \in Threads : creating'[u].session = IF u = t THEN NoSession ELSE creating[u].session
    BY <1>1, <1>3 DEF TypeOK
  <1>16. \A u, v \in Threads :
           creating'[u].session = creating'[v].session /\ creating'[u].session # NoSession => u = v
    BY <1>3, <1>15 DEF OnePlace
  <1>17. Creating' \subseteq Creating \ {s}
    <2>1. \A u \in Threads : creating[u].session = s => u = t
      BY <1>1, <1>3 DEF OnePlace
    <2>2. QED
      BY <1>15, <2>1 DEF Creating
  <1>18. (Creating \cap (Constructed \cup offline \cup admitted))' = {}
    BY <1>1, <1>2, <1>3, <1>13, <1>17 DEF OnePlace
  <1>19. s \notin ToSet(pending) \cup Listed \cup lingering
    BY <1>12 DEF Constructed
  <1>20. /\ (authing \cap ToSet(pending))' = {}
         /\ ((authing \cup ToSet(pending)) \cap (Listed \cup lingering \cup admitted))' = {}
    BY <1>1, <1>2, <1>3, <1>10, <1>12, <1>19 DEF OnePlace
  <1>21. OnePlace'
    BY <1>1, <1>2, <1>3, <1>10, <1>16, <1>18, <1>20 DEF OnePlace
  <1>22. QED
    BY <1>9, <1>10, <1>14, <1>21 DEF LoginInv

LEMMA AddSessionStep ==
  ASSUME LoginInv, NEW s \in Sessions, AddSession(s)
  PROVE  LoginInv'
  <1>1. /\ s \in authing /\ authing' = authing \ {s} /\ pending' = Append(pending, s)
        /\ UNCHANGED <<creating, lostUpdate, world, lingering, disconnects, queueVars>>
        /\ UNCHANGED <<offline, sessionCount, phase, todo>>
    BY DEF AddSession, listVars
  <1>2. UNCHANGED <<queue, inQueue, initializing, admitted, tolerance, staff>>
    BY <1>1 DEF queueVars
  <1>3. TypeOK /\ OnePlace
    BY DEF LoginInv
  <1>4. s \notin ToSet(pending)
    BY <1>1, <1>3 DEF OnePlace
  <1>5. /\ pending' \in Seq(Sessions) /\ IsInjective(pending')
        /\ ToSet(pending') = ToSet(pending) \cup {s}
    BY <1>1, <1>4, Parts, Places, HeldAppend
  <1>6. TypeOK'
    <2>1. authing' \subseteq Sessions
      BY <1>1, <1>3 DEF TypeOK
    <2>2. QED
      BY <1>1, <1>2, <1>3, <1>5, <2>1 DEF TypeOK
  <1>7. Listed' = Listed /\ Waiting' = Waiting /\ Agree(State, Listed)' /\ LimitRespected'
    BY <1>1, ListKept
  <1>8. ToSet(pending)' = ToSet(pending) \cup {s}
    BY <1>5 DEF ToSet
  <1>9. authing' \cup ToSet(pending)' = authing \cup ToSet(pending)
    BY <1>1, <1>8
  <1>10. Constructed' = Constructed
    BY <1>1, <1>7, <1>9 DEF Constructed
  <1>11. CountIsSessions'
    BY <1>1, <1>10, CountKept
  <1>12. (authing \cap ToSet(pending))' = {}
    BY <1>1, <1>3, <1>8 DEF OnePlace
  <1>13. ((authing \cup ToSet(pending)) \cap (Listed \cup lingering \cup admitted))' = {}
    BY <1>1, <1>2, <1>3, <1>7, <1>9 DEF OnePlace
  <1>14. Creating' = Creating
    BY <1>1 DEF Creating
  <1>15. (Creating \cap (Constructed \cup offline \cup admitted))' = {}
    BY <1>1, <1>2, <1>3, <1>10, <1>14 DEF OnePlace
  <1>16. OnePlace'
    BY <1>1, <1>2, <1>3, <1>5, <1>7, <1>12, <1>13, <1>15 DEF OnePlace
  <1>17. QED
    BY <1>6, <1>7, <1>11, <1>16 DEF LoginInv

LEMMA AuthDroppedStep ==
  ASSUME LoginInv, NEW s \in Sessions, AuthDropped(s)
  PROVE  LoginInv'
  <1>1. /\ s \in authing /\ authing' = authing \ {s} /\ offline' = offline \cup {s}
        /\ sessionCount' = Minus(sessionCount)
        /\ UNCHANGED <<creating, lostUpdate, pending, world, lingering, disconnects, queueVars>>
        /\ UNCHANGED <<phase, todo>>
    BY DEF AuthDropped, listVars
  <1>2. UNCHANGED <<queue, inQueue, initializing, admitted, tolerance, staff>>
    BY <1>1 DEF queueVars
  <1>3. TypeOK /\ OnePlace
    BY DEF LoginInv
  <1>4. TypeOK'
    <2>1. authing' \subseteq Sessions /\ offline' \subseteq Sessions
      BY <1>1, <1>3 DEF TypeOK
    <2>2. sessionCount' \in 0..(Modulus - 1)
      BY <1>1, Parts, CountTyped
    <2>3. QED
      BY <1>1, <1>2, <1>3, <2>1, <2>2 DEF TypeOK
  <1>5. Listed' = Listed /\ Waiting' = Waiting /\ Agree(State, Listed)' /\ LimitRespected'
    BY <1>1, ListKept
  <1>6. s \in Constructed /\ Constructed' = Constructed \ {s}
    <2>1. s \notin ToSet(pending) \cup Listed \cup Waiting \cup lingering
      BY <1>1, <1>3, Parts DEF OnePlace
    <2>2. QED
      BY <1>1, <1>5, <2>1 DEF Constructed
  <1>7. CountIsSessions'
    BY <1>1, <1>6, CountDown DEF CountIsSessions
  <1>8. Creating' = Creating
    BY <1>1 DEF Creating
  <1>9. (Creating \cap (Constructed \cup offline \cup admitted))' = {}
    BY <1>1, <1>2, <1>3, <1>6, <1>8 DEF OnePlace
  <1>10. ((authing \cup ToSet(pending)) \cap (Listed \cup lingering \cup admitted))' = {}
    BY <1>1, <1>2, <1>3, <1>5 DEF OnePlace
  <1>11. (authing \cap ToSet(pending))' = {} /\ (lingering \subseteq offline)'
    BY <1>1, <1>3 DEF OnePlace
  <1>12. OnePlace'
    BY <1>1, <1>3, <1>5, <1>9, <1>10, <1>11 DEF OnePlace
  <1>13. QED
    BY <1>4, <1>5, <1>7, <1>12 DEF LoginInv

LEMMA DisconnectStep ==
  ASSUME LoginInv, NEW s \in Sessions, Disconnect(s)
  PROVE  LoginInv'
  <1>1. /\ s \in ToSet(pending) \cup Listed /\ offline' = offline \cup {s}
        /\ UNCHANGED <<creating, authing, lostUpdate, pending, world, lingering, disconnects, queueVars>>
        /\ UNCHANGED <<sessionCount, phase, todo>>
    BY DEF Disconnect, listVars, creationVars
  <1>2. UNCHANGED <<queue, inQueue, initializing, admitted, tolerance, staff>>
    BY <1>1 DEF queueVars
  <1>3. TypeOK
    BY DEF LoginInv
  <1>4. TypeOK'
    <2>1. offline' \subseteq Sessions
      BY <1>1, <1>3 DEF TypeOK
    <2>2. QED
      BY <1>1, <1>2, <1>3, <2>1 DEF TypeOK
  <1>5. Agree(State, Listed)' /\ LimitRespected'
    BY <1>1, ListKept
  <1>6. s \in Constructed
    BY <1>1 DEF Constructed
  <1>7. OnePlace' /\ Constructed' = Constructed
    BY <1>1, <1>2, <1>6, PlacesKept
  <1>8. CountIsSessions'
    BY <1>1, <1>7, CountKept
  <1>9. QED
    BY <1>4, <1>5, <1>7, <1>8 DEF LoginInv

(* The world thread's loops begin, end or pass over a session.              *)
LEMMA LoopStep ==
  ASSUME LoginInv, UpdateSessions \/ AddLoopEnds \/ UpdateLoopEnds \/ \E a \in Accounts : UpdateStays(a)
  PROVE  LoginInv'
  <1>1. /\ UNCHANGED <<creating, authing, lostUpdate, pending, world, lingering, disconnects, queueVars>>
        /\ UNCHANGED <<offline, sessionCount>>
    BY DEF UpdateSessions, AddLoopEnds, UpdateLoopEnds, UpdateStays, listVars, creationVars
  <1>2. UNCHANGED <<queue, inQueue, initializing, admitted, tolerance, staff>>
    BY <1>1 DEF queueVars
  <1>3. TypeOK
    BY DEF LoginInv
  <1>4. phase' \in {"idle", "add", "update"} /\ todo' \subseteq Accounts
    BY <1>3 DEF TypeOK, UpdateSessions, AddLoopEnds, UpdateLoopEnds, UpdateStays
  <1>5. TypeOK'
    BY <1>1, <1>2, <1>3, <1>4 DEF TypeOK
  <1>6. Agree(State, Listed)' /\ LimitRespected'
    BY <1>1, ListKept
  <1>7. OnePlace' /\ Constructed' = Constructed
    BY <1>1, <1>2, PlacesKept
  <1>8. CountIsSessions'
    BY <1>1, <1>7, CountKept
  <1>9. QED
    BY <1>5, <1>6, <1>7, <1>8 DEF LoginInv

LEMMA CallbackStep ==
  ASSUME LoginInv, NEW s \in Sessions, InitializeSessionCallback(s)
  PROVE  LoginInv'
  <1>1. /\ s \in initializing /\ initializing' = initializing \ {s} /\ inQueue' = inQueue \ {s}
        /\ UNCHANGED <<creating, authing, lostUpdate, pending, world, queue, admitted, tolerance, staff>>
        /\ UNCHANGED <<lingering, disconnects, offline, sessionCount, phase, todo>>
    BY DEF InitializeSessionCallback, creationVars
  <1>2. TypeOK
    BY DEF LoginInv
  <1>3. TypeOK'
    <2>1. initializing' \subseteq Sessions /\ inQueue' \subseteq Sessions
      BY <1>1, <1>2 DEF TypeOK
    <2>2. QED
      BY <1>1, <1>2, <2>1 DEF TypeOK
  <1>4. Listed' = Listed /\ Waiting' = Waiting
    BY <1>1 DEF Listed, Waiting
  <1>5. Active' = Active
    BY <1>4 DEF Active
  <1>6. LimitRespected'
    BY <1>1, <1>5 DEF LoginInv, LimitRespected
  <1>7. /\ IsInjective(queue) /\ Waiting \subseteq Listed /\ Waiting \cap admitted = {}
        /\ initializing \subseteq Listed \cap admitted /\ Waiting \subseteq inQueue
        /\ inQueue \subseteq Waiting \cup admitted
        /\ inQueue \cap Listed \subseteq Waiting \cup initializing
    BY DEF LoginInv, Agree, State, Waiting
  <1>8. s \notin Waiting
    BY <1>1, <1>7
  <1>9. initializing' \subseteq Listed \cap admitted /\ Waiting \subseteq inQueue'
    BY <1>1, <1>7, <1>8
  <1>10. /\ inQueue' \subseteq Waiting \cup admitted
         /\ inQueue' \cap Listed \subseteq Waiting \cup initializing'
    BY <1>1, <1>7
  <1>11. Agree(State, Listed)'
    BY <1>1, <1>4, <1>7, <1>9, <1>10 DEF Agree, State, Waiting
  <1>12. OnePlace' /\ Constructed' = Constructed
    BY <1>1, PlacesKept
  <1>13. CountIsSessions'
    BY <1>1, <1>12, CountKept
  <1>14. QED
    BY <1>3, <1>6, <1>11, <1>12, <1>13 DEF LoginInv

LEMMA MapDropsStep ==
  ASSUME LoginInv, NEW s \in Sessions, MapDrops(s)
  PROVE  LoginInv'
  <1>1. /\ s \in lingering /\ lingering' = lingering \ {s} /\ sessionCount' = Minus(sessionCount)
        /\ UNCHANGED <<creating, authing, lostUpdate, pending, world, disconnects, queueVars>>
        /\ UNCHANGED <<offline, phase, todo>>
    BY DEF MapDrops, creationVars
  <1>2. UNCHANGED <<queue, inQueue, initializing, admitted, tolerance, staff>>
    BY <1>1 DEF queueVars
  <1>3. TypeOK /\ OnePlace
    BY DEF LoginInv
  <1>4. TypeOK'
    <2>1. lingering' \subseteq Sessions
      BY <1>1, <1>3 DEF TypeOK
    <2>2. sessionCount' \in 0..(Modulus - 1)
      BY <1>1, Parts, CountTyped
    <2>3. QED
      BY <1>1, <1>2, <1>3, <2>1, <2>2 DEF TypeOK
  <1>5. Listed' = Listed /\ Waiting' = Waiting /\ Agree(State, Listed)' /\ LimitRespected'
    BY <1>1, ListKept
  <1>6. s \in Constructed /\ Constructed' = Constructed \ {s}
    <2>1. s \notin authing \cup ToSet(pending) \cup Listed \cup Waiting
      BY <1>1, <1>3, Parts DEF OnePlace
    <2>2. QED
      BY <1>1, <1>5, <2>1 DEF Constructed
  <1>7. CountIsSessions'
    BY <1>1, <1>6, CountDown DEF CountIsSessions
  <1>8. Creating' = Creating
    BY <1>1 DEF Creating
  <1>9. (Creating \cap (Constructed \cup offline \cup admitted))' = {}
    BY <1>1, <1>2, <1>3, <1>6, <1>8 DEF OnePlace
  <1>10. ((authing \cup ToSet(pending)) \cap (Listed \cup lingering \cup admitted))' = {}
    BY <1>1, <1>2, <1>3, <1>5 DEF OnePlace
  <1>11. (lingering \cap Listed)' = {} /\ (lingering \subseteq offline)'
    BY <1>1, <1>3, <1>5 DEF OnePlace
  <1>12. OnePlace'
    BY <1>1, <1>3, <1>5, <1>9, <1>10, <1>11 DEF OnePlace
  <1>13. QED
    BY <1>4, <1>5, <1>7, <1>12 DEF LoginInv
-----------------------------------------------------------------------------
(* Listing and unlisting.                                                   *)
LEMMA ListDrop ==
  ASSUME TypeOK, NEW a \in Accounts, world[a] # NoSession,
         world' = [world EXCEPT ![a] = NoSession]
  PROVE  /\ Listed' = Listed \ {world[a]} /\ world[a] \in Listed
         /\ world' \in [Accounts -> Sessions \cup {NoSession}]
         /\ \A b \in Accounts : world'[b] # NoSession => AccountOf[world'[b]] = b
  <1>1. /\ world \in [Accounts -> Sessions \cup {NoSession}]
        /\ \A b \in Accounts : world[b] # NoSession => AccountOf[world[b]] = b
    BY DEF TypeOK
  <1>2. world' \in [Accounts -> Sessions \cup {NoSession}]
    BY <1>1
  <1>3. \A b \in Accounts : world'[b] = IF b = a THEN NoSession ELSE world[b]
    BY <1>1
  <1>4. \A b \in Accounts : world[b] = world[a] => b = a
    BY <1>1
  <1>5. Listed' = Listed \ {world[a]}
    BY <1>3, <1>4 DEF Listed
  <1>6. world[a] \in Listed
    BY DEF Listed
  <1>7. QED
    BY <1>1, <1>2, <1>3, <1>5, <1>6

LEMMA ListPut ==
  ASSUME TypeOK, NEW s \in Sessions, s \notin Listed,
         world' = [world EXCEPT ![AccountOf[s]] = s]
  PROVE  /\ Listed' = (Listed \ {world[AccountOf[s]]}) \cup {s}
         /\ world' \in [Accounts -> Sessions \cup {NoSession}]
         /\ \A b \in Accounts : world'[b] # NoSession => AccountOf[world'[b]] = b
  <1> DEFINE a == AccountOf[s]
  <1>1. /\ world \in [Accounts -> Sessions \cup {NoSession}]
        /\ \A b \in Accounts : world[b] # NoSession => AccountOf[world[b]] = b
    BY DEF TypeOK
  <1>2. a \in Accounts /\ s # NoSession
    BY Bounds
  <1>3. world' \in [Accounts -> Sessions \cup {NoSession}]
    BY <1>1, <1>2
  <1>4. \A b \in Accounts : world'[b] = IF b = a THEN s ELSE world[b]
    BY <1>1
  <1>5. \A b \in Accounts : world'[b] # NoSession => AccountOf[world'[b]] = b
    BY <1>1, <1>4
  <1> HIDE DEF a
  <1>6. \A b \in Accounts : world[b] # NoSession /\ world[b] = world[a] => b = a
    BY <1>1, <1>2
  <1>7. Listed' = (Listed \ {world[a]}) \cup {s}
    <2>1. ASSUME NEW x \in Listed' PROVE x \in (Listed \ {world[a]}) \cup {s}
      <3>1. PICK b \in Accounts : world'[b] = x /\ x # NoSession
        BY DEF Listed
      <3>2. CASE b = a
        BY <1>4, <3>1, <3>2
      <3>3. CASE b # a
        <4>1. world[b] = x
          BY <1>4, <3>1, <3>3
        <4>2. x # world[a]
          BY <1>6, <3>1, <3>3, <4>1
        <4>3. QED
          BY <3>1, <4>1, <4>2 DEF Listed
      <3>4. QED
        BY <3>2, <3>3
    <2>2. ASSUME NEW x \in (Listed \ {world[a]}) \cup {s} PROVE x \in Listed'
      <3>1. CASE x = s
        <4>1. world'[a] = s
          BY <1>2, <1>4
        <4>2. QED
          BY <1>2, <3>1, <4>1 DEF Listed
      <3>2. CASE x \in Listed /\ x # world[a]
        <4>1. PICK b \in Accounts : world[b] = x /\ x # NoSession
          BY <3>2 DEF Listed
        <4>2. b # a
          BY <3>2, <4>1
        <4>3. world'[b] = x
          BY <1>4, <4>1, <4>2
        <4>4. QED
          BY <4>1, <4>3 DEF Listed
      <3>3. QED
        BY <3>1, <3>2
    <2>3. QED
      BY <2>1, <2>2
  <1>8. QED
    BY <1>3, <1>5, <1>7 DEF a

(* Destroying a session that left the queue, and listing a new one.         *)
Gone(st, L, s, r) ==
  /\ r \in QState /\ Agree(r, L \ {s})
  /\ r.queue = st.queue /\ r.admitted = st.admitted /\ r.count = Minus(st.count)

LEMMA DestroyAgree ==
  ASSUME NEW st \in QState, NEW L, Agree(st, L), NEW s \in Sessions, s \notin ToSet(st.queue)
  PROVE  Gone(st, L, s, Destroyed(st, s, FALSE))
  <1> DEFINE r == Destroyed(st, s, FALSE)
  <1> DEFINE c == Minus(st.count)
             i == st.initializing \ {s}
  <1>1. c \in 0..(Modulus - 1) /\ i \in SUBSET Sessions
    BY CountTyped DEF QState
  <1>2. r = [st EXCEPT !.count = c, !.initializing = i]
    BY DEF Destroyed
  <1> HIDE DEF r
  <1>3. i = st.initializing \ {s} /\ c = Minus(st.count)
    OBVIOUS
  <1> HIDE DEF c, i
  <1>4. /\ r \in QState /\ r.queue = st.queue /\ r.admitted = st.admitted /\ r.count = c
        /\ r.inQueue = st.inQueue /\ r.initializing = i
    BY <1>1, <1>2 DEF QState
  <1>5. Agree(r, L \ {s})
    BY <1>3, <1>4 DEF Agree
  <1>6. QED
    BY <1>3, <1>4, <1>5 DEF Gone, r

LEMMA UnlistAgree ==
  ASSUME NEW st, NEW L, Agree(st, L), NEW s, s \notin ToSet(st.queue), s \notin st.initializing
  PROVE  Agree(st, L \ {s})
  BY DEF Agree

Queued(st, s) == [st EXCEPT !.inQueue = @ \cup {s}, !.queue = Append(@, s)]
Admitted(st, s) == [st EXCEPT !.initializing = @ \cup {s}, !.admitted = @ \cup {s}]

WaitsToo(st, L, s, r) ==
  /\ r \in QState /\ Agree(r, L \cup {s}) /\ ToSet(r.queue) = ToSet(st.queue) \cup {s}
  /\ r.admitted = st.admitted /\ r.count = st.count

InToo(st, L, s, r) ==
  /\ r \in QState /\ Agree(r, L \cup {s}) /\ r.queue = st.queue
  /\ r.admitted = st.admitted \cup {s} /\ r.count = st.count

LEMMA QueueAgree ==
  ASSUME NEW st \in QState, NEW L, Agree(st, L), NEW s \in Sessions,
         s \notin L, s \notin st.admitted
  PROVE  WaitsToo(st, L, s, Queued(st, s))
  <1> DEFINE r == Queued(st, s)
  <1> DEFINE q == Append(st.queue, s)
             i == st.inQueue \cup {s}
  <1>1. /\ st.queue \in Seq(Sessions) /\ IsInjective(st.queue) /\ s \notin ToSet(st.queue)
        /\ i \in SUBSET Sessions
    BY DEF QState, Agree
  <1>2. q \in Seq(Sessions) /\ IsInjective(q) /\ ToSet(q) = ToSet(st.queue) \cup {s}
    BY <1>1, HeldAppend
  <1>3. r = [st EXCEPT !.inQueue = i, !.queue = q] /\ i = st.inQueue \cup {s}
    BY DEF Queued
  <1> HIDE DEF q, i, r
  <1>4. /\ r \in QState /\ r.queue = q /\ r.inQueue = i /\ r.initializing = st.initializing
        /\ r.admitted = st.admitted /\ r.count = st.count
    BY <1>1, <1>2, <1>3 DEF QState
  <1>5. IsInjective(r.queue) /\ ToSet(r.queue) = ToSet(st.queue) \cup {s}
    BY <1>2, <1>4
  <1>6. /\ ToSet(r.queue) \subseteq L \cup {s} /\ ToSet(r.queue) \cap r.admitted = {}
        /\ r.initializing \subseteq (L \cup {s}) \cap r.admitted
    BY <1>4, <1>5 DEF Agree
  <1>7. ToSet(r.queue) \subseteq r.inQueue /\ r.inQueue \subseteq ToSet(r.queue) \cup r.admitted
    BY <1>3, <1>4, <1>5 DEF Agree
  <1>8. r.inQueue \cap (L \cup {s}) \subseteq ToSet(r.queue) \cup r.initializing
    BY <1>3, <1>4, <1>5 DEF Agree
  <1>9. Agree(r, L \cup {s})
    BY <1>5, <1>6, <1>7, <1>8 DEF Agree
  <1>10. QED
    BY <1>4, <1>5, <1>9 DEF WaitsToo, r

LEMMA AdmitAgree ==
  ASSUME NEW st \in QState, NEW L, Agree(st, L), NEW s \in Sessions,
         s \notin L, s \notin st.admitted
  PROVE  InToo(st, L, s, Admitted(st, s))
  <1> DEFINE r == Admitted(st, s)
  <1> DEFINE i == st.initializing \cup {s}
             d == st.admitted \cup {s}
  <1>1. i \in SUBSET Sessions /\ d \in SUBSET Sessions
    BY DEF QState
  <1>2. /\ r = [st EXCEPT !.initializing = i, !.admitted = d]
        /\ i = st.initializing \cup {s} /\ d = st.admitted \cup {s}
    BY DEF Admitted
  <1> HIDE DEF i, d, r
  <1>3. /\ r \in QState /\ r.queue = st.queue /\ r.inQueue = st.inQueue /\ r.initializing = i
        /\ r.admitted = d /\ r.count = st.count
    BY <1>1, <1>2 DEF QState
  <1>4. s \notin ToSet(st.queue) /\ s \notin st.inQueue
    BY DEF Agree
  <1>5. /\ IsInjective(r.queue) /\ ToSet(r.queue) \subseteq L \cup {s}
        /\ ToSet(r.queue) \cap r.admitted = {} /\ ToSet(r.queue) \subseteq r.inQueue
    BY <1>2, <1>3, <1>4 DEF Agree
  <1>6. /\ r.initializing \subseteq (L \cup {s}) \cap r.admitted
        /\ r.inQueue \subseteq ToSet(r.queue) \cup r.admitted
    BY <1>2, <1>3 DEF Agree
  <1>7. r.inQueue \cap (L \cup {s}) \subseteq ToSet(r.queue) \cup r.initializing
    BY <1>2, <1>3, <1>4 DEF Agree
  <1>8. Agree(r, L \cup {s})
    BY <1>5, <1>6, <1>7 DEF Agree
  <1>9. QED
    BY <1>2, <1>3, <1>8 DEF InToo, r

LEMMA StateSet ==
  ASSUME NEW st \in QState, SetState(st)
  PROVE  /\ queue' = st.queue /\ inQueue' = st.inQueue /\ initializing' = st.initializing
         /\ admitted' = st.admitted /\ sessionCount' = st.count
         /\ tolerance' = tolerance /\ staff' = staff
         /\ Waiting' = ToSet(st.queue) /\ State' = st
         /\ queue' \in Seq(Sessions) /\ inQueue' \subseteq Sessions /\ initializing' \subseteq Sessions
         /\ admitted' \subseteq Sessions /\ sessionCount' \in 0..(Modulus - 1)
  <1>1. /\ queue' = st.queue /\ inQueue' = st.inQueue /\ initializing' = st.initializing
        /\ admitted' = st.admitted /\ sessionCount' = st.count
        /\ tolerance' = tolerance /\ staff' = staff
    BY DEF SetState
  <1>2. Waiting' = ToSet(st.queue)
    BY <1>1 DEF Waiting
  <1>3. State' = st
    BY <1>1 DEF State, QState
  <1>4. QED
    BY <1>1, <1>2, <1>3 DEF QState
-----------------------------------------------------------------------------
(* The sessions the limit is about.                                         *)
Players == {s \in Active : AccountOf[s] \notin staff \cup disconnects}

LEMMA FewEnough ==
  ASSUME NEW G \in SUBSET Sessions, NEW F, F \subseteq G, NEW n \in Int, Cardinality(G) <= n
  PROVE  Cardinality(F) <= n
  <1>1. IsFiniteSet(G)
    BY Bounds, FS_Subset
  <1>2. IsFiniteSet(F) /\ Cardinality(F) <= Cardinality(G)
    BY <1>1, FS_Subset
  <1>3. Cardinality(F) \in Nat /\ Cardinality(G) \in Nat
    BY <1>1, <1>2, FS_CardinalityType
  <1>4. QED
    BY <1>2, <1>3

(* An offline session is dropped: RemoveQueuedPlayer runs twice.            *)
LEMMA UpdateLeavesStep ==
  ASSUME LoginInv, NEW a \in Accounts, UpdateLeaves(a)
  PROVE  LoginInv'
  <1> DEFINE x == world[a]
             once == RemoveQueuedPlayer(State, x)
             twice == RemoveQueuedPlayer(once, x)
             last == [twice EXCEPT !.count = Minus(@), !.initializing = @ \ {x}]
  <1>1. /\ x \in offline /\ SetState(last) /\ phase = "update"
        /\ world' = [world EXCEPT ![a] = NoSession] /\ todo' = todo \ {a}
        /\ disconnects' = IF x \notin Waiting /\ tolerance THEN disconnects \cup {a} ELSE disconnects
        /\ UNCHANGED <<creating, authing, lostUpdate, pending, lingering, offline, phase>>
    BY DEF UpdateLeaves, creationVars
  <1>2. TypeOK /\ OnePlace /\ Agree(State, Listed)
    BY DEF LoginInv
  <1>3. x \in Sessions /\ x # NoSession
    BY <1>1, <1>2, Bounds DEF TypeOK
  <1>4. /\ Listed' = Listed \ {x} /\ x \in Listed
        /\ world' \in [Accounts -> Sessions \cup {NoSession}]
        /\ \A b \in Accounts : world'[b] # NoSession => AccountOf[world'[b]] = b
    BY <1>1, <1>2, <1>3, ListDrop
  <1> HIDE DEF x
  <1>5. /\ State \in QState /\ State.queue = queue /\ State.admitted = admitted
        /\ State.count = sessionCount /\ Waiting = ToSet(State.queue) /\ Waiting \subseteq Listed
    BY Parts DEF Waiting
  <1>6. /\ once \in QState /\ once.count = sessionCount /\ Agree(once, Listed)
        /\ x \notin ToSet(once.queue) /\ ToSet(once.queue) \subseteq Waiting
        /\ admitted \subseteq once.admitted /\ once.admitted \subseteq admitted \cup Waiting
    BY <1>2, <1>3, <1>5, RemoveAgree
  <1> HIDE DEF once
  <1>7. /\ twice \in QState /\ twice.count = sessionCount /\ Agree(twice, Listed)
        /\ x \notin ToSet(twice.queue) /\ ToSet(twice.queue) \subseteq ToSet(once.queue)
        /\ once.admitted \subseteq twice.admitted
        /\ twice.admitted \subseteq once.admitted \cup ToSet(once.queue)
    BY <1>3, <1>6, RemoveAgree
  <1> HIDE DEF twice
  <1>8. /\ last \in QState /\ Agree(last, Listed \ {x})
        /\ last.queue = twice.queue /\ last.admitted = twice.admitted
        /\ last.count = Minus(twice.count)
    <2>1. Gone(twice, Listed, x, Destroyed(twice, x, FALSE))
      BY <1>3, <1>7, DestroyAgree, Zenon
    <2>2. last = Destroyed(twice, x, FALSE)
      BY DEF Destroyed
    <2> HIDE DEF last
    <2>3. Gone(twice, Listed, x, last)
      BY <2>1, <2>2
    <2>4. QED
      BY <2>3 DEF Gone
  <1> HIDE DEF last
  <1>9. /\ sessionCount' = Minus(sessionCount) /\ Waiting' = ToSet(twice.queue)
        /\ admitted' = twice.admitted /\ State' = last
        /\ tolerance' = tolerance /\ staff' = staff
        /\ queue' \in Seq(Sessions) /\ inQueue' \subseteq Sessions /\ initializing' \subseteq Sessions
        /\ admitted' \subseteq Sessions /\ sessionCount' \in 0..(Modulus - 1)
    BY <1>1, <1>7, <1>8, StateSet
  <1>10. TypeOK'
    <2>1. disconnects' \subseteq Accounts /\ todo' \subseteq Accounts
      BY <1>1, <1>2 DEF TypeOK
    <2>2. QED
      BY <1>1, <1>2, <1>4, <1>9, <2>1 DEF TypeOK
  <1>11. Agree(State, Listed)'
    BY <1>4, <1>8, <1>9 DEF Agree
  <1>12. Constructed' = Constructed \ {x} /\ x \in Constructed
    <2>1. Constructed = authing \cup ToSet(pending) \cup Listed \cup lingering
      BY Places
    <2>2. x \notin authing \cup ToSet(pending) \cup lingering
      BY <1>2, <1>4 DEF OnePlace
    <2>3. Waiting' \subseteq Listed'
      BY <1>4, <1>5, <1>6, <1>7, <1>9
    <2>4. Constructed' = authing \cup ToSet(pending) \cup Listed' \cup lingering
      BY <1>1, <2>3 DEF Constructed
    <2>5. QED
      BY <1>4, <2>1, <2>2, <2>4
  <1>13. CountIsSessions'
    BY <1>1, <1>9, <1>12, CountDown DEF CountIsSessions
  <1>14. admitted' \subseteq admitted \cup Listed /\ Listed \subseteq Constructed
    BY <1>5, <1>6, <1>7, <1>9 DEF Constructed
  <1>15. OnePlace'
    <2>1. Creating' = Creating
      BY <1>1 DEF Creating
    <2>2. (Creating \cap (Constructed \cup offline \cup admitted))' = {}
      BY <1>1, <1>2, <1>12, <1>14, <2>1 DEF OnePlace
    <2>3. ((authing \cup ToSet(pending)) \cap (Listed \cup lingering \cup admitted))' = {}
      BY <1>1, <1>2, <1>4, <1>14 DEF OnePlace
    <2>4. (lingering \cap Listed)' = {}
      BY <1>1, <1>2, <1>4 DEF OnePlace
    <2>5. QED
      BY <1>1, <1>2, <2>2, <2>3, <2>4 DEF OnePlace
  <1>16. LimitRespected'
    <2>1. SUFFICES ASSUME ~lostUpdate, Limit > 0 PROVE Cardinality(Players') <= Limit
      BY <1>1 DEF LimitRespected, Players
    <2>2. sessionCount = Cardinality(Constructed) /\ Cardinality(Players) <= Limit
      BY <2>1 DEF LoginInv, CountIsSessions, LimitRespected, Players
    <2>3. /\ Constructed \in SUBSET Sessions /\ Waiting \subseteq Constructed
          /\ Listed \subseteq Constructed
      BY Places DEF Constructed
    <2>4. \/ ToSet(once.queue) = Waiting \ {x}
          \/ Cardinality((Constructed \ {x}) \ ToSet(once.queue)) <= Limit
      <3>1. IsInjective(State.queue)
        BY <1>2 DEF Agree
      <3>2. QED
        BY <1>3, <1>5, <1>12, <2>1, <2>2, <2>3, <3>1, RemoveBound DEF once
    <2>5. \/ ToSet(twice.queue) = ToSet(once.queue) \ {x}
          \/ Cardinality((Constructed \ {x}) \ ToSet(twice.queue)) <= Limit
      <3>1. IsInjective(once.queue) /\ ToSet(once.queue) \subseteq Constructed
        BY <1>6, <2>3 DEF Agree
      <3>2. QED
        BY <1>3, <1>6, <1>12, <2>1, <2>2, <2>3, <3>1, RemoveBound DEF twice
    <2>6. Players' \subseteq (Constructed \ {x}) \ ToSet(twice.queue)
      BY <1>4, <1>9, <2>3 DEF Players, Active
    <2>7. (Constructed \ {x}) \ ToSet(twice.queue) \in SUBSET Sessions
      BY <2>3
    <2>8. CASE Cardinality((Constructed \ {x}) \ ToSet(twice.queue)) <= Limit
      BY <2>6, <2>7, <2>8, Bounds, FewEnough
    <2>9. CASE ToSet(twice.queue) = Waiting \ {x}
      <3>1. Active' \subseteq Active
        BY <1>4, <1>9, <2>9 DEF Active
      <3>2. Players' \subseteq Players
        BY <1>1, <1>9, <3>1 DEF Players
      <3>3. Players \in SUBSET Sessions
        BY Parts DEF Players, Active
      <3>4. QED
        BY <2>2, <3>2, <3>3, Bounds, FewEnough
    <2>10. CASE ToSet(twice.queue) = ToSet(once.queue) \ {x}
      <3>1. ToSet(twice.queue) = ToSet(once.queue)
        BY <1>6, <2>10
      <3>2. QED
        BY <1>6, <2>4, <2>8, <2>9, <3>1
    <2>11. QED
      BY <2>5, <2>8, <2>10
  <1>17. QED
    BY <1>10, <1>11, <1>13, <1>15, <1>16 DEF LoginInv
-----------------------------------------------------------------------------
(* Listing a pending session: it waits, or it is let in for a reason.       *)
Entered(st, L, s, n) ==
  /\ queue' \in Seq(Sessions) /\ inQueue' \subseteq Sessions /\ initializing' \subseteq Sessions
  /\ admitted' \subseteq Sessions /\ sessionCount' \in 0..(Modulus - 1)
  /\ Agree(State', L) /\ sessionCount' = st.count /\ tolerance' = tolerance /\ staff' = staff
  /\ \/ Waiting' = ToSet(st.queue) \cup {s} /\ admitted' = st.admitted
     \/ /\ Waiting' = ToSet(st.queue) /\ admitted' = st.admitted \cup {s}
        /\ Limit = 0 \/ n < Limit \/ AccountOf[s] \in staff \cup disconnects

Counted(st, replaced) == IF replaced THEN st.count ELSE Minus(st.count)

LEMMA EnterEffect ==
  ASSUME NEW st \in QState, NEW L, Agree(st, L), NEW s \in Sessions, s \notin L,
         s \notin st.admitted, NEW replaced \in BOOLEAN, Enter(s, st, replaced)
  PROVE  Entered(st, L \cup {s}, s, Counted(st, replaced))
  <1> DEFINE n == Counted(st, replaced)
             waits == Queued(st, s)
             enters == Admitted(st, s)
             full == /\ Limit > 0 /\ n >= Limit /\ AccountOf[s] \notin staff
                     /\ ~HasRecentlyDisconnected(s)
  <1>1. IF full THEN SetState(waits) ELSE SetState(enters)
    BY DEF Enter, Counted, Queued, Admitted
  <1>2. n \in Nat
    BY CountTyped, Bounds DEF Counted, QState
  <1> HIDE DEF n
  <1>3. /\ waits \in QState /\ Agree(waits, L \cup {s})
        /\ ToSet(waits.queue) = ToSet(st.queue) \cup {s} /\ waits.admitted = st.admitted
        /\ waits.count = st.count
    <2>1. WaitsToo(st, L, s, waits)
      BY QueueAgree, Zenon
    <2>2. QED
      BY <2>1 DEF WaitsToo
  <1>4. /\ enters \in QState /\ Agree(enters, L \cup {s})
        /\ enters.queue = st.queue /\ enters.admitted = st.admitted \cup {s}
        /\ enters.count = st.count
    <2>1. InToo(st, L, s, enters)
      BY AdmitAgree, Zenon
    <2>2. QED
      BY <2>1 DEF InToo
  <1> HIDE DEF waits, enters
  <1>5. CASE full
    <2>1. SetState(waits)
      BY <1>1, <1>5
    <2>2. /\ queue' \in Seq(Sessions) /\ inQueue' \subseteq Sessions /\ initializing' \subseteq Sessions
          /\ admitted' \subseteq Sessions /\ sessionCount' \in 0..(Modulus - 1)
          /\ State' = waits /\ sessionCount' = waits.count /\ tolerance' = tolerance /\ staff' = staff
          /\ Waiting' = ToSet(waits.queue) /\ admitted' = waits.admitted
      BY <1>3, <2>1, StateSet
    <2>3. QED
      BY <1>3, <2>2 DEF Entered
  <1>6. CASE ~full
    <2>1. SetState(enters)
      BY <1>1, <1>6
    <2>2. Limit = 0 \/ n < Limit \/ AccountOf[s] \in staff \cup disconnects
      BY <1>2, <1>6, Bounds DEF HasRecentlyDisconnected
    <2>3. /\ queue' \in Seq(Sessions) /\ inQueue' \subseteq Sessions /\ initializing' \subseteq Sessions
          /\ admitted' \subseteq Sessions /\ sessionCount' \in 0..(Modulus - 1)
          /\ State' = enters /\ sessionCount' = enters.count /\ tolerance' = tolerance /\ staff' = staff
          /\ Waiting' = ToSet(enters.queue) /\ admitted' = enters.admitted
      BY <1>4, <2>1, StateSet
    <2>4. QED
      BY <1>4, <2>2, <2>3 DEF Entered, n
  <1>7. QED
    BY <1>5, <1>6

(* What holds once old, the account's listed session if any, is out: stays  *)
(* are then the sessions a map holds.                                       *)
Ready(s, old, st, replaced, stays) ==
  /\ st \in QState /\ Agree(st, Listed \ {old})
  /\ ToSet(st.queue) \subseteq Waiting
  /\ admitted \subseteq st.admitted /\ st.admitted \subseteq admitted \cup Waiting
  /\ stays \in {lingering, lingering \cup {old}} /\ stays \subseteq Sessions
  /\ ~lostUpdate => st.count = Cardinality((Constructed \ {old}) \cup stays)
  /\ ~lostUpdate /\ Limit > 0 =>
       /\ \/ ToSet(st.queue) = Waiting \ {old}
          \/ Cardinality((Constructed \ {old}) \ ToSet(st.queue)) <= Limit
       /\ Counted(st, replaced) < Limit => Cardinality(Constructed \ {old}) <= Limit

LEMMA NewIsReady ==
  ASSUME LoginInv, NEW s \in Constructed
  PROVE  Ready(s, NoSession, State, FALSE, lingering)
  <1>1. /\ State \in QState /\ State.count = sessionCount /\ Agree(State, Listed)
        /\ ToSet(State.queue) = Waiting /\ State.admitted = admitted
    BY Parts DEF Waiting
  <1>2. NoSession \notin Constructed /\ NoSession \notin Listed /\ NoSession \notin Waiting
    BY Places, Bounds DEF Constructed
  <1>3. Constructed \ {NoSession} = Constructed /\ Constructed \cup lingering = Constructed
    BY <1>2, Places
  <1>4. Listed \ {NoSession} = Listed /\ Waiting \ {NoSession} = Waiting
    BY <1>2
  <1>5. ~lostUpdate => sessionCount = Cardinality(Constructed)
    BY DEF LoginInv, CountIsSessions
  <1>6. ~lostUpdate /\ Counted(State, FALSE) < Limit => Cardinality(Constructed) <= Limit
    <2>1. SUFFICES ASSUME ~lostUpdate, Minus(sessionCount) < Limit
                   PROVE  Cardinality(Constructed) <= Limit
      BY <1>1 DEF Counted
    <2>2. /\ sessionCount = Cardinality(Constructed) /\ sessionCount > 0
          /\ Minus(sessionCount) = sessionCount - 1
      BY <2>1, CountDown
    <2>3. QED
      BY <2>1, <2>2, Parts, Bounds
  <1>7. lingering \subseteq Sessions
    BY Parts
  <1>8. /\ ~lostUpdate => State.count = Cardinality((Constructed \ {NoSession}) \cup lingering)
        /\ Counted(State, FALSE) < Limit /\ ~lostUpdate => Cardinality(Constructed \ {NoSession}) <= Limit
    BY <1>1, <1>3, <1>5, <1>6
  <1>9. QED
    BY <1>1, <1>4, <1>7, <1>8 DEF Ready

LEMMA OldIsReady ==
  ASSUME LoginInv, NEW s \in Constructed, NEW old \in Listed, s # old,
         NEW onMap \in MayBeOnMap(old), NEW stays,
         stays = IF onMap THEN lingering \cup {old} ELSE lingering,
         NEW st, st = Destroyed(RemoveQueuedPlayer(State, old), old, onMap)
  PROVE  Ready(s, old, st, old \in Waiting, stays)
  <1> DEFINE once == RemoveQueuedPlayer(State, old)
             C == Constructed
  <1>1. /\ State \in QState /\ State.queue = queue /\ State.admitted = admitted
        /\ State.initializing = initializing /\ State.count = sessionCount
        /\ Waiting = ToSet(State.queue) /\ Waiting \subseteq Listed /\ Agree(State, Listed)
        /\ lingering \subseteq Sessions /\ old \in Sessions
    BY Parts DEF Waiting
  <1>2. /\ once \in QState /\ once.count = sessionCount /\ Agree(once, Listed)
        /\ old \notin ToSet(once.queue) /\ ToSet(once.queue) \subseteq Waiting
        /\ old \in once.initializing <=> old \in initializing
        /\ admitted \subseteq once.admitted /\ once.admitted \subseteq admitted \cup Waiting
    BY <1>1, RemoveAgree
  <1>3. onMap \in BOOLEAN /\ (onMap => old \notin Waiting /\ old \notin initializing)
    BY DEF MayBeOnMap
  <1>4. /\ C \in SUBSET Sessions /\ Waiting \subseteq C /\ old \in C /\ lingering \subseteq C
        /\ old \notin lingering
    BY Places DEF Constructed
  <1>5. ~lostUpdate =>
          /\ sessionCount = Cardinality(C) /\ Minus(sessionCount) = sessionCount - 1
          /\ Cardinality(C \ {old}) = sessionCount - 1 /\ sessionCount > 1
    <2>1. SUFFICES ASSUME ~lostUpdate
                   PROVE  /\ sessionCount = Cardinality(C) /\ Minus(sessionCount) = sessionCount - 1
                          /\ Cardinality(C \ {old}) = sessionCount - 1 /\ sessionCount > 1
      OBVIOUS
    <2>2. /\ sessionCount = Cardinality(C) /\ sessionCount > 0 /\ Minus(sessionCount) = sessionCount - 1
          /\ Cardinality(C \ {old}) = sessionCount - 1 /\ IsFiniteSet(C \ {old})
      BY <1>4, <2>1, CountDown
    <2>3. s \in C \ {old}
      OBVIOUS
    <2>4. Cardinality(C \ {old}) # 0
      BY <2>2, <2>3, FS_EmptySet
    <2>5. QED
      BY <2>2, <2>4, Parts
  <1>6. ~lostUpdate /\ Limit > 0 =>
          \/ ToSet(once.queue) = Waiting \ {old}
          \/ Cardinality((C \ {old}) \ ToSet(once.queue)) <= Limit
    <2>1. SUFFICES ASSUME ~lostUpdate, Limit > 0
                   PROVE  \/ ToSet(once.queue) = Waiting \ {old}
                          \/ Cardinality((C \ {old}) \ ToSet(once.queue)) <= Limit
      OBVIOUS
    <2>2. IsInjective(State.queue) /\ State.count = Cardinality(C)
      BY <1>1, <1>5, <2>1 DEF Agree
    <2>3. QED
      BY <1>1, <1>4, <2>1, <2>2, RemoveBound
  <1> HIDE DEF once
  <1>7. CASE onMap
    <2>1. st = once /\ stays = lingering \cup {old}
      BY <1>7 DEF Destroyed, once
    <2>2. old \notin Waiting /\ old \notin once.initializing
      BY <1>2, <1>3, <1>7
    <2>3. Agree(st, Listed \ {old})
      BY <1>2, <2>1, <2>2, UnlistAgree
    <2>4. (C \ {old}) \cup stays = C
      BY <1>4, <2>1
    <2>5. ~lostUpdate => st.count = Cardinality((C \ {old}) \cup stays)
      BY <1>2, <1>5, <2>1, <2>4
    <2>6. Counted(st, old \in Waiting) = Minus(sessionCount)
      BY <1>2, <2>1, <2>2 DEF Counted
    <2>7. ~lostUpdate /\ Counted(st, old \in Waiting) < Limit => Cardinality(C \ {old}) <= Limit
      BY <1>5, <2>6, Parts, Bounds
    <2>8. stays \subseteq Sessions
      BY <1>1, <2>1
    <2> HIDE DEF C
    <2>9. QED
      BY <1>2, <1>6, <2>1, <2>3, <2>5, <2>7, <2>8 DEF Ready, C
  <1>8. CASE ~onMap
    <2>1. st = Destroyed(once, old, FALSE) /\ stays = lingering
      BY <1>3, <1>8 DEF once
    <2>2. Gone(once, Listed, old, Destroyed(once, old, FALSE))
      BY <1>1, <1>2, DestroyAgree, Zenon
    <2>3. /\ st \in QState /\ Agree(st, Listed \ {old}) /\ st.queue = once.queue
          /\ st.admitted = once.admitted /\ st.count = Minus(sessionCount)
      BY <1>2, <2>1, <2>2 DEF Gone
    <2>4. (C \ {old}) \cup stays = C \ {old}
      BY <1>4, <2>1
    <2>5. ~lostUpdate => st.count = Cardinality((C \ {old}) \cup stays)
      BY <1>5, <2>3, <2>4
    <2>6. ~lostUpdate => Minus(st.count) = sessionCount - 2
      BY <1>5, <2>3, Parts DEF Minus
    <2>7. ~lostUpdate /\ Counted(st, old \in Waiting) < Limit => Cardinality(C \ {old}) <= Limit
      <3>1. SUFFICES ASSUME ~lostUpdate, Counted(st, old \in Waiting) < Limit
                     PROVE  sessionCount - 1 <= Limit
        BY <1>5
      <3>2. CASE old \in Waiting
        BY <1>5, <2>3, <3>1, <3>2, Parts, Bounds DEF Counted
      <3>3. CASE old \notin Waiting
        BY <1>5, <2>6, <3>1, <3>3, Parts, Bounds DEF Counted
      <3>4. QED
        BY <3>2, <3>3
    <2>8. stays \subseteq Sessions
      BY <1>1, <2>1
    <2> HIDE DEF C
    <2>9. QED
      BY <1>2, <1>6, <2>1, <2>3, <2>5, <2>7, <2>8 DEF Ready, C
  <1>9. QED
    BY <1>7, <1>8

(* The first pending session is listed in the place of old.                 *)
Arriving(s, old, stays) ==
  /\ pending # <<>> /\ s = Head(pending) /\ pending' = Tail(pending)
  /\ old = world[AccountOf[s]] /\ world' = [world EXCEPT ![AccountOf[s]] = s]
  /\ lingering' = stays /\ offline \subseteq offline' /\ offline' \subseteq offline \cup Listed
  /\ stays # lingering => old \in offline' /\ old \in Listed
  /\ UNCHANGED <<creating, authing, lostUpdate, disconnects, phase, todo>>

LEMMA ArrivingStep ==
  ASSUME LoginInv, NEW s, NEW old, NEW stays, Arriving(s, old, stays),
         NEW st, NEW replaced \in BOOLEAN, Ready(s, old, st, replaced, stays),
         Enter(s, st, replaced)
  PROVE  LoginInv'
  <1>1. /\ pending # <<>> /\ s = Head(pending) /\ pending' = Tail(pending)
        /\ old = world[AccountOf[s]] /\ world' = [world EXCEPT ![AccountOf[s]] = s]
        /\ lingering' = stays /\ offline \subseteq offline' /\ offline' \subseteq offline \cup Listed
        /\ stays # lingering => old \in offline' /\ old \in Listed
        /\ UNCHANGED <<creating, authing, lostUpdate, disconnects, phase, todo>>
    BY DEF Arriving
  <1>2. TypeOK /\ OnePlace
    BY DEF LoginInv
  <1>3. /\ st \in QState /\ Agree(st, Listed \ {old}) /\ ToSet(st.queue) \subseteq Waiting
        /\ admitted \subseteq st.admitted /\ st.admitted \subseteq admitted \cup Waiting
        /\ stays \in {lingering, lingering \cup {old}} /\ stays \subseteq Sessions
    BY DEF Ready
  <1>4. /\ pending' \in Seq(Sessions) /\ IsInjective(pending') /\ s \in ToSet(pending)
        /\ ToSet(pending') = ToSet(pending) \ {s} /\ ToSet(pending) \subseteq Sessions
    BY <1>1, Parts, Places, HeldTail
  <1>5. /\ Waiting \subseteq Listed /\ Listed \subseteq Sessions
        /\ Constructed = authing \cup ToSet(pending) \cup Listed \cup lingering
        /\ authing \cap ToSet(pending) = {} /\ lingering \cap Listed = {}
        /\ (authing \cup ToSet(pending)) \cap (Listed \cup lingering \cup admitted) = {}
        /\ Constructed \subseteq Sessions
    BY Parts, Places
  <1>6. s \in Sessions /\ s \notin Listed /\ s \notin st.admitted /\ s \notin lingering
    BY <1>3, <1>4, <1>5
  <1>7. /\ Listed' = (Listed \ {old}) \cup {s}
        /\ world' \in [Accounts -> Sessions \cup {NoSession}]
        /\ \A b \in Accounts : world'[b] # NoSession => AccountOf[world'[b]] = b
    BY <1>1, <1>2, <1>6, ListPut
  <1>8. Entered(st, (Listed \ {old}) \cup {s}, s, Counted(st, replaced))
    <2>1. s \notin Listed \ {old}
      BY <1>6
    <2>2. QED
      BY <1>3, <1>6, <2>1, EnterEffect, Zenon
  <1>9. /\ queue' \in Seq(Sessions) /\ inQueue' \subseteq Sessions /\ initializing' \subseteq Sessions
        /\ admitted' \subseteq Sessions /\ sessionCount' \in 0..(Modulus - 1)
        /\ Agree(State', Listed') /\ sessionCount' = st.count
        /\ tolerance' = tolerance /\ staff' = staff
    BY <1>7, <1>8 DEF Entered
  <1>10. \/ Waiting' = ToSet(st.queue) \cup {s} /\ admitted' = st.admitted
         \/ /\ Waiting' = ToSet(st.queue) /\ admitted' = st.admitted \cup {s}
            /\ Limit = 0 \/ Counted(st, replaced) < Limit \/ AccountOf[s] \in staff \cup disconnects
    BY <1>8 DEF Entered
  <1>11. ToSet(st.queue) \subseteq Listed \ {old}
    BY <1>3 DEF Agree
  <1>12. TypeOK'
    <2>1. offline' \subseteq Sessions
      BY <1>1, <1>2, <1>5 DEF TypeOK
    <2>2. QED
      BY <1>1, <1>2, <1>3, <1>4, <1>7, <1>9, <2>1 DEF TypeOK
  <1>13. Agree(State, Listed)'
    BY <1>9 DEF Agree
  <1>14. ToSet(pending)' = ToSet(pending) \ {s}
    BY <1>4 DEF ToSet
  <1>15. Constructed' = (Constructed \ {old}) \cup stays
    <2>1. Waiting' \subseteq Listed'
      BY <1>7, <1>10, <1>11
    <2>2. Constructed' = authing \cup (ToSet(pending) \ {s}) \cup Listed' \cup stays
      BY <1>1, <1>14, <2>1 DEF Constructed
    <2>3. old \notin authing \cup ToSet(pending) \cup lingering
      <3>1. CASE old \in Listed
        BY <1>5, <3>1
      <3>2. CASE old \notin Listed
        <4>1. AccountOf[s] \in Accounts
          BY <1>6, Bounds
        <4>2. old = NoSession
          BY <1>1, <3>2, <4>1 DEF Listed
        <4>3. QED
          BY <1>5, <4>2, Bounds
      <3>3. QED
        BY <3>1, <3>2
    <2>4. QED
      BY <1>3, <1>4, <1>5, <1>7, <2>2, <2>3
  <1>16. CountIsSessions'
    BY <1>1, <1>9, <1>15 DEF CountIsSessions, Ready
  <1>17. admitted' \subseteq admitted \cup Listed \cup {s}
    BY <1>3, <1>5, <1>10
  <1>18. OnePlace'
    <2>1. Creating' = Creating
      BY <1>1 DEF Creating
    <2>2. /\ Constructed' \subseteq Constructed /\ offline' \subseteq offline \cup Constructed
          /\ admitted' \subseteq admitted \cup Constructed
      BY <1>1, <1>3, <1>4, <1>5, <1>15, <1>17
    <2>3. (Creating \cap (Constructed \cup offline \cup admitted))' = {}
      BY <1>2, <2>1, <2>2 DEF OnePlace
    <2>4. Listed' \cup stays \cup admitted' \subseteq Listed \cup lingering \cup admitted \cup {s}
      BY <1>1, <1>3, <1>7, <1>17
    <2>5. s \notin authing
      BY <1>4, <1>5
    <2>6. ((authing \cup ToSet(pending)) \cap (Listed \cup lingering \cup admitted))' = {}
      <3>1. (authing \cup (ToSet(pending) \ {s})) \cap (Listed' \cup stays \cup admitted') = {}
        BY <1>5, <2>4, <2>5
      <3>2. QED
        BY <1>1, <1>14, <3>1
    <2>7. (authing \cap ToSet(pending))' = {}
      BY <1>1, <1>5, <1>14
    <2>8. (lingering \cap Listed)' = {}
      BY <1>1, <1>3, <1>5, <1>6, <1>7
    <2>9. (lingering \subseteq offline)'
      BY <1>1, <1>2, <1>3 DEF OnePlace
    <2>10. QED
      BY <1>1, <1>2, <1>4, <2>3, <2>6, <2>7, <2>8, <2>9 DEF OnePlace
  <1>19. LimitRespected'
    <2>1. SUFFICES ASSUME ~lostUpdate, Limit > 0 PROVE Cardinality(Players') <= Limit
      BY <1>1 DEF LimitRespected, Players
    <2>2. Cardinality(Players) <= Limit
      BY <2>1 DEF LoginInv, LimitRespected, Players
    <2>3. /\ \/ ToSet(st.queue) = Waiting \ {old}
             \/ Cardinality((Constructed \ {old}) \ ToSet(st.queue)) <= Limit
          /\ Counted(st, replaced) < Limit => Cardinality(Constructed \ {old}) <= Limit
      BY <2>1 DEF Ready
    <2>4. Players' \subseteq Constructed \ {old}
      <3>1. old # s
        BY <1>5, <1>6, Bounds, <1>1, <1>2 DEF Listed
      <3>2. Active' \subseteq (Listed \ {old}) \cup {s}
        BY <1>7 DEF Active
      <3>3. QED
        BY <1>4, <1>5, <3>1, <3>2 DEF Players
    <2>5. CASE Counted(st, replaced) < Limit
      <3>1. Constructed \ {old} \in SUBSET Sessions
        BY <1>5
      <3>2. QED
        BY <2>3, <2>4, <2>5, <3>1, Bounds, FewEnough
    <2>6. CASE ~(Counted(st, replaced) < Limit)
      <3>1. Players' \subseteq (Listed \ {old}) \ ToSet(st.queue)
        <4>1. CASE Waiting' = ToSet(st.queue) \cup {s}
          BY <1>7, <4>1 DEF Players, Active
        <4>2. CASE Waiting' = ToSet(st.queue) /\ AccountOf[s] \in staff \cup disconnects
          BY <1>1, <1>7, <1>9, <4>2 DEF Players, Active
        <4>3. QED
          BY <1>10, <2>1, <2>6, <4>1, <4>2
      <3>2. CASE ToSet(st.queue) = Waiting \ {old}
        <4>1. Players' \subseteq Players
          BY <1>1, <1>9, <3>1, <3>2 DEF Players, Active
        <4>2. Players \in SUBSET Sessions
          BY <1>5 DEF Players, Active
        <4>3. QED
          BY <2>2, <4>1, <4>2, Bounds, FewEnough
      <3>3. CASE Cardinality((Constructed \ {old}) \ ToSet(st.queue)) <= Limit
        <4>1. /\ (Constructed \ {old}) \ ToSet(st.queue) \in SUBSET Sessions
              /\ Players' \subseteq (Constructed \ {old}) \ ToSet(st.queue)
          BY <1>5, <3>1
        <4>2. QED
          BY <3>3, <4>1, Bounds, FewEnough
      <3>4. QED
        BY <2>3, <3>2, <3>3
    <2>7. QED
      BY <2>5, <2>6
  <1>20. QED
    BY <1>12, <1>13, <1>16, <1>18, <1>19 DEF LoginInv

LEMMA AddSession_Step ==
  ASSUME LoginInv, AddSession_
  PROVE  LoginInv'
  <1> DEFINE s == Head(pending)
             a == AccountOf[s]
             old == world[a]
  <1>1. /\ pending # <<>> /\ pending' = Tail(pending)
        /\ AddNew(s) \/ AddReplacing(s)
        /\ world' = [world EXCEPT ![a] = s]
        /\ UNCHANGED <<creating, authing, lostUpdate, disconnects, phase, todo>>
    BY DEF AddSession_, creationVars
  <1>2. s \in ToSet(pending) /\ s \in Sessions
    BY <1>1, Parts, Places, HeldTail
  <1>3. s \in Constructed /\ s \notin Listed
    BY <1>2, Places
  <1>4. CASE AddNew(s)
    <2>1. old = NoSession /\ Enter(s, State, FALSE) /\ lingering' = lingering /\ offline' = offline
      BY <1>4 DEF AddNew
    <2>2. Ready(s, NoSession, State, FALSE, lingering)
      BY <1>3, NewIsReady
    <2>3. Arriving(s, NoSession, lingering)
      BY <1>1, <2>1 DEF Arriving
    <2> HIDE DEF s, a, old
    <2>4. QED
      BY <2>1, <2>2, <2>3, ArrivingStep, Zenon
  <1>5. CASE AddReplacing(s)
    <2>1. old # NoSession /\ offline' = offline \cup {old}
      BY <1>5 DEF AddReplacing
    <2>2. PICK onMap \in MayBeOnMap(old) :
            /\ lingering' = IF onMap THEN lingering \cup {old} ELSE lingering
            /\ Enter(s, Destroyed(RemoveQueuedPlayer(State, old), old, onMap), old \in Waiting)
      BY <1>5 DEF AddReplacing
    <2>3. a \in Accounts
      BY <1>2, Bounds
    <2>4. old \in Listed
      BY <2>1, <2>3 DEF Listed
    <2> DEFINE stays == IF onMap THEN lingering \cup {old} ELSE lingering
               st == Destroyed(RemoveQueuedPlayer(State, old), old, onMap)
    <2>5. s # old
      BY <1>3, <2>4
    <2>6. Ready(s, old, st, old \in Waiting, stays)
      <3> HIDE DEF s, old
      <3>1. QED
        BY <1>3, <2>4, <2>5, OldIsReady
    <2>7. Arriving(s, old, stays)
      <3>1. lingering' = stays
        BY <2>2
      <3>2. stays # lingering => old \in offline' /\ old \in Listed
        BY <2>1, <2>4
      <3>3. offline \subseteq offline' /\ offline' \subseteq offline \cup Listed
        BY <2>1, <2>4
      <3> HIDE DEF stays
      <3>4. QED
        BY <1>1, <3>1, <3>2, <3>3 DEF Arriving
    <2>8. Enter(s, st, old \in Waiting)
      BY <2>2
    <2>9. (old \in Waiting) \in BOOLEAN
      OBVIOUS
    <2> HIDE DEF s, a, old, stays, st
    <2>10. QED
      BY <2>6, <2>7, <2>8, <2>9, ArrivingStep, Zenon
  <1>6. QED
    BY <1>1, <1>4, <1>5
-----------------------------------------------------------------------------
LEMMA LoginInit ==
  ASSUME Init
  PROVE  LoginInv
  <1>1. /\ creating = [t \in Threads |-> [session |-> NoSession, load |-> 0]]
        /\ authing = {} /\ pending = <<>> /\ lostUpdate = FALSE
        /\ world = [a \in Accounts |-> NoSession]
        /\ queue = <<>> /\ inQueue = {} /\ initializing = {} /\ admitted = {}
        /\ offline = {} /\ lingering = {} /\ sessionCount = 0 /\ disconnects = {}
        /\ tolerance \in BOOLEAN /\ staff \in StaffSets /\ phase = "idle" /\ todo = {}
    BY DEF Init
  <1>2. TypeOK
    <2>1. 0 \in 0..(Modulus - 1)
      BY Bounds
    <2>2. creating \in [Threads -> [session : Sessions \cup {NoSession}, load : 0..(Modulus - 1)]]
      BY <1>1, <2>1
    <2>3. /\ world \in [Accounts -> Sessions \cup {NoSession}]
          /\ \A a \in Accounts : world[a] # NoSession => AccountOf[world[a]] = a
      BY <1>1
    <2>4. pending \in Seq(Sessions) /\ queue \in Seq(Sessions)
      BY <1>1
    <2>5. /\ authing \subseteq Sessions /\ inQueue \subseteq Sessions /\ initializing \subseteq Sessions
          /\ admitted \subseteq Sessions /\ offline \subseteq Sessions /\ lingering \subseteq Sessions
          /\ disconnects \subseteq Accounts /\ todo \subseteq Accounts
      BY <1>1
    <2>6. sessionCount \in 0..(Modulus - 1) /\ lostUpdate \in BOOLEAN
      BY <1>1, <2>1
    <2>7. phase \in {"idle", "add", "update"}
      BY <1>1
    <2>8. QED
      BY <1>1, <2>2, <2>3, <2>4, <2>5, <2>6, <2>7, Zenon DEF TypeOK
  <1>3. Listed = {} /\ Creating = {}
    BY <1>1 DEF Listed, Creating
  <1>4. /\ IsInjective(<<>>) /\ ToSet(<<>>) = {}
    BY DEF IsInjective, ToSet
  <1>5. Waiting = {} /\ Constructed = {}
    BY <1>1, <1>3, <1>4 DEF Waiting, Constructed
  <1>6. OnePlace
    BY <1>1, <1>3, <1>4, <1>5 DEF OnePlace
  <1>7. Agree(State, Listed)
    BY <1>1, <1>3, <1>4 DEF Agree, State
  <1>8. Cardinality({}) = 0
    BY FS_EmptySet
  <1>9. CountIsSessions
    BY <1>1, <1>5, <1>8 DEF CountIsSessions
  <1>10. {s \in Active : AccountOf[s] \notin staff \cup disconnects} = {}
    BY <1>3 DEF Active
  <1>11. LimitRespected
    BY <1>8, <1>10, Bounds DEF LimitRespected
  <1>12. QED
    BY <1>2, <1>6, <1>7, <1>9, <1>11 DEF LoginInv

LEMMA LoginStep == LoginInv /\ [Next]_vars => LoginInv'
  <1>1. SUFFICES ASSUME LoginInv, [Next]_vars PROVE LoginInv'
    OBVIOUS
  <1>2. CASE \E t \in Threads, s \in Sessions : CreateBegin(t, s)
    BY <1>1, <1>2, CreateBeginStep, Zenon
  <1>3. CASE \E t \in Threads : CreateEnd(t)
    BY <1>1, <1>3, CreateEndStep, Zenon
  <1>4. CASE \E s \in Sessions : \/ AddSession(s) \/ AuthDropped(s) \/ Disconnect(s)
                                 \/ InitializeSessionCallback(s) \/ MapDrops(s)
    BY <1>1, <1>4, AddSessionStep, AuthDroppedStep, DisconnectStep, CallbackStep, MapDropsStep, Zenon
  <1>5. CASE UpdateSessions \/ AddLoopEnds \/ UpdateLoopEnds \/ \E a \in Accounts : UpdateStays(a)
    BY <1>1, <1>5, LoopStep, Zenon
  <1>6. CASE \E a \in Accounts : UpdateLeaves(a)
    BY <1>1, <1>6, UpdateLeavesStep, Zenon
  <1>7. CASE AddSession_
    BY <1>1, <1>7, AddSession_Step, Zenon
  <1>8. CASE UNCHANGED vars
    <2>1. /\ UNCHANGED <<creating, authing, lostUpdate, pending, world, lingering, disconnects, queueVars>>
          /\ UNCHANGED <<offline, sessionCount, phase, todo>>
      BY <1>8 DEF vars, creationVars, listVars
    <2>2. UNCHANGED <<queue, inQueue, initializing, admitted, tolerance, staff>>
      BY <2>1 DEF queueVars
    <2>3. TypeOK
      BY <1>1 DEF LoginInv
    <2>4. TypeOK'
      BY <2>1, <2>2, <2>3 DEF TypeOK
    <2>5. Agree(State, Listed)' /\ LimitRespected'
      BY <1>1, <2>1, ListKept
    <2>6. OnePlace' /\ Constructed' = Constructed
      BY <1>1, <2>1, <2>2, PlacesKept
    <2>7. CountIsSessions'
      BY <1>1, <2>1, <2>6, CountKept
    <2>8. QED
      BY <2>4, <2>5, <2>6, <2>7 DEF LoginInv
  <1>9. QED
    BY <1>1, <1>2, <1>3, <1>4, <1>5, <1>6, <1>7, <1>8, Zenon DEF Next
-----------------------------------------------------------------------------
(* Every session object is in one place, list and queue agree, the counter  *)
(* counts the objects, the limit holds: the invariant of World's sessions.  *)
THEOREM LoginInvariant == Spec => []LoginInv
  <1>1. Init => LoginInv
    BY LoginInit
  <1>2. QED
    BY <1>1, LoginStep, PTL DEF Spec

(* The session list, the queue and the counter always have their types; the *)
(* session listed for an account is one of that account.                    *)
THEOREM LoginTypeCorrect == Spec => []TypeOK
  <1>1. LoginInv => TypeOK
    BY DEF LoginInv
  <1>2. QED
    BY <1>1, LoginInvariant, PTL

(* m_QueuedPlayer never holds a session twice, nor one that is unlisted or  *)
(* was let in; m_inQueue marks exactly those that wait or are being let in. *)
THEOREM LoginQueueConsistent == Spec => []QueueConsistent
  <1>1. LoginInv => QueueConsistent
    <2>1. SUFFICES ASSUME LoginInv PROVE QueueConsistent
      OBVIOUS
    <2>2. /\ IsInjective(queue) /\ Waiting \subseteq Listed /\ Waiting \cap admitted = {}
          /\ initializing \subseteq Listed \cap admitted /\ Waiting \subseteq inQueue
          /\ inQueue \cap Listed \subseteq Waiting \cup initializing
      BY <2>1 DEF LoginInv, Agree, State, Waiting
    <2>3. inQueue \cap Listed = Waiting \cup (inQueue \cap initializing)
      BY <2>2
    <2>4. QED
      BY <2>2, <2>3 DEF QueueConsistent
  <1>2. QED
    BY <1>1, LoginInvariant, PTL

(* m_sessionCount is the number of WorldSession objects, and never wraps,   *)
(* unless a store of the plain integer overwrote another thread's.          *)
THEOREM LoginCountIsSessions == Spec => []CountIsSessions
  <1>1. LoginInv => CountIsSessions
    BY DEF LoginInv
  <1>2. QED
    BY <1>1, LoginInvariant, PTL

(* Whoever leaves, is replaced, waits or lingers on a map: the players let  *)
(* in are never more than MaxAccountsOnline.                                *)
THEOREM LoginLimitRespected == Spec => []LimitRespected
  <1>1. LoginInv => LimitRespected
    BY DEF LoginInv
  <1>2. QED
    BY <1>1, LoginInvariant, PTL
=============================================================================
