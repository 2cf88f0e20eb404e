------------------------- MODULE WorldSocketProofs -------------------------
(* Proofs about WorldSocket for any senders, packets, buffers and settings. *)
EXTENDS WorldSocket, SequenceTheorems, FiniteSetTheorems, TLAPS

LEMMA Bounds == MaxPackets \in Nat /\ BufferRoom \in Nat \ {0}
  BY SocketConstants

LEMMA InitType == Init => TypeOK
  <1> SUFFICES ASSUME Init PROVE TypeOK
    OBVIOUS
  <1>1. QueuesTyped
    BY EmptySeq, Zenon DEF Init, QueuesTyped
  <1>2. FlagsTyped
    BY DEF Init, FlagsTyped, NetPC, CloserPC
  <1>3. EndsTyped
    BY DEF Init, EndsTyped
  <1>4. QED
    BY <1>1, <1>2, <1>3 DEF TypeOK

(* What a step of the network thread stores, other threads see in part.    *)
LEMMA VisibleEnds ==
  ASSUME EndsTyped, Visible, pushed' \in Nat, popped' \in 0..pushed',
         pushed <= pushed', popped <= popped',
         UNCHANGED <<firstEnd, promise>>
  PROVE  EndsTyped' /\ seenPushed <= seenPushed' /\ seenPopped <= seenPopped'
  BY DEF EndsTyped, Visible

LEMMA QueuePacketsType ==
  ASSUME TypeOK, NEW new \in Seq(Seq(Packets)), QueuePackets(new)
  PROVE  /\ writeQueue' \in Seq(Seq(Packets))
         /\ pushed' \in Nat /\ popped' \in 0..pushed'
         /\ pushed' = pushed + Len(new) /\ popped' = popped
         /\ Len(writeQueue') = Len(writeQueue) + Len(new)
  <1>1. Len(new) \in Nat
    BY LenProperties
  <1>2. QED
    BY <1>1, ConcatProperties DEF TypeOK, QueuesTyped, EndsTyped, QueuePackets

LEMMA SendType ==
  ASSUME TypeOK, AcceptedNumbered, NEW s \in Senders, SendCheck(s) \/ SendEnqueue(s)
  PROVE  TypeOK' /\ AcceptedNumbered'
  <1>1. CASE SendCheck(s)
    <2>1. /\ sending' = sending \cup {s} /\ s \notin sending
          /\ Len(accepted) + Cardinality(sending) < MaxPackets
          /\ accepted' = accepted
      BY <1>1 DEF SendCheck
    <2>2. IsFiniteSet(sending') /\ Cardinality(sending') = Cardinality(sending) + 1
      BY <2>1, FS_AddElement DEF AcceptedNumbered
    <2>3. Cardinality(sending) \in Nat
      BY FS_CardinalityType DEF AcceptedNumbered
    <2>4. AcceptedNumbered'
      BY Bounds, <2>1, <2>2, <2>3 DEF AcceptedNumbered, TypeOK, QueuesTyped
    <2>5. TypeOK'
      BY <1>1 DEF SendCheck, TypeOK, queueVars, closeVars, closerVars, seenVars,
                  QueuesTyped, FlagsTyped, EndsTyped
    <2>6. QED
      BY <2>4, <2>5
  <1>2. CASE SendEnqueue(s)
    <2>1. /\ sending' = sending \ {s} /\ s \in sending
          /\ accepted' = Append(accepted, Len(accepted) + 1)
          /\ bufferQueue' = Append(bufferQueue, Len(accepted) + 1)
      BY <1>2 DEF SendEnqueue
    <2>2. IsFiniteSet(sending') /\ Cardinality(sending') = Cardinality(sending) - 1
      BY <2>1, FS_RemoveElement DEF AcceptedNumbered
    <2>3. Cardinality(sending) \in Nat /\ Cardinality(sending') \in Nat
      BY <2>2, FS_CardinalityType DEF AcceptedNumbered
    <2>4. Len(accepted) + 1 \in Packets /\ Len(accepted) \in Nat
      BY Bounds, <2>2, <2>3 DEF AcceptedNumbered, TypeOK, QueuesTyped, Packets
    <2>5. /\ accepted' \in Seq(Packets) /\ bufferQueue' \in Seq(Packets)
          /\ Len(accepted') = Len(accepted) + 1
          /\ \A i \in 1..Len(accepted) : accepted'[i] = accepted[i]
          /\ accepted'[Len(accepted) + 1] = Len(accepted) + 1
      BY <2>1, <2>4 DEF TypeOK, QueuesTyped
    <2>6. AcceptedNumbered'
      <3>1. \A i \in 1..Len(accepted') : accepted'[i] = i
        BY <2>4, <2>5 DEF AcceptedNumbered
      <3>2. Len(accepted') + Cardinality(sending') <= MaxPackets
        BY Bounds, <2>2, <2>3, <2>4, <2>5 DEF AcceptedNumbered
      <3>3. QED
        BY <2>2, <3>1, <3>2 DEF AcceptedNumbered
    <2>7. QueuesTyped'
      <3>1. UNCHANGED <<buffer, writeQueue, wire>>
        BY <1>2 DEF SendEnqueue, queueVars
      <3>2. QED
        BY <2>5, <3>1 DEF TypeOK, QueuesTyped
    <2>8. FlagsTyped' /\ EndsTyped'
      BY <1>2, <2>1 DEF SendEnqueue, queueVars, closeVars, closerVars, seenVars, TypeOK,
                        FlagsTyped, EndsTyped
    <2>9. QED
      BY <2>6, <2>7, <2>8 DEF TypeOK
  <1>3. QED
    BY <1>1, <1>2

-----------------------------------------------------------------------------
(* The closing protocol.  Marks stay, ends only grow.                      *)
closeState == <<closing, closer, firstEnd, closedBy, promise>>

LEMMA EndsGrow ==
  ASSUME EndsTyped, EndsTyped', CloseInv, UNCHANGED closeState, QueueEnds',
         popped <= popped', seenPushed <= seenPushed'
  PROVE  CloseInv'
  <1> USE DEF EndsTyped, CloseInv, closeState
  <1>1. PromiseSeen' /\ CloserMarked'
    BY DEF PromiseSeen, CloserMarked
  <1>2. FirstLoad'
    BY DEF FirstLoad
  <1>3. SeenEmpty' /\ ClosedFlushed'
    BY DEF SeenEmpty, ClosedFlushed
  <1>4. QED
    BY <1>1, <1>2, <1>3

LEMMA PushEnds ==
  ASSUME TypeOK, CloseInv, NEW new \in Seq(Seq(Packets)), QueuePackets(new), Visible,
         UNCHANGED closeState
  PROVE  /\ EndsTyped' /\ CloseInv' /\ setting' = setting
         /\ writeQueue' \in Seq(Seq(Packets))
         /\ Len(writeQueue') = Len(writeQueue) + Len(new)
  <1>1. Len(new) \in Nat /\ Len(writeQueue) \in Nat
    BY LenProperties DEF TypeOK, QueuesTyped
  <1>2. /\ writeQueue' \in Seq(Seq(Packets))
        /\ pushed' \in Nat /\ popped' \in 0..pushed'
        /\ pushed' = pushed + Len(new) /\ popped' = popped
        /\ Len(writeQueue') = Len(writeQueue) + Len(new)
    BY QueuePacketsType
  <1>3. EndsTyped' /\ seenPushed <= seenPushed'
    BY <1>1, <1>2, VisibleEnds DEF TypeOK, EndsTyped, closeState
  <1>4. QueueEnds'
    BY <1>1, <1>2 DEF CloseInv, QueueEnds, TypeOK, EndsTyped
  <1>5. CloseInv'
    BY <1>2, <1>3, <1>4, EndsGrow DEF TypeOK, EndsTyped
  <1>6. QED
    BY <1>2, <1>3, <1>5 DEF Visible

LEMMA PopEnds ==
  ASSUME TypeOK, CloseInv, writeQueue # <<>>, Pop, UNCHANGED closeState
  PROVE  /\ EndsTyped' /\ CloseInv' /\ setting' = setting
         /\ writeQueue' \in Seq(Seq(Packets))
         /\ Len(writeQueue') = Len(writeQueue) - 1
  <1>1. /\ writeQueue' \in Seq(Seq(Packets)) /\ Len(writeQueue) \in Nat
        /\ Len(writeQueue) >= 1 /\ Len(writeQueue') = Len(writeQueue) - 1
    BY HeadTailProperties, EmptySeq DEF Pop, TypeOK, QueuesTyped
  <1>2. pushed' = pushed /\ popped' = popped + 1 /\ pushed \in Nat /\ popped \in Nat
    BY DEF Pop, TypeOK, EndsTyped
  <1>3. popped' \in 0..pushed' /\ QueueEnds'
    BY <1>1, <1>2 DEF CloseInv, QueueEnds
  <1>4. EndsTyped' /\ seenPushed <= seenPushed'
    BY <1>2, <1>3, VisibleEnds DEF Pop, TypeOK, closeState
  <1>5. CloseInv'
    BY <1>2, <1>3, <1>4, EndsGrow DEF TypeOK
  <1>6. QED
    BY <1>1, <1>4, <1>5 DEF Pop, Visible

(* Steps that leave the queues and what empty() reads of them alone.       *)
endState == <<writeQueue, pushed, popped, seenPushed, seenPopped>>

LEMMA CloserCloseInv ==
  ASSUME TypeOK, CloseInv, CloserNext
  PROVE  CloseInv' /\ EndsTyped' /\ FlagsTyped'
  <1> USE DEF TypeOK, CloserNext
  <1>1. UNCHANGED endState /\ UNCHANGED <<sending, writing, failed, net, held, setting>>
    BY DEF DelayedClose, EmptyFirstLoad, EmptySecondLoad, Kick, CloseExchange, CloseShutdown,
           endState, sendVars, queueVars, seenVars
  <1>2. QueueEnds'
    BY <1>1 DEF CloseInv, QueueEnds, endState
  <1>3. CASE DelayedClose
    <2>1. CASE closing
      BY <1>1, <1>2, <1>3, <2>1 DEF DelayedClose, CloseInv, PromiseSeen, CloserMarked, FirstLoad,
             SeenEmpty, ClosedFlushed, FlagsTyped, EndsTyped, CloserPC, endState
    <2>2. CASE ~closing
      BY <1>1, <1>2, <1>3, <2>2 DEF DelayedClose, SetClosing, CloseInv, PromiseSeen, CloserMarked,
             FirstLoad, SeenEmpty, ClosedFlushed, FlagsTyped, EndsTyped, CloserPC, endState
    <2>3. QED
      BY <2>1, <2>2
  <1>4. CASE EmptyFirstLoad
    <2>1. UNCHANGED <<closed, closing, shutdown, forceExit, closedBy, promise>>
      BY <1>4 DEF EmptyFirstLoad, closeVars
    <2>2. closer = "first" /\ closer' = "second"
      BY <1>4 DEF EmptyFirstLoad
    <2>3. FlagsTyped'
      BY <1>1, <2>1, <2>2 DEF FlagsTyped, CloserPC
    <2>4. promise.seen <= seenPushed
      BY <2>2 DEF CloseInv, PromiseSeen, CloserMarked
    <2>5. EndsTyped' /\ FirstLoad'
      <3>1. CASE firstEnd' = [front |-> TRUE, value |-> seenPopped]
        BY <1>1, <2>1, <3>1 DEF EndsTyped, FirstLoad, endState
      <3>2. CASE firstEnd' = [front |-> FALSE, value |-> seenPushed]
        BY <1>1, <2>1, <2>4, <3>2 DEF EndsTyped, FirstLoad, endState
      <3>3. QED
        BY <1>4, <3>1, <3>2 DEF EmptyFirstLoad
    <2>6. QED
      BY <1>1, <1>2, <2>1, <2>2, <2>3, <2>5 DEF CloseInv, PromiseSeen, CloserMarked,
         SeenEmpty, ClosedFlushed, endState
  <1>5. CASE EmptySecondLoad
    <2>1. UNCHANGED <<firstEnd, closed, closing, shutdown, forceExit, closedBy, promise>>
      BY <1>5 DEF EmptySecondLoad, closeVars
    <2>2. closer = "second" /\ closer' \in {"closeEmpty", "done"}
      BY <1>5 DEF EmptySecondLoad
    <2>3. closer' = "closeEmpty" => promise.seen <= popped
      <3>1. promise.seen <= seenPushed /\ seenPopped <= popped
            /\ promise.seen \in Nat /\ firstEnd.value \in Nat
        BY <2>2 DEF CloseInv, PromiseSeen, CloserMarked, EndsTyped
      <3>2. CASE firstEnd.front
        BY <1>5, <2>2, <3>1, <3>2 DEF EmptySecondLoad, CloseInv, FirstLoad, EndsTyped
      <3>3. CASE ~firstEnd.front
        BY <1>5, <2>2, <3>1, <3>3 DEF EmptySecondLoad, CloseInv, FirstLoad, EndsTyped
      <3>4. QED
        BY <3>2, <3>3
    <2>4. FlagsTyped' /\ EndsTyped'
      BY <1>1, <2>1, <2>2 DEF FlagsTyped, EndsTyped, CloserPC, endState
    <2>5. QED
      BY <1>1, <1>2, <2>1, <2>2, <2>3, <2>4 DEF CloseInv, PromiseSeen, CloserMarked,
         FirstLoad, SeenEmpty, ClosedFlushed, endState
  <1>6. CASE Kick
    BY <1>1, <1>2, <1>6 DEF Kick, closeVars, CloseInv, PromiseSeen, CloserMarked,
       FirstLoad, SeenEmpty, ClosedFlushed, FlagsTyped, EndsTyped, CloserPC, endState
  <1>7. CASE CloseExchange
    BY <1>1, <1>2, <1>7 DEF CloseExchange, CloseInv, PromiseSeen, CloserMarked,
       FirstLoad, SeenEmpty, ClosedFlushed, FlagsTyped, EndsTyped, CloserPC, endState
  <1>8. CASE CloseShutdown
    BY <1>1, <1>2, <1>8 DEF CloseShutdown, CloseInv, PromiseSeen, CloserMarked,
       FirstLoad, SeenEmpty, ClosedFlushed, FlagsTyped, EndsTyped, CloserPC, endState
  <1>9. QED
    BY <1>3, <1>4, <1>5, <1>6, <1>7, <1>8
-----------------------------------------------------------------------------
(* Queues of buffers, and the packets they hold.                           *)
LEMMA BufferType ==
  ASSUME NEW q \in Seq(Seq(Packets))
  PROVE  /\ Len(q) \in Nat
         /\ \A k \in 1..Len(q) : q[k] \in Seq(Packets) /\ Len(q[k]) \in Nat
         /\ \A k \in 1..Len(q) : \A i \in 1..Len(q[k]) : q[k][i] \in Nat
  <1>1. Len(q) \in Nat /\ \A k \in 1..Len(q) : q[k] \in Seq(Packets)
    OBVIOUS
  <1>2. ASSUME NEW b \in Seq(Packets)
        PROVE  Len(b) \in Nat /\ \A i \in 1..Len(b) : b[i] \in Nat
    BY Bounds DEF Packets
  <1>3. QED
    BY <1>1, <1>2

(* A buffer with the packets that follow goes to the back.                 *)
LEMMA AppendRun ==
  ASSUME NEW q \in Seq(Seq(Packets)), NEW lo \in Nat, NEW hi \in Nat, lo <= hi,
         HoldsExactly(q, lo, hi),
         NEW b \in Seq(Packets), \A i \in 1..Len(b) : b[i] = hi + i
  PROVE  /\ Append(q, b) \in Seq(Seq(Packets))
         /\ HoldsExactly(Append(q, b), lo, hi + Len(b))
  <1> DEFINE r == Append(q, b)
             n == Len(q)
  <1>1. /\ r \in Seq(Seq(Packets)) /\ n \in Nat /\ Len(r) = n + 1
        /\ \A k \in 1..n : r[k] = q[k]
        /\ r[n + 1] = b
    OBVIOUS
  <1>2. /\ \A k \in 1..n : Len(q[k]) \in Nat
        /\ \A k \in 1..n : \A i \in 1..Len(q[k]) : q[k][i] \in Nat
    BY BufferType
  <1>3. Len(b) \in Nat
    OBVIOUS
  <1>4. \A k \in 1..Len(r) : k \in 1..n \/ k = n + 1
    BY <1>1
  <1> HIDE DEF r, n
  <1>5. Runs(r, lo, hi + Len(b))
    <2>1. ASSUME NEW k \in 1..n, NEW i \in 1..Len(q[k])
          PROVE  q[k][i] \in (lo + 1)..(hi + Len(b)) /\ q[k][i] = q[k][1] + i - 1
      <3>1. q[k][i] \in (lo + 1)..hi /\ q[k][i] = q[k][1] + i - 1
        BY DEF HoldsExactly, Runs, n
      <3>2. QED
        BY <1>3, <3>1
    <2>2. ASSUME NEW i \in 1..Len(b)
          PROVE  b[i] \in (lo + 1)..(hi + Len(b)) /\ b[i] = b[1] + i - 1
      BY <1>3, SMTT(30)
    <2>3. SUFFICES ASSUME NEW k \in 1..Len(r), NEW i \in 1..Len(r[k])
                   PROVE  /\ r[k][i] \in (lo + 1)..(hi + Len(b))
                          /\ r[k][i] = r[k][1] + i - 1
      BY Zenon DEF Runs
    <2>4. CASE k \in 1..n
      <3>1. r[k] = q[k]
        BY <1>1, <2>4
      <3>2. QED
        BY <2>1, <2>4, <3>1, Zenon
    <2>5. CASE k = n + 1
      <3>1. r[k] = b
        BY <1>1, <2>5
      <3>2. QED
        BY <2>2, <3>1, Zenon
    <2>6. QED
      BY <1>4, <2>4, <2>5, Zenon
  <1>6. InOrder(r)
    <2>1. ASSUME NEW k \in 1..n, NEW l \in 1..n, k < l
          PROVE  Precedes(q[k], q[l])
      BY <2>1, Zenon DEF HoldsExactly, InOrder, n
    <2>2. ASSUME NEW k \in 1..n
          PROVE  Precedes(q[k], b)
      <3>1. \A i \in 1..Len(q[k]) : q[k][i] \in (lo + 1)..hi
        BY Zenon DEF HoldsExactly, Runs, n
      <3>2. \A x \in (lo + 1)..hi : \A j \in 1..Len(b) : x < b[j]
        BY <1>3
      <3>3. QED
        BY <3>1, <3>2, Zenon DEF Precedes
    <2>3. SUFFICES ASSUME NEW k \in 1..Len(r), NEW l \in 1..Len(r), k < l
                   PROVE  Precedes(r[k], r[l])
      BY Zenon DEF InOrder
    <2>4. k \in 1..n /\ (l \in 1..n \/ l = n + 1)
      BY <1>1, <2>3
    <2>5. CASE l \in 1..n
      <3>1. r[k] = q[k] /\ r[l] = q[l]
        BY <1>1, <2>4, <2>5, Zenon
      <3>2. QED
        BY <2>1, <2>3, <2>4, <2>5, <3>1, Zenon
    <2>6. CASE l = n + 1
      <3>1. r[k] = q[k] /\ r[l] = b
        BY <1>1, <2>4, <2>6, Zenon
      <3>2. QED
        BY <2>2, <2>4, <3>1, Zenon
    <2>7. QED
      BY <2>4, <2>5, <2>6
  <1>7. Covers(r, lo, hi + Len(b))
    <2>1. SUFFICES ASSUME NEW p \in (lo + 1)..(hi + Len(b))
                   PROVE  \E k \in 1..Len(r) : \E i \in 1..Len(r[k]) : r[k][i] = p
      BY DEF Covers
    <2>2. CASE p <= hi
      <3>1. PICK k \in 1..n : \E i \in 1..Len(q[k]) : q[k][i] = p
        <4>1. p \in (lo + 1)..hi
          BY <2>2
        <4>2. QED
          BY <4>1, Zenon DEF HoldsExactly, Covers, n
      <3>2. k \in 1..Len(r) /\ r[k] = q[k]
        BY <1>1
      <3>3. QED
        BY <3>1, <3>2
    <2>3. CASE p > hi
      <3>1. p - hi \in 1..Len(b) /\ b[p - hi] = p
        BY <1>3, <2>3, SMTT(30)
      <3>2. n + 1 \in 1..Len(r)
        BY <1>1
      <3>3. QED
        BY <1>1, <3>1, <3>2, Zenon
    <2>4. p <= hi \/ p > hi
      BY <1>3
    <2>5. QED
      BY <2>2, <2>3, <2>4, Zenon
  <1>8. QED
    BY <1>1, <1>5, <1>6, <1>7 DEF HoldsExactly, r

(* The front buffer begins with the next packet, if it has any.            *)
LEMMA FrontIsNext ==
  ASSUME NEW q \in Seq(Seq(Packets)), NEW lo \in Nat, NEW hi \in Nat,
         HoldsExactly(q, lo, hi), q # <<>>
  PROVE  /\ \A i \in 1..Len(q[1]) : q[1][i] = lo + i
         /\ lo <= hi => lo + Len(q[1]) <= hi
  <1>1. 1 \in 1..Len(q) /\ Len(q) \in Nat
    OBVIOUS
  <1>2. Len(q[1]) \in Nat
    BY <1>1, BufferType
  <1>3. SUFFICES ASSUME Len(q[1]) >= 1 PROVE q[1][1] = lo + 1
    <2>1. ASSUME NEW i \in 1..Len(q[1])
          PROVE  q[1][i] = lo + i /\ q[1][i] <= hi
      BY <1>1, <1>2, <1>3, SMTT(30) DEF HoldsExactly, Runs
    <2>2. CASE Len(q[1]) >= 1
      <3>1. Len(q[1]) \in 1..Len(q[1])
        BY <1>2, <2>2
      <3>2. QED
        BY <2>1, <3>1
    <2>3. CASE Len(q[1]) = 0
      BY <2>1, <2>3
    <2>4. QED
      BY <1>2, <2>2, <2>3
  <1>4. 1 \in 1..Len(q[1])
    BY <1>2, <1>3
  <1>5. q[1][1] \in (lo + 1)..hi
    BY <1>1, <1>4 DEF HoldsExactly, Runs
  <1>6. lo + 1 \in (lo + 1)..hi
    BY <1>5
  <1>7. PICK k \in 1..Len(q) : \E i \in 1..Len(q[k]) : q[k][i] = lo + 1
    BY <1>6 DEF HoldsExactly, Covers
  <1>8. PICK i \in 1..Len(q[k]) : q[k][i] = lo + 1
    BY <1>7
  <1>9. CASE k = 1
    <2>1. q[1][i] = q[1][1] + i - 1 /\ i >= 1 /\ i \in Int
      BY <1>1, <1>2, <1>8, <1>9 DEF HoldsExactly, Runs
    <2>2. QED
      BY <1>5, <1>8, <1>9, <2>1
  <1>10. CASE k # 1
    <2>1. 1 < k
      BY <1>1, <1>10
    <2>2. q[1][1] < q[k][i]
      BY <1>1, <1>4, <2>1 DEF HoldsExactly, InOrder, Precedes
    <2>3. QED
      BY <1>5, <1>8, <2>2
  <1>11. QED
    BY <1>9, <1>10
(* Everything behind the front buffer follows what it holds.               *)
LEMMA BehindFront ==
  ASSUME NEW q \in Seq(Seq(Packets)), NEW lo \in Nat, NEW hi \in Nat, lo <= hi,
         HoldsExactly(q, lo, hi), q # <<>>,
         NEW k \in 2..Len(q), NEW i \in 1..Len(q[k])
  PROVE  q[k][i] \in (lo + Len(q[1]) + 1)..hi
  <1>1. 1 \in 1..Len(q) /\ Len(q) \in Nat /\ k \in 1..Len(q) /\ 1 < k
    OBVIOUS
  <1>2. Len(q[1]) \in Nat
    BY <1>1, BufferType
  <1>3. \A j \in 1..Len(q[1]) : q[1][j] = lo + j
    BY FrontIsNext, Zenon
  <1>4. q[k][i] \in (lo + 1)..hi
    BY <1>1, Zenon DEF HoldsExactly, Runs
  <1>5. Precedes(q[1], q[k])
    BY <1>1, Zenon DEF HoldsExactly, InOrder
  <1>6. CASE Len(q[1]) = 0
    BY <1>4, <1>6
  <1>7. CASE Len(q[1]) # 0
    <2>1. Len(q[1]) \in 1..Len(q[1])
      BY <1>2, <1>7
    <2>2. q[1][Len(q[1])] < q[k][i] /\ q[1][Len(q[1])] = lo + Len(q[1])
      BY <1>3, <1>5, <2>1, Zenon DEF Precedes
    <2>3. \A x \in (lo + 1)..hi : lo + Len(q[1]) < x => x \in (lo + Len(q[1]) + 1)..hi
      BY <1>2
    <2>4. QED
      BY <1>4, <2>2, <2>3, Zenon
  <1>8. QED
    BY <1>6, <1>7

LEMMA PopFront ==
  ASSUME NEW q \in Seq(Seq(Packets)), NEW lo \in Nat, NEW hi \in Nat, lo <= hi,
         HoldsExactly(q, lo, hi), q # <<>>
  PROVE  HoldsExactly(Tail(q), lo + Len(q[1]), hi)
  <1> DEFINE r == Tail(q)
             n == Len(q)
  <1>1. /\ n \in Nat /\ n >= 1 /\ Len(r) = n - 1
        /\ \A k \in 1..Len(r) : r[k] = q[k + 1]
    OBVIOUS
  <1>2. \A k \in 1..Len(r) : k + 1 \in 2..n /\ k + 1 \in 1..n
    BY <1>1
  <1> HIDE DEF r, n
  <1>3. Runs(r, lo + Len(q[1]), hi)
    <2>1. SUFFICES ASSUME NEW k \in 1..Len(r), NEW i \in 1..Len(r[k])
                   PROVE  /\ r[k][i] \in (lo + Len(q[1]) + 1)..hi
                          /\ r[k][i] = r[k][1] + i - 1
      BY Zenon DEF Runs
    <2>2. r[k] = q[k + 1] /\ k + 1 \in 2..Len(q) /\ k + 1 \in 1..Len(q)
      BY <1>1, <1>2, Zenon DEF n
    <2>3. i \in 1..Len(q[k + 1])
      BY <2>2, Zenon
    <2>4. q[k + 1][i] \in (lo + Len(q[1]) + 1)..hi
      BY <2>2, <2>3, BehindFront, Zenon
    <2>5. q[k + 1][i] = q[k + 1][1] + i - 1
      BY <2>2, <2>3, Zenon DEF HoldsExactly, Runs
    <2>6. QED
      BY <2>2, <2>4, <2>5, Zenon
  <1>4. InOrder(r)
    <2>1. SUFFICES ASSUME NEW k \in 1..Len(r), NEW l \in 1..Len(r), k < l
                   PROVE  Precedes(r[k], r[l])
      BY Zenon DEF InOrder
    <2>2. r[k] = q[k + 1] /\ k + 1 \in 1..n /\ r[l] = q[l + 1] /\ l + 1 \in 1..n
      BY <1>1, <1>2, Zenon
    <2>3. k + 1 < l + 1
      BY <1>1, <2>1
    <2>4. QED
      BY <2>2, <2>3, Zenon DEF HoldsExactly, InOrder, n
  <1>5. Covers(r, lo + Len(q[1]), hi)
    <2>1. SUFFICES ASSUME NEW p \in (lo + Len(q[1]) + 1)..hi
                   PROVE  \E k \in 1..Len(r) : \E i \in 1..Len(r[k]) : r[k][i] = p
      BY Zenon DEF Covers
    <2>2. Len(q[1]) \in Nat
      BY <1>1, BufferType DEF n
    <2>3. p \in (lo + 1)..hi
      BY <2>2
    <2>4. PICK k \in 1..n : \E i \in 1..Len(q[k]) : q[k][i] = p
      BY <2>3, Zenon DEF HoldsExactly, Covers, n
    <2>5. PICK i \in 1..Len(q[k]) : q[k][i] = p
      BY <2>4
    <2>6. k # 1
      <3>1. SUFFICES ASSUME k = 1 PROVE FALSE
        OBVIOUS
      <3>2. q[1][i] = lo + i /\ i \in 1..Len(q[1])
        BY <2>5, <3>1, FrontIsNext, Zenon
      <3>3. q[1][i] = p
        BY <2>5, <3>1
      <3>4. QED
        BY <2>2, <3>2, <3>3
    <2>7. k - 1 \in 1..Len(r) /\ (k - 1) + 1 = k
      BY <1>1, <2>6
    <2>8. r[k - 1] = q[k]
      BY <1>1, <2>7
    <2>9. QED
      BY <2>5, <2>7, <2>8, Zenon
  <1>6. QED
    BY <1>3, <1>4, <1>5 DEF HoldsExactly, r

(* Part of the front buffer goes out.                                      *)
LEMMA ShortenFront ==
  ASSUME NEW q \in Seq(Seq(Packets)), NEW lo \in Nat, NEW hi \in Nat, lo <= hi,
         HoldsExactly(q, lo, hi), q # <<>>,
         NEW m \in 0..(Len(q[1]) - 1)
  PROVE  HoldsExactly(<< SubSeq(q[1], m + 1, Len(q[1])) >> \o Tail(q), lo + m, hi)
  <1> DEFINE b == SubSeq(q[1], m + 1, Len(q[1]))
             r == << b >> \o Tail(q)
             n == Len(q)
  <1>1. n \in Nat /\ n >= 1 /\ q[1] \in Seq(Packets)
    OBVIOUS
  <1>2. Len(q[1]) \in Nat
    BY <1>1
  <1>3. m \in Nat /\ m < Len(q[1])
    BY <1>2
  <1>4. /\ b \in Seq(Packets) /\ Len(b) = Len(q[1]) - m
        /\ \A i \in 1..Len(b) : b[i] = q[1][m + i]
    BY <1>1, <1>2, <1>3, SubSeqProperties
  <1>5. /\ Len(r) = n
        /\ r[1] = b
        /\ \A k \in 2..n : r[k] = q[k]
    <2>1. Tail(q) \in Seq(Seq(Packets)) /\ Len(Tail(q)) = n - 1
          /\ \A k \in 1..(n - 1) : Tail(q)[k] = q[k + 1]
      OBVIOUS
    <2>2. << b >> \in Seq(Seq(Packets)) /\ Len(<< b >>) = 1 /\ << b >>[1] = b
      BY <1>4
    <2> HIDE DEF b
    <2>3. /\ Len(r) = Len(<< b >>) + Len(Tail(q))
          /\ \A k \in 1..(Len(<< b >>) + Len(Tail(q))) :
                r[k] = IF k <= Len(<< b >>) THEN << b >>[k] ELSE Tail(q)[k - Len(<< b >>)]
      BY <2>1, <2>2, ConcatProperties
    <2>4. QED
      BY <1>1, <2>1, <2>2, <2>3
  <1> HIDE DEF b, r, n
  <1>6. \A i \in 1..Len(q[1]) : q[1][i] = lo + i
    BY FrontIsNext, Zenon
  <1>7. lo + Len(q[1]) <= hi
    BY FrontIsNext, Zenon
  <1>8. \A i \in 1..Len(b) : b[i] = lo + m + i
    BY <1>2, <1>3, <1>4, <1>6, SMTT(30)
  <1>9. \A k \in 1..Len(r) : k = 1 \/ (k \in 2..n /\ k \in 1..n)
    BY <1>1, <1>5
  <1>10. \A k \in 2..n : \A i \in 1..Len(q[k]) :
           /\ q[k][i] \in (lo + Len(q[1]) + 1)..hi
           /\ q[k][i] = q[k][1] + i - 1
    <2>1. SUFFICES ASSUME NEW k \in 2..n, NEW i \in 1..Len(q[k])
                   PROVE  /\ q[k][i] \in (lo + Len(q[1]) + 1)..hi
                          /\ q[k][i] = q[k][1] + i - 1
      BY Zenon
    <2>2. k \in 1..Len(q)
      BY <1>1 DEF n
    <2>3. QED
      BY <2>2, BehindFront, Zenon DEF HoldsExactly, Runs, n
  <1>11. Runs(r, lo + m, hi)
    <2>1. SUFFICES ASSUME NEW k \in 1..Len(r), NEW i \in 1..Len(r[k])
                   PROVE  /\ r[k][i] \in (lo + m + 1)..hi
                          /\ r[k][i] = r[k][1] + i - 1
      BY Zenon DEF Runs
    <2>2. CASE k = 1
      <3>1. i \in 1..Len(b) /\ r[k] = b
        BY <1>5, <2>2, Zenon
      <3>2. b[i] \in (lo + m + 1)..hi /\ b[i] = b[1] + i - 1
        <4>1. 1 \in 1..Len(b) /\ i \in 1..(Len(q[1]) - m)
          BY <1>2, <1>3, <1>4, <3>1
        <4>2. b[i] = lo + m + i /\ b[1] = lo + m + 1
          BY <1>8, <3>1, <4>1, Zenon
        <4>3. lo + m + i \in (lo + m + 1)..hi /\ lo + m + i = lo + m + 1 + i - 1
          BY <1>2, <1>3, <1>7, <4>1
        <4>4. QED
          BY <4>2, <4>3, Zenon
      <3>3. QED
        BY <3>1, <3>2, Zenon
    <2>3. CASE k \in 2..n
      <3>1. i \in 1..Len(q[k]) /\ r[k] = q[k]
        BY <1>5, <2>3, Zenon
      <3>2. q[k][i] \in (lo + Len(q[1]) + 1)..hi /\ q[k][i] = q[k][1] + i - 1
        BY <1>10, <2>3, <3>1, Zenon
      <3>3. \A x \in (lo + Len(q[1]) + 1)..hi : x \in (lo + m + 1)..hi
        BY <1>2, <1>3
      <3>4. QED
        BY <3>1, <3>2, <3>3, Zenon
    <2>4. QED
      BY <1>9, <2>2, <2>3, Zenon
  <1>12. InOrder(r)
    <2>1. SUFFICES ASSUME NEW k \in 1..Len(r), NEW l \in 1..Len(r), k < l
                   PROVE  Precedes(r[k], r[l])
      BY Zenon DEF InOrder
    <2>2. l \in 2..n /\ l \in 1..n
      BY <1>1, <1>5, <2>1
    <2>3. r[l] = q[l]
      BY <1>5, <2>2, Zenon
    <2>4. CASE k = 1
      <3>1. ASSUME NEW i \in 1..Len(b), NEW j \in 1..Len(q[l]) PROVE b[i] < q[l][j]
        <4>0. i \in 1..(Len(q[1]) - m)
          BY <1>4
        <4>1. b[i] = lo + m + i
          BY <1>8, Zenon
        <4>2. q[l][j] \in (lo + Len(q[1]) + 1)..hi
          BY <1>10, <2>2, Zenon
        <4>3. \A x \in (lo + Len(q[1]) + 1)..hi : lo + m + i < x
          BY <1>2, <1>3, <4>0
        <4>4. QED
          BY <4>1, <4>2, <4>3, Zenon
      <3>2. QED
        BY <1>5, <2>3, <2>4, <3>1, Zenon DEF Precedes
    <2>5. CASE k \in 2..n /\ k \in 1..n
      <3>1. r[k] = q[k]
        BY <1>5, <2>5, Zenon
      <3>2. QED
        BY <2>1, <2>2, <2>3, <2>5, <3>1, Zenon DEF HoldsExactly, InOrder, n
    <2>6. QED
      BY <1>9, <2>4, <2>5, Zenon
  <1>13. Covers(r, lo + m, hi)
    <2>1. SUFFICES ASSUME NEW p \in (lo + m + 1)..hi
                   PROVE  \E k \in 1..Len(r) : \E i \in 1..Len(r[k]) : r[k][i] = p
      BY Zenon DEF Covers
    <2>2. CASE p <= lo + Len(q[1])
      <3>1. p - lo - m \in 1..Len(b) /\ b[p - lo - m] = p
        <4>1. p - lo - m \in 1..Len(b) /\ p = lo + m + (p - lo - m)
          BY <1>2, <1>3, <1>4, <2>2
        <4>2. b[p - lo - m] = lo + m + (p - lo - m)
          BY <1>8, <4>1, Zenon
        <4>3. QED
          BY <4>1, <4>2, Zenon
      <3>2. 1 \in 1..Len(r)
        BY <1>1, <1>5
      <3>3. QED
        BY <1>5, <3>1, <3>2, Zenon
    <2>3. CASE p > lo + Len(q[1])
      <3>1. p \in (lo + 1)..hi
        BY <1>3
      <3>2. PICK k \in 1..n : \E i \in 1..Len(q[k]) : q[k][i] = p
        BY <3>1, Zenon DEF HoldsExactly, Covers, n
      <3>3. PICK i \in 1..Len(q[k]) : q[k][i] = p
        BY <3>2
      <3>4. k # 1
        <4>1. SUFFICES ASSUME k = 1 PROVE FALSE
          OBVIOUS
        <4>2. q[1][i] = lo + i /\ i \in 1..Len(q[1]) /\ q[1][i] = p
          BY <1>6, <3>3, <4>1, Zenon
        <4>3. QED
          BY <1>2, <2>3, <4>2, SMTT(30)
      <3>5. k \in 2..n /\ k \in 1..Len(r)
        BY <1>1, <1>5, <3>4
      <3>6. r[k] = q[k]
        BY <1>5, <3>5, Zenon
      <3>7. QED
        BY <3>3, <3>5, <3>6, Zenon
    <2>4. QED
      BY <1>2, <1>3, <2>2, <2>3
  <1>14. QED
    BY <1>11, <1>12, <1>13 DEF HoldsExactly, r, b
-----------------------------------------------------------------------------
(* The stream, action by action.                                           *)
LEMMA MovedType ==
  ASSUME TypeOK
  PROVE  /\ Len(accepted) \in Nat /\ Len(bufferQueue) \in Nat /\ Len(buffer) \in Nat
         /\ Len(wire) \in Nat /\ Len(writeQueue) \in Nat
         /\ Moved \in Int
         /\ StreamInv => Moved \in Nat
  <1>1. /\ Len(accepted) \in Nat /\ Len(bufferQueue) \in Nat /\ Len(buffer) \in Nat
        /\ Len(wire) \in Nat /\ Len(writeQueue) \in Nat
    BY LenProperties DEF TypeOK, QueuesTyped
  <1>2. QED
    BY <1>1 DEF Moved, StreamInv, WireNumbered

(* Steps that move no packet.                                              *)
stream == <<bufferQueue, buffer, writeQueue, wire, accepted>>

LEMMA QuietStream ==
  ASSUME TypeOK, StreamInv, UNCHANGED stream, sending' = sending, Whole' => Whole,
         net' = "drain" => net = "drain" \/ buffer = <<>>,
         net' # "drain" => net # "drain"
  PROVE  QueuesTyped' /\ StreamInv'
  <1>1. QueuesTyped'
    BY DEF TypeOK, QueuesTyped, stream
  <1>2. Moved' = Moved
    BY DEF Moved, stream
  <1>3. AcceptedNumbered' /\ WireNumbered' /\ EndOfStream'
    BY <1>2 DEF StreamInv, AcceptedNumbered, WireNumbered, EndOfStream, stream
  <1>4. net' # "drain" => buffer' = <<>>
    BY DEF StreamInv, stream
  <1>5. Whole' => HoldsExactly(writeQueue', Len(wire'), Moved')
    <2>1. writeQueue' = writeQueue /\ Len(wire') = Len(wire)
      BY DEF stream
    <2>2. QED
      BY <1>2, <2>1, Zenon DEF StreamInv
  <1>6. QED
    BY <1>1, <1>3, <1>4, <1>5 DEF StreamInv

LEMMA SendStream ==
  ASSUME TypeOK, StreamInv, NEW s \in Senders, SendCheck(s) \/ SendEnqueue(s)
  PROVE  TypeOK' /\ StreamInv'
  <1>1. TypeOK' /\ AcceptedNumbered'
    BY SendType DEF StreamInv
  <1>2. UNCHANGED <<buffer, writeQueue, wire, net, failed, shutdown>>
    BY DEF SendCheck, SendEnqueue, queueVars, closeVars
  <1>3. Moved' = Moved /\ EndOfStream'
    <2>1. CASE SendCheck(s)
      <3>1. UNCHANGED <<bufferQueue, accepted>>
        BY <2>1 DEF SendCheck
      <3>2. Moved' = Moved
        BY <1>2, <3>1 DEF Moved
      <3>3. QED
        BY <1>2, <3>1, <3>2 DEF StreamInv, EndOfStream
    <2>2. CASE SendEnqueue(s)
      <3>1. /\ accepted' = Append(accepted, Len(accepted) + 1)
            /\ bufferQueue' = Append(bufferQueue, Len(accepted) + 1)
        BY <2>2 DEF SendEnqueue
      <3>2. /\ Len(accepted') = Len(accepted) + 1
            /\ Len(bufferQueue') = Len(bufferQueue) + 1
            /\ bufferQueue'[Len(bufferQueue) + 1] = Len(accepted) + 1
            /\ \A i \in 1..Len(bufferQueue) : bufferQueue'[i] = bufferQueue[i]
        BY <3>1 DEF TypeOK, QueuesTyped
      <3>3. /\ Len(accepted) \in Nat /\ Len(bufferQueue) \in Nat /\ Len(buffer) \in Nat
            /\ Moved \in Int
        BY MovedType, Zenon
      <3>4. Moved' = Moved
        BY <1>2, <3>2, <3>3 DEF Moved
      <3>5. \A i \in 1..Len(buffer') : buffer'[i] = Moved' + i
        BY <1>2, <3>4 DEF StreamInv, EndOfStream
      <3>6. ASSUME NEW i \in 1..Len(bufferQueue')
            PROVE  bufferQueue'[i] = Moved' + Len(buffer') + i
        <4>1. CASE i \in 1..Len(bufferQueue)
          BY <1>2, <3>2, <3>4, <4>1 DEF StreamInv, EndOfStream
        <4>2. CASE i = Len(bufferQueue) + 1
          BY <1>2, <3>2, <3>3, <3>4, <4>2 DEF Moved
        <4>3. QED
          BY <3>2, <3>3, <4>1, <4>2
      <3>7. QED
        BY <3>4, <3>5, <3>6 DEF EndOfStream
    <2>3. QED
      BY <2>1, <2>2
  <1>4. WireNumbered' /\ (net' # "drain" => buffer' = <<>>)
    BY <1>2, <1>3 DEF StreamInv, WireNumbered
  <1>5. Whole' => HoldsExactly(writeQueue', Len(wire'), Moved')
    <2>1. writeQueue' = writeQueue /\ Len(wire') = Len(wire) /\ (Whole' <=> Whole)
      BY <1>2 DEF Whole
    <2>2. QED
      BY <1>3, <2>1, Zenon DEF StreamInv
  <1>6. QED
    BY <1>1, <1>3, <1>4, <1>5 DEF StreamInv

(* Update hands its buffer over.                                           *)
LEMMA QueueBuffer ==
  ASSUME TypeOK, StreamInv, Whole
  PROVE  /\ Append(writeQueue, buffer) \in Seq(Seq(Packets))
         /\ HoldsExactly(Append(writeQueue, buffer), Len(wire), Moved + Len(buffer))
  <1>1. Len(wire) \in Nat /\ Moved \in Nat /\ Len(wire) <= Moved
    BY MovedType DEF StreamInv, WireNumbered
  <1>2. writeQueue \in Seq(Seq(Packets)) /\ buffer \in Seq(Packets)
    BY DEF TypeOK, QueuesTyped
  <1>3. HoldsExactly(writeQueue, Len(wire), Moved)
    BY DEF StreamInv
  <1>4. \A i \in 1..Len(buffer) : buffer[i] = Moved + i
    BY DEF StreamInv, EndOfStream
  <1>5. QED
    BY <1>1, <1>2, <1>3, <1>4, AppendRun, Zenon

LEMMA DequeueStream ==
  ASSUME TypeOK, StreamInv, UpdateDequeue
  PROVE  QueuesTyped' /\ StreamInv'
  <1> DEFINE p == Head(bufferQueue)
  <1>1. /\ net = "drain" /\ net' = net /\ bufferQueue # <<>>
        /\ bufferQueue' = Tail(bufferQueue)
        /\ UNCHANGED <<sending, accepted, wire, failed>>
        /\ shutdown' = shutdown
    BY DEF UpdateDequeue, closeVars
  <1>2. /\ Len(accepted) \in Nat /\ Len(bufferQueue) \in Nat /\ Len(buffer) \in Nat
        /\ Len(wire) \in Nat /\ Moved \in Nat
    BY MovedType, Zenon
  <1>3. /\ bufferQueue' \in Seq(Packets) /\ p \in Packets /\ p = bufferQueue[1]
        /\ Len(bufferQueue') = Len(bufferQueue) - 1 /\ Len(bufferQueue) >= 1
        /\ \A i \in 1..Len(bufferQueue') : bufferQueue'[i] = bufferQueue[i + 1]
    BY <1>1 DEF TypeOK, QueuesTyped
  <1>4. p = Moved + Len(buffer) + 1
    BY <1>2, <1>3 DEF StreamInv, EndOfStream
  <1>5. \A i \in 1..Len(bufferQueue') : bufferQueue'[i] = Moved + Len(buffer) + 1 + i
    <2>1. ASSUME NEW i \in 1..Len(bufferQueue')
          PROVE  bufferQueue'[i] = Moved + Len(buffer) + 1 + i
      <3>1. i + 1 \in 1..Len(bufferQueue)
        BY <1>2, <1>3
      <3>2. bufferQueue[i + 1] = Moved + Len(buffer) + (i + 1)
        BY <3>1, Zenon DEF StreamInv, EndOfStream
      <3>3. QED
        BY <1>2, <1>3, <3>2
    <2>2. QED
      BY <2>1
  <1>6. AcceptedNumbered'
    BY <1>1 DEF StreamInv, AcceptedNumbered
  <1>7. Whole' <=> Whole
    BY <1>1 DEF Whole
  <1> HIDE DEF p
  <1>8. SUFFICES /\ writeQueue' \in Seq(Seq(Packets)) /\ buffer' \in Seq(Packets)
                 /\ Moved' \in Nat /\ Moved' >= Moved
                 /\ Moved' + Len(buffer') = Moved + Len(buffer) + 1
                 /\ \A i \in 1..Len(buffer') : buffer'[i] = Moved' + i
                 /\ Whole => HoldsExactly(writeQueue', Len(wire), Moved')
    <2>1. QueuesTyped'
      BY <1>1, <1>3, <1>8 DEF TypeOK, QueuesTyped
    <2>2. WireNumbered'
      BY <1>1, <1>2, <1>8 DEF StreamInv, WireNumbered
    <2>3. EndOfStream'
      BY <1>5, <1>8 DEF EndOfStream
    <2>4. Whole' => HoldsExactly(writeQueue', Len(wire'), Moved')
      BY <1>1, <1>7, <1>8, Zenon
    <2>5. QED
      BY <1>1, <1>6, <2>1, <2>2, <2>3, <2>4 DEF StreamInv
  <1>9. CASE p \in setting.big
    <2>1. writeQueue' = writeQueue \o <<buffer, <<p>> >> /\ buffer' = <<>>
      BY <1>9 DEF UpdateDequeue, QueuePackets, p
    <2>2. writeQueue \in Seq(Seq(Packets)) /\ buffer \in Seq(Packets)
          /\ <<p>> \in Seq(Packets)
      BY <1>3 DEF TypeOK, QueuesTyped
    <2>3. writeQueue' = Append(Append(writeQueue, buffer), <<p>>)
      BY <2>1, <2>2
    <2>4. writeQueue' \in Seq(Seq(Packets)) /\ buffer' \in Seq(Packets) /\ Len(buffer') = 0
      BY <2>1, <2>2, <2>3
    <2>5. Moved' = Moved + Len(buffer) + 1
      BY <1>1, <1>2, <1>3, <2>4 DEF Moved
    <2>6. ASSUME Whole PROVE HoldsExactly(writeQueue', Len(wire), Moved')
      <3>1. /\ Append(writeQueue, buffer) \in Seq(Seq(Packets))
            /\ HoldsExactly(Append(writeQueue, buffer), Len(wire), Moved + Len(buffer))
        BY <2>6, QueueBuffer
      <3>2. Len(<<p>>) = 1 /\ \A i \in 1..Len(<<p>>) : <<p>>[i] = Moved + Len(buffer) + i
        BY <1>2, <1>4
      <3>3. Moved + Len(buffer) \in Nat /\ Len(wire) <= Moved + Len(buffer)
        BY <1>2 DEF StreamInv, WireNumbered
      <3>4. HoldsExactly(writeQueue', Len(wire), Moved + Len(buffer) + Len(<<p>>))
        BY <1>2, <2>2, <2>3, <3>1, <3>2, <3>3, AppendRun, Zenon
      <3>5. QED
        BY <2>5, <3>2, <3>4, Zenon
    <2>7. QED
      BY <1>2, <2>4, <2>5, <2>6
  <1>10. CASE p \notin setting.big /\ Len(buffer) = BufferRoom
    <2>1. writeQueue' = writeQueue \o <<buffer>> /\ buffer' = <<p>>
      BY <1>10 DEF UpdateDequeue, QueuePackets, p
    <2>2. writeQueue \in Seq(Seq(Packets)) /\ buffer \in Seq(Packets)
      BY DEF TypeOK, QueuesTyped
    <2>3. writeQueue' = Append(writeQueue, buffer) /\ writeQueue' \in Seq(Seq(Packets))
      BY <2>1, <2>2
    <2>4. buffer' \in Seq(Packets) /\ Len(buffer') = 1 /\ buffer'[1] = p
      BY <1>3, <2>1
    <2>5. Moved' = Moved + Len(buffer)
      BY <1>1, <1>2, <1>3, <2>4 DEF Moved
    <2>6. Whole => HoldsExactly(writeQueue', Len(wire), Moved')
      BY <2>3, <2>5, QueueBuffer, Zenon
    <2>7. \A i \in 1..Len(buffer') : buffer'[i] = Moved' + i
      BY <1>2, <1>4, <2>4, <2>5
    <2>8. QED
      BY <1>2, <2>3, <2>4, <2>5, <2>6, <2>7
  <1>11. CASE p \notin setting.big /\ Len(buffer) # BufferRoom
    <2>1. writeQueue' = writeQueue /\ buffer' = Append(buffer, p)
      BY <1>11 DEF UpdateDequeue, queueVars, p
    <2>2. writeQueue' \in Seq(Seq(Packets))
      BY <2>1 DEF TypeOK, QueuesTyped
    <2>3. /\ buffer' \in Seq(Packets) /\ Len(buffer') = Len(buffer) + 1
          /\ buffer'[Len(buffer) + 1] = p
          /\ \A i \in 1..Len(buffer) : buffer'[i] = buffer[i]
      BY <1>3, <2>1 DEF TypeOK, QueuesTyped
    <2>4. Moved' = Moved
      BY <1>1, <1>2, <1>3, <2>3 DEF Moved
    <2>5. ASSUME NEW i \in 1..Len(buffer') PROVE buffer'[i] = Moved' + i
      <3>1. CASE i \in 1..Len(buffer)
        BY <2>3, <2>4, <3>1 DEF StreamInv, EndOfStream
      <3>2. CASE i = Len(buffer) + 1
        BY <1>2, <1>4, <2>3, <2>4, <3>2
      <3>3. QED
        BY <1>2, <2>3, <3>1, <3>2
    <2>6. Whole => HoldsExactly(writeQueue', Len(wire), Moved')
      BY <2>1, <2>4, Zenon DEF StreamInv
    <2>7. QED
      BY <1>2, <2>2, <2>3, <2>4, <2>5, <2>6
  <1>12. QED
    BY <1>9, <1>10, <1>11
LEMMA UpdateEndStream ==
  ASSUME TypeOK, StreamInv, UpdateEnd
  PROVE  QueuesTyped' /\ StreamInv'
  <1>1. /\ buffer' = <<>>
        /\ UNCHANGED <<bufferQueue, sending, accepted, wire, failed>>
        /\ shutdown' = shutdown
    BY DEF UpdateEnd, sendVars, closeVars
  <1>2. /\ Len(accepted) \in Nat /\ Len(bufferQueue) \in Nat /\ Len(buffer) \in Nat
        /\ Len(wire) \in Nat /\ Moved \in Nat
    BY MovedType, Zenon
  <1>3. Len(buffer') = 0 /\ buffer' \in Seq(Packets)
    BY <1>1
  <1>4. Moved' = Moved + Len(buffer)
    BY <1>1, <1>2, <1>3 DEF Moved
  <1>5. /\ writeQueue' \in Seq(Seq(Packets))
        /\ Whole => HoldsExactly(writeQueue', Len(wire), Moved')
    <2>1. writeQueue \in Seq(Seq(Packets)) /\ buffer \in Seq(Packets)
      BY DEF TypeOK, QueuesTyped
    <2>2. CASE buffer = <<>>
      <3>1. writeQueue' = writeQueue \o <<>>
        BY <2>2 DEF UpdateEnd, QueuePackets
      <3>2. writeQueue' = writeQueue
        BY <2>1, <3>1
      <3>3. Moved' = Moved
        BY <1>2, <1>4, <2>2
      <3>4. QED
        BY <2>1, <3>2, <3>3, Zenon DEF StreamInv
    <2>3. CASE buffer # <<>>
      <3>1. writeQueue' = writeQueue \o <<buffer>>
        BY <2>3 DEF UpdateEnd, QueuePackets
      <3>2. writeQueue' = Append(writeQueue, buffer) /\ writeQueue' \in Seq(Seq(Packets))
        BY <2>1, <3>1
      <3>3. QED
        BY <1>4, <3>2, QueueBuffer, Zenon
    <2>4. QED
      BY <2>2, <2>3
  <1>6. QueuesTyped'
    BY <1>1, <1>3, <1>5 DEF TypeOK, QueuesTyped
  <1>7. AcceptedNumbered' /\ WireNumbered'
    BY <1>1, <1>2, <1>4 DEF StreamInv, AcceptedNumbered, WireNumbered
  <1>8. EndOfStream'
    BY <1>1, <1>2, <1>3, <1>4 DEF StreamInv, EndOfStream
  <1>9. Whole' => HoldsExactly(writeQueue', Len(wire'), Moved')
    <2>1. (Whole' <=> Whole) /\ Len(wire') = Len(wire)
      BY <1>1 DEF Whole
    <2>2. QED
      BY <1>5, <2>1, Zenon
  <1>10. QED
    BY <1>1, <1>6, <1>7, <1>8, <1>9 DEF StreamInv

(* Packets go out, in order: w, a piece of the front buffer.               *)
LEMMA WireGrows ==
  ASSUME TypeOK, StreamInv, Whole, writeQueue # <<>>,
         NEW m \in 0..Len(writeQueue[1]), wire' = wire \o SubSeq(writeQueue[1], 1, m),
         UNCHANGED <<bufferQueue, accepted, buffer>>
  PROVE  /\ wire' \in Seq(Packets) /\ Len(wire') = Len(wire) + m
         /\ Moved' = Moved /\ WireNumbered'
  <1> DEFINE h == writeQueue[1]
             w == SubSeq(h, 1, m)
  <1>1. h \in Seq(Packets)
    BY DEF TypeOK, QueuesTyped
  <1>2. Len(h) \in Nat
    BY <1>1
  <1>3. m \in Nat /\ m <= Len(h)
    BY <1>2
  <1>4. w \in Seq(Packets) /\ Len(w) = m /\ \A i \in 1..m : w[i] = h[i]
    BY <1>1, <1>2, <1>3, SubSeqProperties
  <1>5. Moved \in Nat /\ Len(wire) \in Nat /\ Len(wire) <= Moved
    BY MovedType DEF StreamInv, WireNumbered
  <1>6. wire \in Seq(Packets) /\ writeQueue \in Seq(Seq(Packets))
    BY DEF TypeOK, QueuesTyped
  <1>7. /\ \A i \in 1..Len(h) : h[i] = Len(wire) + i
        /\ Len(wire) + Len(h) <= Moved
    BY <1>5, <1>6, FrontIsNext, Zenon DEF StreamInv
  <1> HIDE DEF w, h
  <1>8. /\ wire' \in Seq(Packets) /\ Len(wire') = Len(wire) + m
        /\ \A i \in 1..(Len(wire) + m) :
              wire'[i] = IF i <= Len(wire) THEN wire[i] ELSE w[i - Len(wire)]
    BY <1>3, <1>4, <1>5, <1>6, ConcatProperties DEF w, h
  <1>9. Moved' = Moved
    BY DEF Moved
  <1>10. ASSUME NEW i \in 1..Len(wire') PROVE wire'[i] = i
    <2>1. CASE i <= Len(wire)
      <3>1. i \in 1..Len(wire)
        BY <1>3, <1>5, <1>8, <2>1
      <3>2. QED
        BY <1>3, <1>5, <1>8, <2>1, <3>1 DEF StreamInv, WireNumbered
    <2>2. CASE i > Len(wire)
      <3>1. i - Len(wire) \in 1..m /\ i - Len(wire) \in 1..Len(h)
            /\ Len(wire) + (i - Len(wire)) = i
        BY <1>2, <1>3, <1>5, <1>8, <2>2
      <3>2. wire'[i] = w[i - Len(wire)]
        BY <1>3, <1>5, <1>8, <2>2, SMTT(30)
      <3>3. w[i - Len(wire)] = h[i - Len(wire)] /\ h[i - Len(wire)] = Len(wire) + (i - Len(wire))
        BY <1>4, <1>7, <3>1, Zenon
      <3>4. QED
        BY <3>1, <3>2, <3>3, Zenon
    <2>3. QED
      BY <1>3, <1>5, <1>8, <2>1, <2>2
  <1>11. Len(wire') <= Moved'
    BY <1>2, <1>3, <1>5, <1>7, <1>8, <1>9
  <1>12. QED
    BY <1>8, <1>9, <1>10, <1>11 DEF WireNumbered

LEMMA PartialStream ==
  ASSUME TypeOK, StreamInv, HandlePartial
  PROVE  QueuesTyped' /\ StreamInv' /\ Len(writeQueue') = Len(writeQueue)
  <1>1. /\ UNCHANGED <<bufferQueue, sending, accepted, buffer, failed>> /\ shutdown' = shutdown
        /\ Whole /\ writeQueue # <<>> /\ net' = "idle" /\ net # "drain"
    BY DEF HandlePartial, Writable, Calling, Whole, sendVars, closeVars
  <1>2. writeQueue \in Seq(Seq(Packets)) /\ Head(writeQueue) = writeQueue[1]
        /\ writeQueue[1] \in Seq(Packets)
    BY <1>1 DEF TypeOK, QueuesTyped
  <1>3. PICK k \in 0..(Len(writeQueue[1]) - 1) :
          /\ wire' = wire \o SubSeq(writeQueue[1], 1, k)
          /\ writeQueue' = << SubSeq(writeQueue[1], k + 1, Len(writeQueue[1])) >>
                             \o Tail(writeQueue)
    BY <1>2, Zenon DEF HandlePartial
  <1>4. k \in 0..Len(writeQueue[1]) /\ Len(writeQueue[1]) \in Nat
    BY <1>2
  <1>5. /\ wire' \in Seq(Packets) /\ Len(wire') = Len(wire) + k
        /\ Moved' = Moved /\ WireNumbered'
    BY <1>1, <1>3, <1>4, WireGrows, Zenon
  <1>6. writeQueue' \in Seq(Seq(Packets)) /\ Len(writeQueue') = Len(writeQueue)
    <2>1. SubSeq(writeQueue[1], k + 1, Len(writeQueue[1])) \in Seq(Packets)
      BY <1>2, <1>4, SubSeqProperties
    <2>2. /\ Tail(writeQueue) \in Seq(Seq(Packets))
          /\ Len(Tail(writeQueue)) = Len(writeQueue) - 1
      BY <1>1, <1>2
    <2>3. ASSUME NEW b \in Seq(Packets), NEW q \in Seq(Seq(Packets))
          PROVE  << b >> \o q \in Seq(Seq(Packets)) /\ Len(<< b >> \o q) = Len(q) + 1
      OBVIOUS
    <2>4. /\ writeQueue' \in Seq(Seq(Packets))
          /\ Len(writeQueue') = Len(Tail(writeQueue)) + 1
      BY <1>3, <2>1, <2>2, <2>3, Zenon
    <2>5. Len(writeQueue) \in Nat
      BY <1>2
    <2>6. QED
      BY <2>2, <2>4, <2>5
  <1>7. HoldsExactly(writeQueue', Len(wire'), Moved')
    <2>1. Len(wire) \in Nat /\ Moved \in Nat /\ Len(wire) <= Moved
      BY MovedType DEF StreamInv, WireNumbered
    <2>2. HoldsExactly(writeQueue, Len(wire), Moved)
      BY <1>1 DEF StreamInv
    <2>3. QED
      BY <1>1, <1>2, <1>3, <1>5, <2>1, <2>2, ShortenFront, Zenon
  <1>8. QueuesTyped'
    BY <1>1, <1>5, <1>6 DEF TypeOK, QueuesTyped
  <1>9. AcceptedNumbered' /\ EndOfStream' /\ (net' # "drain" => buffer' = <<>>)
    BY <1>1, <1>5 DEF StreamInv, AcceptedNumbered, EndOfStream
  <1>10. QED
    BY <1>5, <1>6, <1>7, <1>8, <1>9 DEF StreamInv

LEMMA PopStream ==
  ASSUME TypeOK, StreamInv, HandleWritten \/ HandleFailed
  PROVE  QueuesTyped' /\ StreamInv'
  <1>1. /\ UNCHANGED <<bufferQueue, sending, accepted, buffer, failed>> /\ shutdown' = shutdown
        /\ writeQueue # <<>> /\ net' # "drain" /\ net # "drain"
        /\ writeQueue' = Tail(writeQueue)
    BY DEF HandleWritten, HandleFailed, Writable, Calling, Pop, sendVars, closeVars
  <1>2. /\ writeQueue \in Seq(Seq(Packets)) /\ Head(writeQueue) = writeQueue[1]
        /\ writeQueue[1] \in Seq(Packets) /\ writeQueue' \in Seq(Seq(Packets))
    BY <1>1 DEF TypeOK, QueuesTyped
  <1>3. /\ wire' \in Seq(Packets)
        /\ Moved' = Moved /\ WireNumbered'
        /\ Whole => Len(wire') = Len(wire) + Len(writeQueue[1])
    <2>1. Len(writeQueue[1]) \in Nat /\ wire \in Seq(Packets)
      BY <1>2 DEF TypeOK, QueuesTyped
    <2>2. CASE HandleWritten
      <3>1. Whole /\ wire' = wire \o writeQueue[1]
        BY <1>2, <2>2 DEF HandleWritten, Writable, Whole
      <3>2. SubSeq(writeQueue[1], 1, Len(writeQueue[1])) = writeQueue[1]
        BY <1>2, SubSeqFull
      <3>3. Len(writeQueue[1]) \in 0..Len(writeQueue[1])
        BY <2>1
      <3>4. QED
        BY <1>1, <3>1, <3>2, <3>3, WireGrows, Zenon
    <2>3. CASE HandleFailed
      <3>1. wire' = wire
        BY <2>3 DEF HandleFailed
      <3>2. Moved' = Moved
        BY <1>1 DEF Moved
      <3>3. WireNumbered'
        BY <3>1, <3>2 DEF StreamInv, WireNumbered
      <3>4. Whole => Len(writeQueue[1]) = 0
        BY <1>2, <2>3 DEF HandleFailed, Whole
      <3>5. QED
        BY <2>1, <3>1, <3>2, <3>3, <3>4
    <2>4. QED
      BY <2>2, <2>3
  <1>4. ASSUME Whole' PROVE HoldsExactly(writeQueue', Len(wire'), Moved')
    <2>1. Len(wire) \in Nat /\ Moved \in Nat /\ Len(wire) <= Moved
      BY MovedType DEF StreamInv, WireNumbered
    <2>2. Whole
      BY <1>1, <1>4 DEF Whole
    <2>3. HoldsExactly(writeQueue, Len(wire), Moved)
      BY <2>2 DEF StreamInv
    <2>4. HoldsExactly(Tail(writeQueue), Len(wire) + Len(writeQueue[1]), Moved)
      BY <1>1, <1>2, <2>1, <2>3, PopFront, Zenon
    <2>5. QED
      BY <1>1, <1>3, <2>2, <2>4, Zenon
  <1>5. QueuesTyped'
    BY <1>1, <1>2, <1>3 DEF TypeOK, QueuesTyped
  <1>6. AcceptedNumbered' /\ EndOfStream' /\ (net' # "drain" => buffer' = <<>>)
    BY <1>1, <1>3 DEF StreamInv, AcceptedNumbered, EndOfStream
  <1>7. QED
    BY <1>3, <1>4, <1>5, <1>6 DEF StreamInv
-----------------------------------------------------------------------------
(* The invariant, step by step.                                            *)
LEMMA QuietEnds ==
  ASSUME EndsTyped, CloseInv, UNCHANGED endState, UNCHANGED closeState
  PROVE  EndsTyped' /\ CloseInv'
  <1>1. EndsTyped'
    BY DEF EndsTyped, endState, closeState
  <1>2. QueueEnds'
    BY DEF CloseInv, QueueEnds, endState
  <1>3. popped <= popped' /\ seenPushed <= seenPushed'
    BY DEF EndsTyped, endState
  <1>4. QED
    BY <1>1, <1>2, <1>3, EndsGrow

LEMMA SendInv ==
  ASSUME SocketInv, NEW s \in Senders, SendCheck(s) \/ SendEnqueue(s)
  PROVE  SocketInv'
  <1>1. TypeOK' /\ StreamInv'
    BY SendStream DEF SocketInv
  <1>2. UNCHANGED endState /\ UNCHANGED closeState
    BY DEF SendCheck, SendEnqueue, endState, closeState, queueVars, seenVars, closeVars,
           closerVars
  <1>3. QED
    BY <1>1, <1>2, QuietEnds DEF SocketInv, TypeOK

LEMMA QuietInv ==
  ASSUME SocketInv, UpdateBegin \/ HandleEmpty \/ WriteReady \/ PeerGone
  PROVE  SocketInv'
  <1>1. /\ UNCHANGED endState /\ UNCHANGED closeState
        /\ UNCHANGED <<sending, held, closed, shutdown, forceExit, setting>>
    BY DEF UpdateBegin, HandleEmpty, WriteReady, PeerGone, endState, closeState, sendVars,
           queueVars, seenVars, closeVars, closerVars
  <1>2. FlagsTyped'
    <2>1. net' \in NetPC /\ writing' \in BOOLEAN /\ failed' \in BOOLEAN
      BY DEF SocketInv, TypeOK, FlagsTyped, NetPC, UpdateBegin, HandleEmpty, WriteReady, PeerGone
    <2>2. QED
      BY <1>1, <2>1 DEF SocketInv, TypeOK, FlagsTyped, closeState
  <1>3. EndsTyped' /\ CloseInv'
    BY <1>1, QuietEnds DEF SocketInv, TypeOK
  <1>4. QueuesTyped' /\ StreamInv'
    <2>1. net = "idle" => buffer = <<>>
      BY DEF SocketInv, StreamInv
    <2>2. UNCHANGED stream
      BY <2>1 DEF UpdateBegin, HandleEmpty, WriteReady, PeerGone, stream, sendVars, queueVars
    <2>3. Whole' => Whole
      BY <1>1 DEF Whole, UpdateBegin, HandleEmpty, WriteReady, PeerGone
    <2>4. /\ net' = "drain" => net = "drain" \/ buffer = <<>>
          /\ net' # "drain" => net # "drain"
      BY <2>1 DEF UpdateBegin, HandleEmpty, WriteReady, PeerGone, Calling
    <2>5. QED
      BY <1>1, <2>2, <2>3, <2>4, QuietStream DEF SocketInv
  <1>5. QED
    BY <1>2, <1>3, <1>4 DEF SocketInv, TypeOK

LEMMA PublishInv ==
  ASSUME SocketInv, Publish
  PROVE  SocketInv'
  <1>1. /\ UNCHANGED closeState
        /\ UNCHANGED <<sending, writing, net, held, closed, shutdown, failed, forceExit, setting>>
        /\ UNCHANGED <<writeQueue, pushed, popped>>
        /\ seenPushed' = pushed /\ seenPopped' = popped
    BY DEF Publish, closeState, sendVars, queueVars, closeVars, closerVars
  <1>2. FlagsTyped'
    BY <1>1 DEF SocketInv, TypeOK, FlagsTyped, closeState
  <1>3. EndsTyped' /\ seenPushed <= seenPushed' /\ popped <= popped'
    BY <1>1 DEF SocketInv, TypeOK, EndsTyped, closeState
  <1>4. QueueEnds'
    BY <1>1 DEF SocketInv, CloseInv, QueueEnds
  <1>5. CloseInv'
    BY <1>1, <1>3, <1>4, EndsGrow DEF SocketInv, TypeOK
  <1>6. QueuesTyped' /\ StreamInv'
    <2>1. UNCHANGED stream
      BY DEF Publish, stream, sendVars, queueVars
    <2>2. Whole' => Whole
      BY <1>1 DEF Whole
    <2>3. QED
      BY <1>1, <2>1, <2>2, QuietStream DEF SocketInv
  <1>7. QED
    BY <1>2, <1>3, <1>5, <1>6 DEF SocketInv, TypeOK

LEMMA DequeueInv ==
  ASSUME SocketInv, UpdateDequeue
  PROVE  SocketInv'
  <1> DEFINE p == Head(bufferQueue)
  <1>1. QueuesTyped' /\ StreamInv'
    BY DequeueStream DEF SocketInv
  <1>2. /\ UNCHANGED closeState /\ Visible
        /\ UNCHANGED <<sending, writing, net, held, closed, shutdown, failed, forceExit>>
        /\ p \in Packets
    BY DEF UpdateDequeue, closeState, closeVars, closerVars, SocketInv, TypeOK, QueuesTyped
  <1>3. buffer \in Seq(Packets) /\ <<p>> \in Seq(Packets)
    BY <1>2 DEF SocketInv, TypeOK, QueuesTyped
  <1> HIDE DEF p
  <1>4. EndsTyped' /\ CloseInv'
    <2>1. CASE p \in setting.big
      <3>1. QueuePackets(<<buffer, <<p>> >>)
        BY <2>1 DEF UpdateDequeue, p
      <3>2. <<buffer, <<p>> >> \in Seq(Seq(Packets))
        BY <1>3
      <3>3. QED
        BY <1>2, <3>1, <3>2, PushEnds DEF SocketInv
    <2>2. CASE p \notin setting.big /\ Len(buffer) = BufferRoom
      <3>1. QueuePackets(<<buffer>>)
        BY <2>2 DEF UpdateDequeue, p
      <3>2. <<buffer>> \in Seq(Seq(Packets))
        BY <1>3
      <3>3. QED
        BY <1>2, <3>1, <3>2, PushEnds DEF SocketInv
    <2>3. CASE p \notin setting.big /\ Len(buffer) # BufferRoom
      <3>1. UNCHANGED <<writeQueue, pushed, popped>>
        BY <2>3 DEF UpdateDequeue, queueVars, p
      <3>2. pushed' \in Nat /\ popped' \in 0..pushed' /\ pushed <= pushed' /\ popped <= popped'
        BY <3>1 DEF SocketInv, TypeOK, EndsTyped
      <3>3. EndsTyped' /\ seenPushed <= seenPushed'
        BY <1>2, <3>2, VisibleEnds DEF SocketInv, TypeOK, closeState
      <3>4. QueueEnds'
        BY <3>1 DEF SocketInv, CloseInv, QueueEnds
      <3>5. QED
        BY <1>2, <3>2, <3>3, <3>4, EndsGrow DEF SocketInv, TypeOK
    <2>4. QED
      BY <2>1, <2>2, <2>3
  <1>5. FlagsTyped'
    BY <1>2 DEF SocketInv, TypeOK, FlagsTyped, closeState, Visible
  <1>6. QED
    BY <1>1, <1>4, <1>5 DEF SocketInv, TypeOK

LEMMA UpdateEndInv ==
  ASSUME SocketInv, UpdateEnd
  PROVE  SocketInv'
  <1>1. QueuesTyped' /\ StreamInv'
    BY UpdateEndStream DEF SocketInv
  <1>2. /\ UNCHANGED closeState /\ Visible
        /\ UNCHANGED <<sending, writing, closed, shutdown, failed, forceExit>>
        /\ held' \in BOOLEAN /\ net' \in {"idle", "write"}
    BY DEF UpdateEnd, sendVars, closeState, closeVars, closerVars, SocketInv, TypeOK, FlagsTyped
  <1>3. EndsTyped' /\ CloseInv'
    <2>1. buffer \in Seq(Packets)
      BY DEF SocketInv, TypeOK, QueuesTyped
    <2>2. (IF buffer = <<>> THEN <<>> ELSE <<buffer>>) \in Seq(Seq(Packets))
      BY <2>1
    <2>3. QueuePackets(IF buffer = <<>> THEN <<>> ELSE <<buffer>>)
      BY DEF UpdateEnd
    <2>4. QED
      BY <1>2, <2>2, <2>3, PushEnds DEF SocketInv
  <1>4. FlagsTyped'
    BY <1>2 DEF SocketInv, TypeOK, FlagsTyped, NetPC, closeState, Visible
  <1>5. QED
    BY <1>1, <1>3, <1>4 DEF SocketInv, TypeOK

LEMMA PartialInv ==
  ASSUME SocketInv, HandlePartial
  PROVE  SocketInv'
  <1>1. QueuesTyped' /\ StreamInv' /\ Len(writeQueue') = Len(writeQueue)
    BY PartialStream DEF SocketInv
  <1>2. /\ UNCHANGED closeState
        /\ UNCHANGED <<sending, held, closed, shutdown, failed, forceExit, setting>>
        /\ UNCHANGED <<pushed, popped, seenPushed, seenPopped>>
        /\ writing' = TRUE /\ net' = "idle"
    BY DEF HandlePartial, sendVars, closeState, closeVars, closerVars, seenVars
  <1>3. EndsTyped' /\ popped <= popped' /\ seenPushed <= seenPushed'
    BY <1>2 DEF SocketInv, TypeOK, EndsTyped, closeState
  <1>4. QueueEnds'
    BY <1>1, <1>2 DEF SocketInv, CloseInv, QueueEnds
  <1>5. CloseInv'
    BY <1>2, <1>3, <1>4, EndsGrow DEF SocketInv, TypeOK
  <1>6. FlagsTyped'
    BY <1>2 DEF SocketInv, TypeOK, FlagsTyped, NetPC, closeState
  <1>7. QED
    BY <1>1, <1>3, <1>5, <1>6 DEF SocketInv, TypeOK

LEMMA PopInv ==
  ASSUME SocketInv, HandleWritten \/ HandleFailed
  PROVE  SocketInv'
  <1>1. QueuesTyped' /\ StreamInv'
    BY PopStream DEF SocketInv
  <1>2. /\ UNCHANGED closeState /\ Pop /\ Visible /\ writeQueue # <<>>
        /\ UNCHANGED <<sending, writing, held, closed, shutdown, failed, forceExit>>
        /\ net' \in {"popped", "poppedLast"}
    BY DEF HandleWritten, HandleFailed, Writable, Pop, sendVars, closeState, closeVars,
           closerVars
  <1>3. EndsTyped' /\ CloseInv'
    BY <1>2, PopEnds DEF SocketInv
  <1>4. FlagsTyped'
    BY <1>2 DEF SocketInv, TypeOK, FlagsTyped, NetPC, closeState, Visible
  <1>5. QED
    BY <1>1, <1>3, <1>4 DEF SocketInv, TypeOK

(* The network thread closes, or marks for closing, with its exact view.   *)
LEMMA NetCloseInv ==
  ASSUME SocketInv, HandleClosing \/ ReadError \/ NetDelayedClose
  PROVE  SocketInv'
  <1>1. /\ UNCHANGED endState /\ UNCHANGED stream /\ UNCHANGED <<closer, firstEnd>>
        /\ UNCHANGED <<sending, writing, held, failed, setting>>
        /\ net # "drain" /\ net' \in {"idle", "write"}
    BY DEF HandleClosing, ReadError, NetDelayedClose, endState, stream, sendVars, queueVars,
           seenVars, closerVars
  <1>2. /\ closed' \in BOOLEAN /\ shutdown' \in BOOLEAN /\ forceExit' \in BOOLEAN
        /\ closedBy' \in {"nobody", "delay", "other"}
        /\ shutdown => shutdown'
    BY DEF HandleClosing, ReadError, NetDelayedClose, CloseSocketNow, SocketInv, TypeOK,
           FlagsTyped
  <1>3. closing' \in BOOLEAN /\ (closing => closing')
    BY DEF HandleClosing, ReadError, NetDelayedClose, SetClosing, SocketInv, TypeOK, FlagsTyped
  <1>4. \/ promise' = promise
        \/ /\ ~closing /\ closing' /\ promise'.seen = seenPushed
           /\ promise' \in [packets : Nat, pushed : Nat, seen : Nat]
    <2>1. Len(accepted) \in Nat /\ seenPushed \in Nat /\ pushed \in Nat
      BY MovedType DEF SocketInv, TypeOK, EndsTyped
    <2>2. CASE NetDelayedClose
      <3>1. ~closing /\ closing' = TRUE
            /\ promise' = [packets |-> Len(accepted), pushed |-> pushed, seen |-> seenPushed]
        BY <2>2 DEF NetDelayedClose, SetClosing
      <3>2. QED
        BY <2>1, <3>1
    <2>3. CASE HandleClosing \/ ReadError
      BY <2>3 DEF HandleClosing, ReadError
    <2>4. QED
      BY <2>2, <2>3
  <1>5. closing' /\ ~closing => promise'.seen = seenPushed
    <2>1. CASE NetDelayedClose
      <3>1. promise' = [packets |-> Len(accepted), pushed |-> pushed, seen |-> seenPushed]
        BY <2>1 DEF NetDelayedClose, SetClosing
      <3>2. QED
        BY <3>1
    <2>2. CASE HandleClosing \/ ReadError
      BY <2>2 DEF HandleClosing, ReadError
    <2>3. QED
      BY <2>1, <2>2
  <1>6. QueuesTyped' /\ StreamInv'
    <2>1. Whole' => Whole
      BY <1>1, <1>2 DEF Whole
    <2>2. QED
      BY <1>1, <2>1, QuietStream DEF SocketInv
  <1>7. FlagsTyped'
    BY <1>1, <1>2, <1>3 DEF SocketInv, TypeOK, FlagsTyped, NetPC
  <1>8. EndsTyped'
    BY <1>1, <1>4 DEF SocketInv, TypeOK, EndsTyped, endState
  <1>9. QueueEnds' /\ CloserMarked'
    BY <1>1, <1>3 DEF SocketInv, CloseInv, QueueEnds, CloserMarked, endState
  <1>10. PromiseSeen' /\ FirstLoad' /\ SeenEmpty'
    <2>1. CASE promise' = promise
      <3>1. closing' /\ ~closing => promise.seen <= seenPushed
        BY <1>5, <2>1 DEF SocketInv, TypeOK, EndsTyped
      <3>2. QED
        BY <1>1, <1>3, <2>1, <3>1 DEF SocketInv, CloseInv, PromiseSeen, FirstLoad, SeenEmpty,
                                     endState
    <2>2. CASE ~closing /\ promise'.seen = seenPushed
      <3>1. PromiseSeen'
        BY <1>1, <2>2 DEF PromiseSeen, SocketInv, TypeOK, EndsTyped, endState
      <3>2. closer \notin {"first", "second", "closeEmpty"}
        BY <2>2 DEF SocketInv, CloseInv, CloserMarked
      <3>3. QED
        BY <1>1, <3>1, <3>2 DEF FirstLoad, SeenEmpty
    <2>3. QED
      BY <1>4, <2>1, <2>2
  <1>11. ClosedFlushed'
    <2>1. SUFFICES ASSUME closedBy' = "delay" PROVE closing' /\ promise'.seen <= popped
      BY <1>1 DEF ClosedFlushed, endState
    <2>2. CASE closedBy = "delay"
      <3>1. closing /\ promise.seen <= popped
        BY <2>2 DEF SocketInv, CloseInv, ClosedFlushed
      <3>2. QED
        BY <1>3, <1>4, <3>1
    <2>3. CASE closedBy # "delay"
      <3>1. closing' /\ writeQueue = <<>>
        BY <2>1, <2>3 DEF HandleClosing, ReadError, NetDelayedClose, CloseSocketNow, SetClosing
      <3>2. pushed = popped /\ pushed \in Nat /\ seenPushed \in 0..pushed
        BY <3>1 DEF SocketInv, TypeOK, EndsTyped, CloseInv, QueueEnds
      <3>3. promise'.seen <= seenPushed
        BY <1>1, <1>10, <3>1 DEF PromiseSeen, endState
      <3>4. promise'.seen \in Nat
        BY <1>8 DEF EndsTyped
      <3>5. QED
        BY <3>1, <3>2, <3>3, <3>4
    <2>4. QED
      BY <2>2, <2>3
  <1>12. QED
    BY <1>6, <1>7, <1>8, <1>9, <1>10, <1>11 DEF SocketInv, TypeOK, CloseInv

LEMMA CloserInv ==
  ASSUME SocketInv, CloserNext
  PROVE  SocketInv'
  <1>1. CloseInv' /\ EndsTyped' /\ FlagsTyped'
    BY CloserCloseInv DEF SocketInv
  <1>2. UNCHANGED stream /\ UNCHANGED <<sending, net, failed>>
    BY DEF CloserNext, DelayedClose, EmptyFirstLoad, EmptySecondLoad, Kick, CloseExchange,
           CloseShutdown, stream, sendVars, queueVars
  <1>3. shutdown => shutdown'
    BY DEF CloserNext, DelayedClose, EmptyFirstLoad, EmptySecondLoad, Kick, CloseExchange,
           CloseShutdown, closeVars
  <1>4. Whole' => Whole
    BY <1>2, <1>3 DEF Whole
  <1>5. QueuesTyped' /\ StreamInv'
    BY <1>2, <1>4, QuietStream DEF SocketInv
  <1>6. QED
    BY <1>1, <1>5 DEF SocketInv, TypeOK
LEMMA InitInv == Init => SocketInv
  <1> SUFFICES ASSUME Init PROVE SocketInv
    OBVIOUS
  <1>1. TypeOK
    BY InitType
  <1>2. /\ Len(accepted) = 0 /\ Len(bufferQueue) = 0 /\ Len(buffer) = 0 /\ Len(wire) = 0
        /\ Len(writeQueue) = 0
    BY DEF Init
  <1>3. Moved = 0
    BY <1>2 DEF Moved
  <1>4. AcceptedNumbered
    BY Bounds, <1>2, FS_EmptySet DEF Init, AcceptedNumbered
  <1>5. WireNumbered /\ EndOfStream
    BY <1>2, <1>3 DEF WireNumbered, EndOfStream
  <1>6. HoldsExactly(writeQueue, Len(wire), Moved)
    BY <1>2, <1>3 DEF HoldsExactly, Runs, InOrder, Covers
  <1>7. StreamInv
    BY <1>4, <1>5, <1>6 DEF Init, StreamInv
  <1>8. CloseInv
    BY <1>2 DEF Init, CloseInv, QueueEnds, PromiseSeen, CloserMarked, FirstLoad, SeenEmpty,
                ClosedFlushed
  <1>9. QED
    BY <1>1, <1>7, <1>8 DEF SocketInv

LEMMA NextInv == SocketInv /\ [Next]_vars => SocketInv'
  <1> SUFFICES ASSUME SocketInv, [Next]_vars PROVE SocketInv'
    OBVIOUS
  <1>1. CASE \E s \in Senders : SendCheck(s) \/ SendEnqueue(s)
    BY <1>1, SendInv
  <1>2. CASE UpdateBegin \/ HandleEmpty \/ WriteReady \/ PeerGone
    BY <1>2, QuietInv
  <1>3. CASE Publish
    BY <1>3, PublishInv
  <1>4. CASE UpdateDequeue \/ UpdateEnd
    BY <1>4, DequeueInv, UpdateEndInv
  <1>5. CASE HandlePartial \/ HandleWritten \/ HandleFailed
    BY <1>5, PartialInv, PopInv
  <1>6. CASE HandleClosing \/ ReadError \/ NetDelayedClose
    BY <1>6, NetCloseInv
  <1>7. CASE CloserNext
    BY <1>7, CloserInv
  <1>8. CASE UNCHANGED vars
    <2>1. UNCHANGED endState /\ UNCHANGED closeState /\ UNCHANGED stream
          /\ UNCHANGED <<sending, writing, net, held, closed, shutdown, failed, forceExit, setting>>
      BY <1>8 DEF vars, endState, closeState, stream, sendVars, queueVars, seenVars, closeVars,
                  closerVars
    <2>2. FlagsTyped'
      BY <2>1 DEF SocketInv, TypeOK, FlagsTyped, closeState
    <2>3. EndsTyped' /\ CloseInv'
      BY <2>1, QuietEnds DEF SocketInv, TypeOK
    <2>4. Whole' => Whole
      BY <2>1 DEF Whole
    <2>5. QueuesTyped' /\ StreamInv'
      BY <2>1, <2>4, QuietStream DEF SocketInv
    <2>6. QED
      BY <2>2, <2>3, <2>5 DEF SocketInv, TypeOK
  <1>9. QED
    BY <1>1, <1>2, <1>3, <1>4, <1>5, <1>6, <1>7, <1>8 DEF Next, NetworkNext

(* The invariant all the properties below follow from.                     *)
THEOREM SocketInvariant == Spec => []SocketInv
  <1>1. Init => SocketInv
    BY InitInv
  <1>2. SocketInv /\ [Next]_vars => SocketInv'
    BY NextInv
  <1>3. QED
    BY <1>1, <1>2, PTL DEF Spec

-----------------------------------------------------------------------------
(* Where the stages are in Stages.                                         *)
LEMMA StagesIndex ==
  ASSUME TypeOK
  PROVE  /\ Len(Stages) = Len(writeQueue) + 3
         /\ Stages[1] = wire
         /\ \A k \in 1..Len(writeQueue) : Stages[k + 1] = writeQueue[k]
         /\ Stages[Len(writeQueue) + 2] = buffer
         /\ Stages[Len(writeQueue) + 3] = bufferQueue
  <1> DEFINE n == Len(writeQueue)
             a == <<wire>> \o writeQueue
             z == <<buffer, bufferQueue>>
  <1>1. /\ writeQueue \in Seq(Seq(Packets)) /\ <<wire>> \in Seq(Seq(Packets))
        /\ z \in Seq(Seq(Packets)) /\ n \in Nat
    BY DEF TypeOK, QueuesTyped
  <1>2. /\ Len(<<wire>>) = 1 /\ <<wire>>[1] = wire
        /\ Len(z) = 2 /\ z[1] = buffer /\ z[2] = bufferQueue
    OBVIOUS
  <1>3. /\ a \in Seq(Seq(Packets)) /\ Len(a) = n + 1 /\ a[1] = wire
        /\ \A k \in 1..n : a[k + 1] = writeQueue[k]
    BY <1>1, <1>2, ConcatProperties
  <1> HIDE DEF a, z, n
  <1>4. /\ Len(a \o z) = n + 3
        /\ \A k \in 1..(n + 1) : (a \o z)[k] = a[k]
        /\ (a \o z)[n + 2] = z[1] /\ (a \o z)[n + 3] = z[2]
    <2>1. /\ Len(a \o z) = Len(a) + Len(z)
          /\ \A k \in 1..(Len(a) + Len(z)) :
                (a \o z)[k] = IF k <= Len(a) THEN a[k] ELSE z[k - Len(a)]
      BY <1>1, <1>3, ConcatProperties, Zenon
    <2>2. Len(a \o z) = n + 3
      BY <1>1, <1>2, <1>3, <2>1
    <2>3. ASSUME NEW k \in 1..(n + 1) PROVE (a \o z)[k] = a[k]
      <3>1. k \in 1..(Len(a) + Len(z)) /\ k <= Len(a)
        BY <1>1, <1>2, <1>3
      <3>2. QED
        BY <2>1, <3>1, Zenon
    <2>4. ASSUME NEW k \in 1..2 PROVE (a \o z)[n + 1 + k] = z[k]
      <3>1. /\ n + 1 + k \in 1..(Len(a) + Len(z)) /\ ~(n + 1 + k <= Len(a))
            /\ n + 1 + k - Len(a) = k
        BY <1>1, <1>2, <1>3
      <3>2. \A j \in 1..(Len(a) + Len(z)) :
              ~(j <= Len(a)) => (a \o z)[j] = z[j - Len(a)]
        BY <2>1
      <3>3. \A j \in 1..(Len(a) + Len(z)) :
              j = n + 1 + k => ~(j <= Len(a)) /\ j - Len(a) = k
        BY <1>1, <1>2, <1>3
      <3>4. \A j \in 1..(Len(a) + Len(z)) : j = n + 1 + k => (a \o z)[j] = z[k]
        BY <3>2, <3>3, Zenon
      <3>5. QED
        BY <3>1, <3>4, Zenon
    <2>5. (a \o z)[n + 2] = z[1] /\ (a \o z)[n + 3] = z[2]
      <3>1. n + 1 + 1 = n + 2 /\ n + 1 + 2 = n + 3
        BY <1>1
      <3>2. 1 \in 1..2 /\ 2 \in 1..2
        OBVIOUS
      <3>3. QED
        BY <2>4, <3>1, <3>2
    <2>6. QED
      BY <2>2, <2>3, <2>5
  <1>5. Stages = a \o z
    BY DEF Stages, a, z
  <1>6. \A k \in 1..n : k + 1 \in 1..(n + 1)
    BY <1>1
  <1>7. 1 \in 1..(n + 1)
    BY <1>1
  <1>8. QED
    BY <1>2, <1>3, <1>4, <1>5, <1>6, <1>7, Zenon DEF n
LEMMA StageKinds ==
  ASSUME TypeOK, NEW k \in 1..Len(Stages)
  PROVE  \/ k = 1 /\ Stages[k] = wire
         \/ \E j \in 1..Len(writeQueue) : k = j + 1 /\ Stages[k] = writeQueue[j]
         \/ k = Len(writeQueue) + 2 /\ Stages[k] = buffer
         \/ k = Len(writeQueue) + 3 /\ Stages[k] = bufferQueue
  <1>1. Len(writeQueue) \in Nat
    BY MovedType
  <1>2. Len(Stages) = Len(writeQueue) + 3
    BY StagesIndex
  <1>3. CASE k \in 2..(Len(writeQueue) + 1)
    <2>1. k - 1 \in 1..Len(writeQueue) /\ k = (k - 1) + 1
      BY <1>1, <1>3
    <2>2. Stages[k] = writeQueue[k - 1]
      BY <2>1, StagesIndex
    <2>3. QED
      BY <2>1, <2>2
  <1>4. CASE k = 1 \/ k = Len(writeQueue) + 2 \/ k = Len(writeQueue) + 3
    BY <1>4, StagesIndex, Zenon
  <1>5. QED
    BY <1>1, <1>2, <1>3, <1>4

LEMMA StageType ==
  ASSUME TypeOK, NEW k \in 1..Len(Stages)
  PROVE  Stages[k] \in Seq(Packets)
  <1>1. /\ wire \in Seq(Packets) /\ buffer \in Seq(Packets) /\ bufferQueue \in Seq(Packets)
        /\ \A j \in 1..Len(writeQueue) : writeQueue[j] \in Seq(Packets)
    BY DEF TypeOK, QueuesTyped
  <1>2. QED
    BY <1>1, StageKinds, Zenon

LEMMA Intact == SocketInv => StreamIntact
  <1> SUFFICES ASSUME SocketInv PROVE StreamIntact
    OBVIOUS
  <1> DEFINE n == Len(writeQueue)
  <1>1. TypeOK
    BY DEF SocketInv
  <1>2. /\ Len(accepted) \in Nat /\ Len(bufferQueue) \in Nat /\ Len(buffer) \in Nat
        /\ Len(wire) \in Nat /\ n \in Nat /\ Moved \in Nat /\ Len(wire) <= Moved
    BY MovedType DEF SocketInv, StreamInv, WireNumbered
  <1>3. Len(accepted) = Moved + Len(buffer) + Len(bufferQueue)
    BY <1>2 DEF Moved
  <1>4. /\ \A i \in 1..Len(accepted) : accepted[i] = i
        /\ \A i \in 1..Len(wire) : wire[i] = i
        /\ \A i \in 1..Len(buffer) : buffer[i] = Moved + i
        /\ \A i \in 1..Len(bufferQueue) : bufferQueue[i] = Moved + Len(buffer) + i
    BY DEF SocketInv, StreamInv, AcceptedNumbered, WireNumbered, EndOfStream
  <1>5. IsPrefix(wire, accepted)
    <2>1. wire \in Seq(Packets) /\ accepted \in Seq(Packets)
      BY <1>1 DEF TypeOK, QueuesTyped
    <2>2. Len(wire) <= Len(accepted)
      BY <1>2, <1>3
    <2>3. \A i \in 1..Len(wire) : i \in 1..Len(accepted) /\ wire[i] = accepted[i]
      BY <1>2, <1>4, <2>2
    <2>4. SubSeq(wire, 1, Len(wire)) = SubSeq(accepted, 1, Len(wire))
      BY <1>2, <2>1, <2>2, <2>3
    <2>5. QED
      BY <2>2, <2>4 DEF IsPrefix
  <1>6. ASSUME Whole
        PROVE  /\ \A k \in 1..Len(Stages) : Ascending(Stages[k])
               /\ \A k, l \in 1..Len(Stages) : k < l => Precedes(Stages[k], Stages[l])
               /\ UNION {ToSet(Stages[k]) : k \in 1..Len(Stages)} = ToSet(accepted)
    <2>1. /\ Runs(writeQueue, Len(wire), Moved) /\ InOrder(writeQueue)
          /\ Covers(writeQueue, Len(wire), Moved)
      BY <1>6 DEF SocketInv, StreamInv, HoldsExactly
    <2>2. \A j \in 1..n : Len(writeQueue[j]) \in Nat
      BY <1>1, BufferType DEF TypeOK, QueuesTyped
    <2>3. \A j \in 1..n : \A i \in 1..Len(writeQueue[j]) :
            /\ writeQueue[j][i] \in (Len(wire) + 1)..Moved
            /\ writeQueue[j][i] = writeQueue[j][1] + i - 1
      BY <2>1 DEF Runs
    <2>4. \A k \in 1..Len(Stages) : Ascending(Stages[k])
      <3>1. Ascending(wire)
        BY <1>2, <1>4, SMTT(30) DEF Ascending
      <3>2. Ascending(buffer) /\ Ascending(bufferQueue)
        BY <1>2, <1>4 DEF Ascending
      <3>3. ASSUME NEW j \in 1..n PROVE Ascending(writeQueue[j])
        <4>1. SUFFICES ASSUME NEW i \in 1..Len(writeQueue[j]), NEW m \in 1..Len(writeQueue[j]),
                              i < m
                       PROVE  writeQueue[j][i] < writeQueue[j][m]
          BY DEF Ascending
        <4>2. 1 \in 1..Len(writeQueue[j])
          BY <2>2
        <4>3. writeQueue[j][1] \in Nat
          BY <1>2, <2>3, <4>2, SMTT(30)
        <4>4. writeQueue[j][i] = writeQueue[j][1] + i - 1
              /\ writeQueue[j][m] = writeQueue[j][1] + m - 1
          BY <2>3, Zenon
        <4>5. QED
          BY <2>2, <4>1, <4>3, <4>4
      <3>4. QED
        BY <1>1, <3>1, <3>2, <3>3, StageKinds, Zenon
    <2>5. \A k, l \in 1..Len(Stages) : k < l => Precedes(Stages[k], Stages[l])
      <3>1. Precedes(wire, buffer) /\ Precedes(wire, bufferQueue) /\ Precedes(buffer, bufferQueue)
        BY <1>2, <1>4, SMTT(30) DEF Precedes
      <3>2. ASSUME NEW j \in 1..n
            PROVE  /\ Precedes(wire, writeQueue[j]) /\ Precedes(writeQueue[j], buffer)
                   /\ Precedes(writeQueue[j], bufferQueue)
        <4>1. \A i \in 1..Len(writeQueue[j]) : writeQueue[j][i] \in (Len(wire) + 1)..Moved
          BY <2>3, Zenon
        <4>2. \A i \in 1..Len(wire), m \in 1..Len(writeQueue[j]) : wire[i] < writeQueue[j][m]
          <5>1. \A i \in 1..Len(wire) : \A x \in (Len(wire) + 1)..Moved : wire[i] < x
            BY <1>2, <1>4
          <5>2. QED
            BY <4>1, <5>1, Zenon
        <4>3. \A i \in 1..Len(writeQueue[j]), m \in 1..Len(buffer) : writeQueue[j][i] < buffer[m]
          <5>1. \A m \in 1..Len(buffer) : \A x \in (Len(wire) + 1)..Moved : x < buffer[m]
            BY <1>2, <1>4
          <5>2. QED
            BY <4>1, <5>1, Zenon
        <4>4. \A i \in 1..Len(writeQueue[j]), m \in 1..Len(bufferQueue) :
                writeQueue[j][i] < bufferQueue[m]
          <5>1. \A m \in 1..Len(bufferQueue) : \A x \in (Len(wire) + 1)..Moved :
                  x < bufferQueue[m]
            BY <1>2, <1>4
          <5>2. QED
            BY <4>1, <5>1, Zenon
        <4>5. QED
          BY <4>2, <4>3, <4>4, Zenon DEF Precedes
      <3>3. SUFFICES ASSUME NEW k \in 1..Len(Stages), NEW l \in 1..Len(Stages), k < l
                     PROVE  Precedes(Stages[k], Stages[l])
        BY Zenon
      <3>4. /\ Stages[1] = wire /\ Stages[n + 2] = buffer /\ Stages[n + 3] = bufferQueue
            /\ \A j \in 1..n : Stages[j + 1] = writeQueue[j]
            /\ Len(Stages) = n + 3
        BY <1>1, StagesIndex
      <3> HIDE DEF n
      <3>5. CASE k = 1
        <4>1. l = n + 2 \/ l = n + 3 \/ (l - 1 \in 1..n /\ l = (l - 1) + 1)
          BY <1>2, <3>3, <3>4, <3>5
        <4>2. CASE l - 1 \in 1..n /\ l = (l - 1) + 1
          <5>1. Stages[l] = writeQueue[l - 1]
            BY <3>4, <4>2, Zenon
          <5>2. QED
            BY <3>2, <3>4, <3>5, <4>2, <5>1, Zenon
        <4>3. QED
          BY <3>1, <3>4, <3>5, <4>1, <4>2, Zenon
      <3>6. CASE k \in 2..(n + 1)
        <4>1. /\ l = n + 2 \/ l = n + 3 \/ (l - 1 \in 1..n /\ l = (l - 1) + 1)
              /\ k - 1 \in 1..n /\ k = (k - 1) + 1 /\ k - 1 < l - 1
          BY <1>2, <3>3, <3>4, <3>6
        <4>2. Stages[k] = writeQueue[k - 1]
          BY <3>4, <4>1, Zenon
        <4>3. CASE l - 1 \in 1..n /\ l = (l - 1) + 1
          <5>1. Stages[l] = writeQueue[l - 1]
            BY <3>4, <4>3, Zenon
          <5>2. QED
            BY <2>1, <4>1, <4>2, <4>3, <5>1, Zenon DEF InOrder, n
        <4>4. QED
          BY <3>2, <3>4, <4>1, <4>2, <4>3, Zenon
      <3>7. CASE k = n + 2
        <4>1. l = n + 3
          BY <1>2, <3>3, <3>4, <3>7
        <4>2. QED
          BY <3>1, <3>4, <3>7, <4>1, Zenon
      <3>8. QED
        BY <1>2, <3>3, <3>4, <3>5, <3>6, <3>7
    <2>6. UNION {ToSet(Stages[k]) : k \in 1..Len(Stages)} = ToSet(accepted)
      <3>1. ASSUME NEW S, NEW s \in Seq(S), NEW p
            PROVE  p \in ToSet(s) <=> \E i \in 1..Len(s) : s[i] = p
        BY DEF ToSet
      <3>2. \A p : p \in ToSet(accepted) <=> p \in 1..Len(accepted)
        <4>1. accepted \in Seq(Packets)
          BY <1>1 DEF TypeOK, QueuesTyped
        <4>2. QED
          BY <1>4, <3>1, <4>1
      <3>3. ASSUME NEW k \in 1..Len(Stages), NEW p \in ToSet(Stages[k])
            PROVE  p \in 1..Len(accepted)
        <4>1. PICK i \in 1..Len(Stages[k]) : Stages[k][i] = p
          <5>1. Stages[k] \in Seq(Packets)
            BY <1>1, StageType, Zenon
          <5>2. QED
            BY <3>1, <5>1
        <4>2. CASE Stages[k] = wire
          BY <1>2, <1>3, <1>4, <4>1, <4>2
        <4>3. CASE Stages[k] = buffer
          BY <1>2, <1>3, <1>4, <4>1, <4>3
        <4>4. CASE Stages[k] = bufferQueue
          BY <1>2, <1>3, <1>4, <4>1, <4>4
        <4>5. CASE \E j \in 1..n : Stages[k] = writeQueue[j]
          <5>1. PICK j \in 1..n : Stages[k] = writeQueue[j]
            BY <4>5
          <5>2. p \in (Len(wire) + 1)..Moved
            BY <2>3, <4>1, <5>1, Zenon
          <5>3. QED
            BY <1>2, <1>3, <5>2
        <4>6. QED
          BY <1>1, <4>2, <4>3, <4>4, <4>5, StageKinds, Zenon
      <3>4. ASSUME NEW p \in 1..Len(accepted)
            PROVE  \E k \in 1..Len(Stages) : p \in ToSet(Stages[k])
        <4>1. SUFFICES \E k \in 1..Len(Stages) : \E i \in 1..Len(Stages[k]) : Stages[k][i] = p
          <5>1. \A k \in 1..Len(Stages) : Stages[k] \in Seq(Packets)
            BY <1>1, StageType, Zenon
          <5>2. QED
            BY <3>1, <5>1
        <4>2. /\ Stages[1] = wire /\ Stages[n + 2] = buffer /\ Stages[n + 3] = bufferQueue
              /\ \A j \in 1..n : Stages[j + 1] = writeQueue[j]
              /\ 1 \in 1..Len(Stages) /\ n + 2 \in 1..Len(Stages) /\ n + 3 \in 1..Len(Stages)
              /\ \A j \in 1..n : j + 1 \in 1..Len(Stages)
          <5>1. Len(Stages) = n + 3
            BY <1>1, StagesIndex
          <5>2. QED
            BY <1>1, <1>2, <5>1, StagesIndex
        <4> HIDE DEF n
        <4>3. CASE p <= Len(wire)
          <5>1. p \in 1..Len(wire) /\ wire[p] = p
            BY <1>2, <1>4, <4>3
          <5>2. QED
            BY <4>2, <5>1, Zenon
        <4>4. CASE p \in (Len(wire) + 1)..Moved
          <5>1. PICK j \in 1..n : \E i \in 1..Len(writeQueue[j]) : writeQueue[j][i] = p
            BY <2>1, <4>4, Zenon DEF Covers, n
          <5>2. QED
            BY <4>2, <5>1, Zenon
        <4>5. CASE p \in (Moved + 1)..(Moved + Len(buffer))
          <5>1. p - Moved \in 1..Len(buffer) /\ buffer[p - Moved] = p
            BY <1>2, <1>4, <4>5
          <5>2. QED
            BY <4>2, <5>1, Zenon
        <4>6. CASE p > Moved + Len(buffer)
          <5>1. p - Moved - Len(buffer) \in 1..Len(bufferQueue)
                /\ p = Moved + Len(buffer) + (p - Moved - Len(buffer))
            BY <1>2, <1>3, <4>6
          <5>2. bufferQueue[p - Moved - Len(buffer)] = p
            BY <1>4, <5>1, Zenon
          <5>3. QED
            BY <4>2, <5>1, <5>2, Zenon
        <4>7. QED
          BY <1>2, <4>3, <4>4, <4>5, <4>6
      <3>5. QED
        BY <3>2, <3>3, <3>4, Zenon
    <2>7. QED
      BY <2>4, <2>5, <2>6
  <1>7. QED
    BY <1>5, <1>6, Zenon DEF StreamIntact, Whole

(***************************************************************************)
(* Every variable keeps its type, the numbers of the packets among them.   *)
(***************************************************************************)
THEOREM SocketTypeCorrect == Spec => []TypeOK
  <1>1. SocketInv => TypeOK
    BY DEF SocketInv
  <1>2. QED
    BY <1>1, SocketInvariant, PTL

(***************************************************************************)
(* The byte stream, whatever Update coalesces, however the kernel splits   *)
(* the writes and whenever another thread closes: nothing lost, repeated   *)
(* or out of place while the connection is whole, and a prefix after.      *)
(***************************************************************************)
THEOREM SocketStreamIntact == Spec => []StreamIntact
  BY SocketInvariant, Intact, PTL

LEMMA InitSeen == Init => SeenInOrder
  BY DEF Init, SeenInOrder

(* Where stores are seen in order, no step leaves a push unseen.           *)
LEMMA StepSeen == SeenInOrder /\ [Next]_vars => SeenInOrder'
  <1> SUFFICES ASSUME SeenInOrder, [Next]_vars PROVE SeenInOrder'
    OBVIOUS
  <1> USE DEF SeenInOrder, seenVars, queueVars
  <1>1. CASE UNCHANGED <<pushed, seenVars, promise>>
    BY <1>1
  <1>2. CASE UNCHANGED <<pushed, seenVars>> /\ SetClosing
    BY <1>2 DEF SetClosing
  <1>3. CASE Visible /\ UNCHANGED promise
    BY <1>3 DEF Visible
  <1>4. CASE Publish
    BY <1>4 DEF Publish, closeVars
  <1>5. CASE UNCHANGED vars
    BY <1>1, <1>5 DEF vars, closeVars
  <1>6. CASE \E t \in Senders : SendCheck(t) \/ SendEnqueue(t)
    BY <1>1, <1>6 DEF SendCheck, SendEnqueue, closeVars
  <1>7. CASE PeerGone
    BY <1>1, <1>7 DEF PeerGone, closeVars
  <1>8. CASE CloserNext
    <2>1. CASE DelayedClose
      BY <1>1, <1>2, <2>1 DEF DelayedClose
    <2>2. CASE EmptyFirstLoad \/ EmptySecondLoad \/ Kick \/ CloseExchange \/ CloseShutdown
      BY <1>1, <2>2 DEF EmptyFirstLoad, EmptySecondLoad, Kick, CloseExchange, CloseShutdown,
                        closeVars
    <2>3. QED
      BY <1>8, <2>1, <2>2 DEF CloserNext
  <1>9. CASE NetworkNext
    <2>1. CASE UpdateDequeue
      BY <1>3, <2>1 DEF UpdateDequeue, closeVars
    <2>2. CASE UpdateEnd
      BY <1>3, <2>2 DEF UpdateEnd, closeVars
    <2>3. CASE HandleWritten \/ HandleFailed
      BY <1>3, <2>3 DEF HandleWritten, HandleFailed, Pop, closeVars
    <2>4. CASE NetDelayedClose
      BY <1>2, <2>4 DEF NetDelayedClose
    <2>5. CASE UpdateBegin \/ HandleEmpty \/ HandlePartial \/ WriteReady
      BY <1>1, <2>5 DEF UpdateBegin, HandleEmpty, HandlePartial, WriteReady, closeVars
    <2>6. CASE HandleClosing \/ ReadError
      BY <1>1, <2>6 DEF HandleClosing, ReadError
    <2>7. QED
      BY <1>9, <2>1, <2>2, <2>3, <2>4, <2>5, <2>6 DEF NetworkNext
  <1>10. QED
    BY <1>4, <1>5, <1>6, <1>7, <1>8, <1>9 DEF Next

(***************************************************************************)
(* DelayedCloseSocket's unsynchronised empty(), in whichever order it      *)
(* loads the two ends: where stores are seen in order it never closes over *)
(* a buffer that was queued when _closing was set; where they are seen     *)
(* late, never over one whose push the closing thread could then see.      *)
(***************************************************************************)
THEOREM SocketDelayedCloseFlushes == Spec => []DelayedCloseFlushes
  <1>1. SocketInv /\ SeenInOrder => DelayedCloseFlushes
    BY DEF SocketInv, TypeOK, FlagsTyped, EndsTyped, CloseInv, ClosedFlushed, SeenInOrder,
           DelayedCloseFlushes
  <1>2. Spec => []SeenInOrder
    BY InitSeen, StepSeen, PTL DEF Spec
  <1>3. QED
    BY <1>1, <1>2, SocketInvariant, PTL
=============================================================================
