-------------------------- MODULE MPSCQueueProofs --------------------------
(* Proofs about MPSCQueue for any producers, heap and values.              *)
EXTENDS MPSCQueue, SequenceTheorems, TLAPS

USE NullIsNoNode, NodesNonEmpty

LEMMA InitInv == Init => QueueInv
  <1> SUFFICES ASSUME Init PROVE QueueInv
    OBVIOUS
  <1>1. PICK dummy \in Nodes :
          /\ head = dummy /\ tail = dummy
          /\ next = [n \in Nodes |-> Null]
          /\ data = [n \in Nodes |-> NoValue]
          /\ heap = {dummy}
          /\ pc = [p \in Producers |-> "idle"]
          /\ node = [p \in Producers |-> Null]
          /\ prev = [p \in Producers |-> Null]
          /\ cpc = "idle" /\ cnext = Null /\ ctail = Null /\ result = NoValue
          /\ chain = <<dummy>>
    BY DEF Init
  <1>2. chain \in Seq(Nodes) /\ Len(chain) = 1 /\ chain[1] = dummy
    BY <1>1
  <1>3. TypeOK
    BY <1>1, <1>2 DEF TypeOK
  <1>4. ChainEnds /\ ChainDistinct /\ ChainLinked /\ ChainValues
    BY <1>1, <1>2 DEF ChainEnds, ChainDistinct, ChainLinked, ChainValues
  <1>5. ProducersPrivate /\ ProducersLinking /\ ConsumerLocal
    BY <1>1 DEF ProducersPrivate, ProducersLinking, ConsumerLocal
  <1>6. QED
    BY <1>3, <1>4, <1>5 DEF QueueInv

LEMMA AllocateKeepsInv ==
  ASSUME QueueInv, NEW p \in Producers, NEW v \in Values, Allocate(p, v)
  PROVE  QueueInv'
  <1> USE DEF QueueInv
  <1>1. PICK n \in Nodes \ heap :
          /\ heap' = heap \cup {n}
          /\ data' = [data EXCEPT ![n] = v]
          /\ next' = [next EXCEPT ![n] = Null]
          /\ node' = [node EXCEPT ![p] = n]
    BY DEF Allocate
  <1>2. /\ pc[p] = "idle" /\ pc' = [pc EXCEPT ![p] = "exchange"]
        /\ UNCHANGED <<head, tail, prev, cpc, cnext, ctail, result, chain>>
    BY DEF Allocate, consumerVars
  <1>3. TypeOK'
    BY <1>1, <1>2 DEF TypeOK
  <1>4. \A i \in 1..Len(chain) : chain[i] # n /\ chain[i] \in Nodes
    BY DEF ChainDistinct, TypeOK
  <1>5. head # n /\ tail # n
    BY <1>4 DEF ChainEnds, TypeOK
  <1>6. ChainEnds' /\ ChainDistinct'
    BY <1>1, <1>2, <1>5 DEF ChainEnds, ChainDistinct, TypeOK
  <1>7. ChainLinked' /\ ChainValues'
    BY <1>1, <1>2, <1>4 DEF ChainLinked, ChainValues, TypeOK
  <1>8. \A q \in Producers : q # p => pc'[q] = pc[q] /\ node'[q] = node[q]
    BY <1>1, <1>2 DEF TypeOK
  <1>9. pc'[p] = "exchange" /\ node'[p] = n /\ next'[n] = Null /\ data'[n] = v
    BY <1>1, <1>2 DEF TypeOK
  <1>10. \A m \in Nodes : m # n => next'[m] = next[m] /\ data'[m] = data[m]
    BY <1>1 DEF TypeOK
  <1>11. ProducersPrivate'
    <2> SUFFICES ASSUME NEW q \in Producers, pc'[q] = "exchange"
                 PROVE  /\ node'[q] \in heap'
                        /\ ~InChain(node'[q])
                        /\ next'[node'[q]] = Null
                        /\ data'[node'[q]] \in Values
                        /\ \A r \in Producers :
                             pc'[r] = "exchange" /\ node'[r] = node'[q] => r = q
      BY <1>2 DEF ProducersPrivate, InChain
    <2>1. \A r \in Producers : r # p /\ pc'[r] = "exchange" =>
            node'[r] = node[r] /\ node[r] \in heap /\ node[r] # n /\ node[r] \in Nodes
      BY <1>8, <1>1 DEF ProducersPrivate, TypeOK
    <2>2. CASE q = p
      BY <1>1, <1>4, <1>9, <2>1, <2>2 DEF InChain
    <2>3. CASE q # p
      BY <1>1, <1>8, <1>9, <1>10, <2>1, <2>3 DEF ProducersPrivate
    <2>4. QED
      BY <2>2, <2>3
  <1>12. ProducersLinking'
    <2> SUFFICES ASSUME NEW q \in Producers, pc'[q] = "link"
                 PROVE  /\ \E i \in 1..(Len(chain) - 1) :
                             prev[q] = chain[i] /\ node'[q] = chain[i + 1]
                               /\ next'[chain[i]] = Null
                        /\ \A r \in Producers :
                             pc'[r] = "link" /\ prev[r] = prev[q] => r = q
      BY <1>2 DEF ProducersLinking
    <2>1. q # p /\ pc[q] = "link"
      BY <1>8, <1>9
    <2>2. \A r \in Producers : pc'[r] = "link" => pc[r] = "link"
      BY <1>8, <1>9
    <2>3. \A i \in 1..(Len(chain) - 1) : next'[chain[i]] = next[chain[i]]
      BY <1>4, <1>10 DEF TypeOK
    <2>4. QED
      BY <1>8, <2>1, <2>2, <2>3 DEF ProducersLinking
  <1>13. ConsumerLocal'
    BY <1>1, <1>2, <1>5, <1>8, <1>9, <1>10 DEF ConsumerLocal, InChain, TypeOK
  <1>14. QED
    BY <1>3, <1>6, <1>7, <1>11, <1>12, <1>13

LEMMA ExchangeKeepsInv ==
  ASSUME QueueInv, NEW p \in Producers, Exchange(p)
  PROVE  QueueInv'
  <1> USE DEF QueueInv
  <1> DEFINE n == node[p]
  <1>1. /\ pc[p] = "exchange"
        /\ prev' = [prev EXCEPT ![p] = head]
        /\ head' = n
        /\ chain' = Append(chain, n)
        /\ pc' = [pc EXCEPT ![p] = "link"]
        /\ UNCHANGED <<tail, next, data, heap, node, cpc, cnext, ctail, result>>
    BY DEF Exchange, consumerVars
  <1>2. /\ n \in Nodes /\ n \in heap /\ next[n] = Null /\ data[n] \in Values
        /\ \A i \in 1..Len(chain) : chain[i] # n
    BY <1>1 DEF ProducersPrivate, InChain, TypeOK
  <1>3. /\ chain' \in Seq(Nodes)
        /\ Len(chain') = Len(chain) + 1
        /\ \A i \in 1..Len(chain) : chain'[i] = chain[i]
        /\ chain'[Len(chain) + 1] = n
        /\ Len(chain) \in Nat
    BY <1>1, <1>2 DEF TypeOK
  <1>4. \A q \in Producers : q # p => pc'[q] = pc[q] /\ prev'[q] = prev[q]
    BY <1>1 DEF TypeOK
  <1>5. pc'[p] = "link" /\ prev'[p] = head
    BY <1>1 DEF TypeOK
  <1>6. TypeOK'
    BY <1>1, <1>2, <1>3 DEF TypeOK
  <1>7. ChainEnds'
    BY <1>1, <1>2, <1>3 DEF ChainEnds
  <1>8. ChainDistinct'
    BY <1>1, <1>2, <1>3 DEF ChainDistinct
  <1>9. ChainLinked'
    BY <1>1, <1>3 DEF ChainLinked, ChainEnds
  <1>10. ChainValues'
    BY <1>1, <1>2, <1>3 DEF ChainValues
  <1>11. \A m : InChain(m)' <=> InChain(m) \/ m = n
    BY <1>3 DEF InChain
  <1>12. ProducersPrivate'
    <2>1. \A q \in Producers : pc'[q] = "exchange" =>
            q # p /\ pc[q] = "exchange" /\ node[q] # n
      BY <1>1, <1>4, <1>5 DEF ProducersPrivate
    <2>2. QED
      BY <1>1, <1>11, <2>1 DEF ProducersPrivate
  <1>13. ProducersLinking'
    <2> SUFFICES ASSUME NEW q \in Producers, pc'[q] = "link"
                 PROVE  /\ \E i \in 1..(Len(chain') - 1) :
                             prev'[q] = chain'[i] /\ node[q] = chain'[i + 1]
                               /\ next[chain'[i]] = Null
                        /\ \A r \in Producers :
                             pc'[r] = "link" /\ prev'[r] = prev'[q] => r = q
      BY <1>1 DEF ProducersLinking
    <2>1. \A r \in Producers : r # p /\ pc'[r] = "link" => prev'[r] # head
      <3> SUFFICES ASSUME NEW r \in Producers, r # p, pc'[r] = "link", prev'[r] = head
                   PROVE  FALSE
        OBVIOUS
      <3>1. PICK i \in 1..(Len(chain) - 1) : head = chain[i]
        BY <1>4 DEF ProducersLinking
      <3>2. i \in 1..Len(chain) /\ Len(chain) \in 1..Len(chain) /\ i # Len(chain)
        BY <1>3
      <3>3. QED
        BY <3>1, <3>2 DEF ChainEnds, ChainDistinct
    <2>2. CASE q = p
      <3>1. Len(chain) \in 1..(Len(chain') - 1)
        BY <1>3 DEF ChainEnds
      <3>2. head = chain'[Len(chain)] /\ next[head] = Null
        BY <1>3 DEF ChainEnds
      <3>3. QED
        BY <1>3, <1>5, <2>1, <2>2, <3>1, <3>2
    <2>3. CASE q # p
      <3>1. pc[q] = "link" /\ prev'[q] = prev[q] /\ prev[q] # head
        BY <1>4, <2>1, <2>3
      <3>2. PICK i \in 1..(Len(chain) - 1) :
              prev[q] = chain[i] /\ node[q] = chain[i + 1] /\ next[chain[i]] = Null
        BY <3>1 DEF ProducersLinking
      <3>3. i \in 1..(Len(chain') - 1) /\ chain'[i] = chain[i] /\ chain'[i + 1] = chain[i + 1]
        BY <1>3
      <3>4. \A r \in Producers : pc'[r] = "link" /\ prev'[r] = prev'[q] => r = q
        BY <1>4, <1>5, <3>1 DEF ProducersLinking
      <3>5. QED
        BY <3>1, <3>2, <3>3, <3>4
    <2>4. QED
      BY <2>2, <2>3
  <1>14. ConsumerLocal'
    <2>1. cpc = "delete" => ctail # n
      BY <1>1 DEF ConsumerLocal
    <2>2. \A q \in Producers : pc'[q] = "exchange" => pc[q] = "exchange"
      BY <1>4, <1>5
    <2>3. QED
      BY <1>1, <1>11, <2>1, <2>2 DEF ConsumerLocal
  <1>15. QED
    BY <1>6, <1>7, <1>8, <1>9, <1>10, <1>12, <1>13, <1>14

LEMMA LinkKeepsInv ==
  ASSUME QueueInv, NEW p \in Producers, Link(p)
  PROVE  QueueInv'
  <1> USE DEF QueueInv
  <1>1. /\ pc[p] = "link"
        /\ next' = [next EXCEPT ![prev[p]] = node[p]]
        /\ node' = [node EXCEPT ![p] = Null]
        /\ prev' = [prev EXCEPT ![p] = Null]
        /\ pc' = [pc EXCEPT ![p] = "idle"]
        /\ UNCHANGED <<head, tail, data, heap, cpc, cnext, ctail, result, chain>>
    BY DEF Link, consumerVars
  <1>2. PICK i \in 1..(Len(chain) - 1) :
          prev[p] = chain[i] /\ node[p] = chain[i + 1] /\ next[chain[i]] = Null
    BY <1>1 DEF ProducersLinking
  <1>3. /\ chain[i] \in Nodes /\ chain[i + 1] \in Nodes
        /\ i \in 1..Len(chain) /\ i + 1 \in 1..Len(chain) /\ Len(chain) \in Nat
    BY DEF TypeOK
  <1>4. /\ next'[chain[i]] = chain[i + 1]
        /\ \A m \in Nodes : m # chain[i] => next'[m] = next[m]
    BY <1>1, <1>2, <1>3 DEF TypeOK
  <1>5. \A q \in Producers : q # p => pc'[q] = pc[q] /\ node'[q] = node[q] /\ prev'[q] = prev[q]
    BY <1>1 DEF TypeOK
  <1>6. pc'[p] = "idle"
    BY <1>1 DEF TypeOK
  <1>7. TypeOK'
    <2>1. next' \in [Nodes -> Nodes \cup {Null}]
      BY <1>1, <1>2, <1>3 DEF TypeOK
    <2>2. QED
      BY <1>1, <2>1 DEF TypeOK
  <1>8. chain[i] # head
    BY <1>3 DEF ChainEnds, ChainDistinct
  <1>9. ChainEnds'
    BY <1>1, <1>4, <1>8 DEF ChainEnds, TypeOK
  <1>10. ChainDistinct' /\ ChainValues'
    BY <1>1 DEF ChainDistinct, ChainValues
  <1>11. \A j \in 1..Len(chain) : chain[j] = chain[i] => j = i
    BY <1>3 DEF ChainDistinct
  <1>12. ChainLinked'
    <2> SUFFICES ASSUME NEW j \in 1..(Len(chain) - 1)
                 PROVE  next'[chain[j]] = chain[j + 1] \/ next'[chain[j]] = Null
      BY <1>1 DEF ChainLinked
    <2>1. j \in 1..Len(chain) /\ chain[j] \in Nodes
      BY DEF TypeOK
    <2>2. CASE j = i
      BY <1>4, <2>2
    <2>3. CASE j # i
      BY <1>4, <1>11, <2>1, <2>3 DEF ChainLinked
    <2>4. QED
      BY <2>2, <2>3
  <1>13. ProducersPrivate'
    <2> SUFFICES ASSUME NEW q \in Producers, pc'[q] = "exchange"
                 PROVE  /\ node'[q] \in heap
                        /\ ~InChain(node'[q])
                        /\ next'[node'[q]] = Null
                        /\ data[node'[q]] \in Values
                        /\ \A r \in Producers :
                             pc'[r] = "exchange" /\ node'[r] = node'[q] => r = q
      BY <1>1 DEF ProducersPrivate, InChain
    <2>1. q # p /\ pc[q] = "exchange" /\ node'[q] = node[q]
      BY <1>5, <1>6
    <2>2. node[q] # chain[i] /\ node[q] \in Nodes
      BY <1>3, <2>1 DEF ProducersPrivate, InChain, TypeOK
    <2>3. \A r \in Producers : pc'[r] = "exchange" => r # p /\ pc[r] = "exchange"
      BY <1>5, <1>6
    <2>4. QED
      BY <1>4, <1>5, <2>1, <2>2, <2>3 DEF ProducersPrivate
  <1>14. ProducersLinking'
    <2> SUFFICES ASSUME NEW q \in Producers, pc'[q] = "link"
                 PROVE  /\ \E j \in 1..(Len(chain) - 1) :
                             prev'[q] = chain[j] /\ node'[q] = chain[j + 1]
                               /\ next'[chain[j]] = Null
                        /\ \A r \in Producers :
                             pc'[r] = "link" /\ prev'[r] = prev'[q] => r = q
      BY <1>1 DEF ProducersLinking
    <2>1. q # p /\ pc[q] = "link" /\ prev'[q] = prev[q] /\ node'[q] = node[q]
      BY <1>5, <1>6
    <2>2. prev[q] # prev[p]
      BY <1>1, <2>1 DEF ProducersLinking
    <2>3. PICK j \in 1..(Len(chain) - 1) :
            prev[q] = chain[j] /\ node[q] = chain[j + 1] /\ next[chain[j]] = Null
      BY <2>1 DEF ProducersLinking
    <2>4. chain[j] \in Nodes
      BY DEF TypeOK
    <2>5. next'[chain[j]] = Null
      BY <1>2, <1>4, <2>2, <2>3, <2>4
    <2>6. \A r \in Producers : pc'[r] = "link" => pc[r] = "link" /\ prev'[r] = prev[r]
      BY <1>5, <1>6
    <2>7. QED
      BY <2>1, <2>3, <2>5, <2>6 DEF ProducersLinking
  <1>15. ConsumerLocal'
    <2>1. cpc = "advance" => tail # chain[i]
      BY <1>2 DEF ConsumerLocal
    <2>2. \A q \in Producers : pc'[q] = "exchange" => pc[q] = "exchange" /\ node'[q] = node[q]
      BY <1>5, <1>6
    <2>3. QED
      BY <1>1, <1>4, <2>1, <2>2 DEF ConsumerLocal, InChain, TypeOK
  <1>16. QED
    BY <1>7, <1>9, <1>10, <1>12, <1>13, <1>14, <1>15

LEMMA LoadNextKeepsInv == QueueInv /\ LoadNext => QueueInv'
  <1> SUFFICES ASSUME QueueInv, LoadNext PROVE QueueInv'
    OBVIOUS
  <1> USE DEF QueueInv
  <1>1. UNCHANGED <<head, tail, next, data, heap, pc, node, prev, result, chain>>
    BY DEF LoadNext, producerVars
  <1>2. TypeOK' /\ ConsumerLocal'
    BY <1>1 DEF LoadNext, TypeOK, ConsumerLocal, InChain
  <1>3. ChainEnds' /\ ChainDistinct' /\ ChainLinked' /\ ChainValues'
    BY <1>1 DEF ChainEnds, ChainDistinct, ChainLinked, ChainValues
  <1>4. ProducersPrivate' /\ ProducersLinking'
    BY <1>1 DEF ProducersPrivate, ProducersLinking, InChain
  <1>5. QED
    BY <1>2, <1>3, <1>4

(* In "advance" the local next is the second node of the chain.            *)
LEMMA NextIsSecond ==
  ASSUME QueueInv, cpc = "advance"
  PROVE  /\ Len(chain) \in Nat /\ Len(chain) >= 2
         /\ cnext = chain[2] /\ ctail = chain[1] /\ next[chain[1]] = chain[2]
         /\ cnext \in Nodes
  <1> USE DEF QueueInv
  <1>1. ctail = tail /\ cnext = next[tail] /\ cnext # Null
    BY DEF ConsumerLocal
  <1>2. Len(chain) \in Nat /\ Len(chain) >= 1
    BY DEF ChainEnds, TypeOK
  <1>3. Len(chain) # 1
    BY <1>1 DEF ChainEnds
  <1>4. 1 \in 1..(Len(chain) - 1)
    <2> HIDE DEF QueueInv
    <2>0. \A n \in Nat : n >= 1 /\ n # 1 => n >= 2
      OBVIOUS
    <2>1. Len(chain) >= 2
      BY <1>2, <1>3, <2>0
    <2>2. QED
      BY <1>2, <2>1
  <1>5. next[chain[1]] = chain[2]
    <2>1. next[chain[1]] = chain[1 + 1] \/ next[chain[1]] = Null
      BY <1>4 DEF ChainLinked
    <2>2. QED
      BY <1>1, <2>1 DEF ChainEnds
  <1>6. QED
    BY <1>1, <1>2, <1>3, <1>5 DEF ChainEnds, TypeOK

LEMMA AdvanceKeepsInv == QueueInv /\ Advance => QueueInv'
  <1> SUFFICES ASSUME QueueInv, Advance PROVE QueueInv'
    OBVIOUS
  <1> USE DEF QueueInv
  <1>1. /\ cpc = "advance" /\ cpc' = "delete"
        /\ result' = data[cnext]
        /\ tail' = cnext
        /\ chain' = Tail(chain)
        /\ UNCHANGED <<head, next, data, heap, pc, node, prev, cnext, ctail>>
    BY DEF Advance, producerVars
  <1>2. /\ Len(chain) \in Nat /\ Len(chain) >= 2
        /\ cnext = chain[2] /\ ctail = chain[1] /\ next[chain[1]] = chain[2]
        /\ cnext \in Nodes
    BY <1>1, NextIsSecond
  <1>3. /\ chain' \in Seq(Nodes)
        /\ Len(chain') = Len(chain) - 1
        /\ \A j \in 1..Len(chain') : chain'[j] = chain[j + 1]
    BY <1>1, <1>2 DEF TypeOK
  <1>4. data[cnext] \in Values
    BY <1>2 DEF ChainValues
  <1>5. TypeOK'
    BY <1>1, <1>2, <1>3, <1>4 DEF TypeOK
  <1>6. \A j \in 1..Len(chain') : j + 1 \in 1..Len(chain)
    BY <1>2, <1>3
  <1>7. ChainEnds'
    BY <1>1, <1>2, <1>3 DEF ChainEnds
  <1>8. ChainDistinct'
    BY <1>1, <1>2, <1>3, <1>6 DEF ChainDistinct
  <1>9. ChainLinked'
    <2> SUFFICES ASSUME NEW j \in 1..(Len(chain') - 1)
                 PROVE  next[chain'[j]] = chain'[j + 1] \/ next[chain'[j]] = Null
      BY <1>1 DEF ChainLinked
    <2>1. j + 1 \in 1..(Len(chain) - 1) /\ chain'[j] = chain[j + 1]
            /\ chain'[j + 1] = chain[(j + 1) + 1]
      BY <1>2, <1>3
    <2>2. QED
      BY <2>1 DEF ChainLinked
  <1>10. ChainValues'
    BY <1>1, <1>2, <1>3 DEF ChainValues
  <1>11. \A m : InChain(m)' => InChain(m)
    BY <1>3, <1>6 DEF InChain
  <1>12. ProducersPrivate'
    BY <1>1, <1>11 DEF ProducersPrivate
  <1>13. ProducersLinking'
    <2> SUFFICES ASSUME NEW q \in Producers, pc[q] = "link"
                 PROVE  \E j \in 1..(Len(chain') - 1) :
                          prev[q] = chain'[j] /\ node[q] = chain'[j + 1]
                            /\ next[chain'[j]] = Null
      BY <1>1 DEF ProducersLinking
    <2>1. PICK i \in 1..(Len(chain) - 1) :
            prev[q] = chain[i] /\ node[q] = chain[i + 1] /\ next[chain[i]] = Null
      BY DEF ProducersLinking
    <2>2. i # 1
      BY <1>2, <2>1 DEF TypeOK
    <2>3. /\ i - 1 \in 1..(Len(chain') - 1)
          /\ chain'[i - 1] = chain[(i - 1) + 1]
          /\ chain'[(i - 1) + 1] = chain[((i - 1) + 1) + 1]
          /\ (i - 1) + 1 = i
      BY <1>2, <1>3, <2>2
    <2>4. QED
      BY <2>1, <2>3
  <1>14. ConsumerLocal'
    <2>1. chain[1] \in heap /\ \A j \in 1..Len(chain') : chain'[j] # chain[1]
      BY <1>2, <1>3, <1>6 DEF ChainDistinct
    <2>2. \A q \in Producers : pc[q] = "exchange" => node[q] # chain[1]
      BY <1>2 DEF ProducersPrivate, InChain
    <2>3. QED
      BY <1>1, <1>2, <2>1, <2>2 DEF ConsumerLocal, InChain
  <1>15. QED
    BY <1>5, <1>7, <1>8, <1>9, <1>10, <1>12, <1>13, <1>14

LEMMA DeleteKeepsInv == QueueInv /\ Delete => QueueInv'
  <1> SUFFICES ASSUME QueueInv, Delete PROVE QueueInv'
    OBVIOUS
  <1> USE DEF QueueInv
  <1>1. /\ cpc = "delete" /\ heap' = heap \ {ctail}
        /\ cpc' = "idle" /\ cnext' = Null /\ ctail' = Null
        /\ UNCHANGED <<head, tail, next, data, pc, node, prev, result, chain>>
    BY DEF Delete, producerVars
  <1>2. TypeOK' /\ ConsumerLocal'
    BY <1>1 DEF TypeOK, ConsumerLocal
  <1>3. ChainEnds' /\ ChainLinked' /\ ChainValues'
    BY <1>1 DEF ChainEnds, ChainLinked, ChainValues
  <1>4. ChainDistinct'
    BY <1>1 DEF ChainDistinct, ConsumerLocal, InChain
  <1>5. ProducersPrivate' /\ ProducersLinking'
    BY <1>1 DEF ProducersPrivate, ProducersLinking, ConsumerLocal, InChain
  <1>6. QED
    BY <1>2, <1>3, <1>4, <1>5

LEMMA StepInv == QueueInv /\ [Next]_vars => QueueInv'
  <1> SUFFICES ASSUME QueueInv, [Next]_vars PROVE QueueInv'
    OBVIOUS
  <1>1. ASSUME NEW p \in Producers, NEW v \in Values, Allocate(p, v)
        PROVE  QueueInv'
    BY <1>1, AllocateKeepsInv
  <1>2. ASSUME NEW p \in Producers, Exchange(p)
        PROVE  QueueInv'
    BY <1>2, ExchangeKeepsInv
  <1>3. ASSUME NEW p \in Producers, Link(p)
        PROVE  QueueInv'
    BY <1>3, LinkKeepsInv
  <1>4. CASE LoadNext
    BY <1>4, LoadNextKeepsInv
  <1>5. CASE Advance
    BY <1>5, AdvanceKeepsInv
  <1>6. CASE Delete
    BY <1>6, DeleteKeepsInv
  <1>7. CASE UNCHANGED vars
    BY <1>7 DEF vars, producerVars, consumerVars, QueueInv, TypeOK, ChainEnds, ChainDistinct,
       ChainLinked, ProducersPrivate, ProducersLinking, ConsumerLocal, ChainValues, InChain
  <1>8. QED
    BY <1>1, <1>2, <1>3, <1>4, <1>5, <1>6, <1>7 DEF Next

LEMMA QueueInvariant == Spec => []QueueInv
  BY InitInv, StepInv, PTL DEF Spec

(***************************************************************************)
(* Every pointer of the queue keeps its type; in particular the consumer   *)
(* never advances to nullptr.                                              *)
(***************************************************************************)
THEOREM QueueTypeCorrect == Spec => []TypeOK
  <1>1. QueueInv => TypeOK
    BY DEF QueueInv
  <1>2. QED
    BY <1>1, QueueInvariant, PTL

(***************************************************************************)
(* No producer links from, and the consumer neither reads nor deletes, a   *)
(* node that has been deleted, for any number of producers and however the *)
(* allocator reuses addresses.                                             *)
(***************************************************************************)
THEOREM QueueMemorySafe == Spec => []NoUseAfterFree
  <1>1. QueueInv => NoUseAfterFree
    <2> SUFFICES ASSUME QueueInv PROVE NoUseAfterFree
      OBVIOUS
    <2> USE DEF QueueInv
    <2>1. Len(chain) \in Nat /\ Len(chain) >= 1
      BY DEF ChainEnds, TypeOK
    <2>2. tail \in heap /\ head \in heap
      BY <2>1 DEF ChainEnds, ChainDistinct
    <2>3. ASSUME NEW p \in Producers, pc[p] = "link"
          PROVE  prev[p] \in heap /\ node[p] \in heap
      <3>1. PICK i \in 1..(Len(chain) - 1) : prev[p] = chain[i] /\ node[p] = chain[i + 1]
        BY <2>3 DEF ProducersLinking
      <3>2. i \in 1..Len(chain) /\ i + 1 \in 1..Len(chain)
        BY <2>1
      <3>3. QED
        BY <3>1, <3>2 DEF ChainDistinct
    <2>4. \A p \in Producers : pc[p] = "exchange" => node[p] \in heap
      BY DEF ProducersPrivate
    <2>5. cpc = "advance" => cnext \in heap
      BY NextIsSecond DEF ChainDistinct
    <2>6. cpc = "delete" => ctail \in heap
      BY DEF ConsumerLocal
    <2>7. QED
      BY <2>2, <2>3, <2>4, <2>5, <2>6 DEF NoUseAfterFree
  <1>2. QED
    BY <1>1, QueueInvariant, PTL

-----------------------------------------------------------------------------
ContentsFacts ==
  /\ Len(chain) - 1 \in Nat
  /\ \A i \in 1..(Len(chain) - 1) : data[chain[i + 1]] \in Values
  /\ Contents \in Seq(Values)
  /\ Len(Contents) = Len(chain) - 1

LEMMA ContentsOf == QueueInv => ContentsFacts
  <1> SUFFICES ASSUME QueueInv PROVE ContentsFacts
    OBVIOUS
  <1>1. Len(chain) - 1 \in Nat
    BY DEF QueueInv, ChainEnds, TypeOK
  <1>2. \A i \in 1..(Len(chain) - 1) : i + 1 \in 2..Len(chain)
    BY <1>1 DEF QueueInv, TypeOK
  <1>3. \A i \in 1..(Len(chain) - 1) : data[chain[i + 1]] \in Values
    BY <1>2 DEF QueueInv, ChainValues
  <1>4. QED
    BY <1>1, <1>3 DEF Contents, ContentsFacts

LEMMA ContentsOfNext == QueueInv' => ContentsFacts'
  BY ContentsOf, PTL

LEMMA ExchangeIsPut ==
  ASSUME QueueInv, QueueInv', NEW p \in Producers, Exchange(p)
  PROVE  \E v \in Values : Fifo!Put(v)
  <1>1. /\ pc[p] = "exchange" /\ chain' = Append(chain, node[p])
        /\ UNCHANGED <<data, result>>
    BY DEF Exchange, consumerVars
  <1>2. data[node[p]] \in Values /\ node[p] \in Nodes
    BY <1>1 DEF QueueInv, ProducersPrivate, TypeOK
  <1>3. /\ Len(chain) \in Nat /\ Len(chain') = Len(chain) + 1
        /\ \A i \in 1..Len(chain) : chain'[i] = chain[i]
        /\ chain'[Len(chain) + 1] = node[p]
    BY <1>1, <1>2 DEF QueueInv, TypeOK
  <1>4. /\ Contents \in Seq(Values) /\ Contents' \in Seq(Values)
        /\ Len(Contents) = Len(chain) - 1 /\ Len(Contents') = Len(chain)
    <2>1. /\ Contents \in Seq(Values) /\ Contents' \in Seq(Values)
          /\ Len(Contents) = Len(chain) - 1 /\ Len(Contents') = Len(chain') - 1
      BY ContentsOf, ContentsOfNext, Zenon DEF ContentsFacts
    <2>2. Len(chain') - 1 = Len(chain)
      BY <1>3
    <2>3. QED
      BY <2>1, <2>2, Zenon
  <1>5. /\ Append(Contents, data[node[p]]) \in Seq(Values)
        /\ Len(Append(Contents, data[node[p]])) = Len(chain)
        /\ \A i \in 1..(Len(chain) - 1) :
             Append(Contents, data[node[p]])[i] = data[chain[i + 1]]
        /\ Append(Contents, data[node[p]])[Len(chain)] = data[node[p]]
    <2>1. \A i \in 1..(Len(chain) - 1) : Contents[i] = data[chain[i + 1]]
      BY DEF Contents
    <2>2. /\ Append(Contents, data[node[p]]) \in Seq(Values)
          /\ Len(Append(Contents, data[node[p]])) = Len(Contents) + 1
          /\ \A i \in 1..Len(Contents) :
               Append(Contents, data[node[p]])[i] = Contents[i]
          /\ Append(Contents, data[node[p]])[Len(Contents) + 1] = data[node[p]]
      BY <1>2, <1>4, AppendProperties
    <2>3. QED
      BY <1>3, <1>4, <2>1, <2>2
  <1>6. \A i \in 1..Len(chain) : Contents'[i] = Append(Contents, data[node[p]])[i]
    <2> SUFFICES ASSUME NEW i \in 1..Len(chain)
                 PROVE  Contents'[i] = Append(Contents, data[node[p]])[i]
      OBVIOUS
    <2>1. Contents'[i] = data[chain'[i + 1]]
      BY <1>1, <1>3 DEF Contents
    <2>2. CASE i = Len(chain)
      BY <1>3, <1>5, <2>1, <2>2
    <2>3. CASE i # Len(chain)
      BY <1>3, <1>5, <2>1, <2>3
    <2>4. QED
      BY <2>2, <2>3
  <1>7. Contents' = Append(Contents, data[node[p]])
    BY <1>4, <1>5, <1>6, SeqEqual
  <1>8. QED
    BY <1>1, <1>2, <1>7 DEF Fifo!Put

LEMMA AdvanceIsTake ==
  ASSUME QueueInv, QueueInv', Advance
  PROVE  Fifo!Take
  <1>1. /\ cpc = "advance" /\ result' = data[cnext] /\ chain' = Tail(chain)
        /\ UNCHANGED data
    BY DEF Advance
  <1>2. Len(chain) \in Nat /\ Len(chain) >= 2 /\ cnext = chain[2]
    BY <1>1, NextIsSecond
  <1>3. /\ Len(chain') = Len(chain) - 1
        /\ \A i \in 1..Len(chain') : chain'[i] = chain[i + 1]
    BY <1>1, <1>2 DEF QueueInv, TypeOK
  <1>4. /\ Contents \in Seq(Values) /\ Len(Contents) = Len(chain) - 1
        /\ \A i \in 1..(Len(chain) - 1) : Contents[i] = data[chain[i + 1]]
    <2>1. Contents \in Seq(Values) /\ Len(Contents) = Len(chain) - 1
      BY ContentsOf, Zenon DEF ContentsFacts
    <2>2. \A i \in 1..(Len(chain) - 1) : Contents[i] = data[chain[i + 1]]
      BY DEF Contents
    <2>3. QED
      BY <2>1, <2>2, Zenon
  <1>5. /\ Contents' \in Seq(Values) /\ Len(Contents') = Len(chain) - 2
        /\ \A i \in 1..(Len(chain) - 2) : Contents'[i] = data[chain[(i + 1) + 1]]
    <2>1. Contents' = [i \in 1..(Len(chain') - 1) |-> data'[chain'[i + 1]]]
      BY DEF Contents
    <2>2. \A i \in 1..(Len(chain) - 2) : i + 1 \in 1..Len(chain') /\ i \in 1..(Len(chain') - 1)
      BY <1>2, <1>3
    <2>3. \A i \in 1..(Len(chain) - 2) : Contents'[i] = data[chain[(i + 1) + 1]]
      BY <1>1, <1>3, <2>1, <2>2
    <2>4. Contents' \in Seq(Values) /\ Len(Contents') = Len(chain') - 1
      BY ContentsOfNext, Zenon DEF ContentsFacts
    <2>5. Len(chain') - 1 = Len(chain) - 2
      BY <1>2, <1>3
    <2>6. QED
      BY <2>3, <2>4, <2>5, Zenon
  <1>6. /\ Tail(Contents) \in Seq(Values)
        /\ Len(Tail(Contents)) = Len(chain) - 2
        /\ \A i \in 1..(Len(chain) - 2) : Tail(Contents)[i] = data[chain[(i + 1) + 1]]
    BY <1>2, <1>4
  <1>7. Contents' = Tail(Contents)
    BY <1>5, <1>6, SeqEqual
  <1>8. Contents # <<>> /\ Head(Contents) = data[chain[2]]
    BY <1>2, <1>4
  <1>9. QED
    BY <1>1, <1>2, <1>7, <1>8 DEF Fifo!Take

LEMMA StepRefines == QueueInv /\ QueueInv' /\ [Next]_vars => [Fifo!Next]_Fifo!vars
  <1> SUFFICES ASSUME QueueInv, QueueInv', [Next]_vars
               PROVE  [Fifo!Next]_Fifo!vars
    OBVIOUS
  <1>1. ASSUME NEW p \in Producers, NEW v \in Values, Allocate(p, v)
        PROVE  UNCHANGED Fifo!vars
    <2>1. PICK n \in Nodes \ heap : data' = [data EXCEPT ![n] = v]
      BY <1>1 DEF Allocate
    <2>2. UNCHANGED <<chain, result>>
      BY <1>1 DEF Allocate, consumerVars
    <2>3. \A i \in 1..(Len(chain) - 1) : data'[chain[i + 1]] = data[chain[i + 1]]
      BY <2>1 DEF QueueInv, TypeOK, ChainDistinct
    <2>4. Contents' = Contents
      BY <2>2, <2>3 DEF Contents
    <2>5. QED
      BY <2>2, <2>4 DEF Fifo!vars
  <1>2. ASSUME NEW p \in Producers, Exchange(p)
        PROVE  Fifo!Next
    BY <1>2, ExchangeIsPut DEF Fifo!Next
  <1>3. ASSUME NEW p \in Producers, Link(p)
        PROVE  UNCHANGED Fifo!vars
    BY <1>3 DEF Link, consumerVars, Contents, Fifo!vars
  <1>4. CASE LoadNext
    BY <1>4 DEF LoadNext, Contents, Fifo!vars
  <1>5. CASE Advance
    BY <1>5, AdvanceIsTake DEF Fifo!Next
  <1>6. CASE Delete
    BY <1>6 DEF Delete, Contents, Fifo!vars
  <1>7. CASE UNCHANGED vars
    BY <1>7 DEF vars, consumerVars, Contents, Fifo!vars
  <1>8. QED
    BY <1>1, <1>2, <1>3, <1>4, <1>5, <1>6, <1>7 DEF Next

(***************************************************************************)
(* The lock-free queue implements the abstract FIFO queue: packets leave   *)
(* in the order of their exchanges, none lost, none twice.                 *)
(***************************************************************************)
THEOREM QueueImplementsFifo == Spec => ImplementsFifo
  <1>1. Init => Fifo!Init
    <2> SUFFICES ASSUME Init PROVE Fifo!Init
      OBVIOUS
    <2>1. PICK dummy \in Nodes : chain = <<dummy>> /\ result = NoValue
      BY DEF Init
    <2>2. Len(chain) = 1
      BY <2>1
    <2>3. Contents = <<>>
      BY <2>2, InitInv, ContentsOf, EmptySeq DEF ContentsFacts
    <2>4. QED
      BY <2>1, <2>3 DEF Fifo!Init
  <1>2. QED
    BY <1>1, QueueInvariant, StepRefines, PTL DEF Spec, ImplementsFifo, Fifo!Spec

LEMMA StepNoLeak ==
  ASSUME QueueInv, NoLeak, [Next]_vars
  PROVE  NoLeak'
  <1> USE DEF QueueInv
  <1>kept. ASSUME chain' = chain, heap' \subseteq heap,
                  \A p \in Producers : pc[p] = "exchange" =>
                    pc'[p] = "exchange" /\ node'[p] = node[p],
                  \A n \in heap' : cpc = "delete" /\ ctail = n =>
                    cpc' = "delete" /\ ctail' = n
           PROVE  NoLeak'
    BY <1>kept DEF NoLeak
  <1>1. ASSUME NEW p \in Producers, NEW v \in Values, Allocate(p, v)
        PROVE  NoLeak'
    <2>1. PICK n \in Nodes \ heap :
            heap' = heap \cup {n} /\ node' = [node EXCEPT ![p] = n]
      BY <1>1 DEF Allocate
    <2>2. /\ chain' = chain /\ cpc' = cpc /\ ctail' = ctail
          /\ pc[p] = "idle" /\ pc' = [pc EXCEPT ![p] = "exchange"]
      BY <1>1 DEF Allocate, consumerVars
    <2>3. /\ pc'[p] = "exchange" /\ node'[p] = n
          /\ \A q \in Producers : q # p => pc'[q] = pc[q] /\ node'[q] = node[q]
      BY <2>1, <2>2 DEF TypeOK
    <2>4. QED
      BY <2>1, <2>2, <2>3 DEF NoLeak
  <1>2. ASSUME NEW p \in Producers, Exchange(p)
        PROVE  NoLeak'
    <2>1. /\ chain' = Append(chain, node[p]) /\ node[p] \in Nodes
          /\ pc' = [pc EXCEPT ![p] = "link"]
          /\ UNCHANGED <<heap, node, cpc, ctail>>
      BY <1>2 DEF Exchange, consumerVars, ProducersPrivate, TypeOK
    <2>2. /\ Len(chain') = Len(chain) + 1 /\ Len(chain) \in Nat
          /\ \A i \in 1..Len(chain) : chain'[i] = chain[i]
          /\ chain'[Len(chain) + 1] = node[p]
      BY <2>1 DEF TypeOK
    <2>3. \A n : (\E i \in 1..Len(chain) : chain[i] = n) =>
                 \E i \in 1..Len(chain') : chain'[i] = n
      BY <2>2
    <2>4. \E i \in 1..Len(chain') : chain'[i] = node[p]
      BY <2>2
    <2>5. \A q \in Producers : q # p => pc'[q] = pc[q]
      BY <2>1 DEF TypeOK
    <2>6. QED
      BY <2>1, <2>3, <2>4, <2>5 DEF NoLeak
  <1>3. ASSUME NEW p \in Producers, Link(p)
        PROVE  NoLeak'
    BY <1>3, <1>kept DEF Link, consumerVars, TypeOK
  <1>4. CASE LoadNext
    BY <1>4, <1>kept DEF LoadNext, producerVars
  <1>5. CASE Advance
    <2>1. /\ chain' = Tail(chain) /\ cpc' = "delete" /\ cpc = "advance"
          /\ UNCHANGED <<heap, pc, node, ctail>>
      BY <1>5 DEF Advance, producerVars
    <2>2. ctail' = chain[1]
      BY <2>1 DEF ConsumerLocal, ChainEnds
    <2>3. /\ Len(chain') = Len(chain) - 1
          /\ \A i \in 1..Len(chain) : i = 1 \/ (i - 1 \in 1..Len(chain') /\ chain'[i - 1] = chain[i])
      BY <2>1 DEF TypeOK, ChainEnds
    <2> SUFFICES ASSUME NEW n \in heap
                 PROVE  \/ \E i \in 1..Len(chain') : chain'[i] = n
                        \/ \E p \in Producers : pc[p] = "exchange" /\ node[p] = n
                        \/ ctail' = n
      BY <2>1 DEF NoLeak
    <2>4. CASE \E i \in 1..Len(chain) : chain[i] = n
      BY <2>2, <2>3, <2>4
    <2>5. CASE ~\E i \in 1..Len(chain) : chain[i] = n
      BY <2>1, <2>5 DEF NoLeak
    <2>6. QED
      BY <2>4, <2>5
  <1>6. CASE Delete
    BY <1>6, <1>kept DEF Delete, producerVars
  <1>7. CASE UNCHANGED vars
    BY <1>7, <1>kept DEF vars, producerVars, consumerVars
  <1>8. QED
    BY <1>1, <1>2, <1>3, <1>4, <1>5, <1>6, <1>7 DEF Next

(***************************************************************************)
(* Whatever is allocated is still reachable by the thread that must free   *)
(* it: no interleaving of producers and the consumer loses a node.         *)
(***************************************************************************)
THEOREM QueueNeverLeaks == Spec => []NoLeak
  <1>1. Init => NoLeak
    <2> SUFFICES ASSUME Init PROVE NoLeak
      OBVIOUS
    <2>1. PICK dummy \in Nodes : heap = {dummy} /\ chain = <<dummy>>
      BY DEF Init
    <2>2. Len(chain) = 1 /\ chain[1] = dummy
      BY <2>1
    <2>3. QED
      BY <2>1, <2>2 DEF NoLeak
  <1>2. QueueInv /\ NoLeak /\ [Next]_vars => NoLeak'
    BY StepNoLeak
  <1>3. QED
    BY <1>1, <1>2, QueueInvariant, PTL DEF Spec
=============================================================================
