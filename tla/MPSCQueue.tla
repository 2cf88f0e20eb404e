------------------------------ MODULE MPSCQueue ------------------------------
(***************************************************************************)
(* MPSCQueueNonIntrusive: any number of producers (the map, world and      *)
(* database-callback threads that call WorldSocket::SendPacket), one       *)
(* consumer (the network thread in WorldSocket::Update).                   *)
(*                                                                         *)
(* Nodes is the heap: "new Node" takes any node that is not allocated, so  *)
(* an address freed by the consumer may come back at once in another       *)
(* producer's hands.  Every atomic access of the code is a step.           *)
(***************************************************************************)
EXTENDS Naturals, Sequences, FiniteSets

CONSTANTS Producers, Nodes, Values,
          Null,       \* nullptr; not a node
          NoValue     \* the indeterminate Data of the initial dummy node

ASSUME NullIsNoNode    == Null \notin Nodes
ASSUME NodesNonEmpty   == Nodes # {}

VARIABLES
  head,     \* _head
  tail,     \* _tail
  next,     \* next[n]: Node::Next
  data,     \* data[n]: Node::Data
  heap,     \* the allocated nodes
  pc,       \* pc[p]: "idle", "exchange" or "link" (inside Enqueue)
  node,     \* node[p]: Enqueue's local "node"
  prev,     \* prev[p]: Enqueue's local "prevHead"
  cpc,      \* "idle", "advance", "delete": the consumer inside Dequeue
  cnext,    \* Dequeue's local "next"
  ctail,    \* Dequeue's local "tail"
  result,   \* what the last successful Dequeue returned
  chain     \* history: the nodes from _tail to _head, in the order of the exchanges

producerVars == <<pc, node, prev>>
consumerVars == <<cpc, cnext, ctail, result>>
vars == <<head, tail, next, data, heap, producerVars, consumerVars, chain>>

TypeOK ==
  /\ head \in Nodes /\ tail \in Nodes
  /\ next \in [Nodes -> Nodes \cup {Null}]
  /\ data \in [Nodes -> Values \cup {NoValue}]
  /\ heap \subseteq Nodes
  /\ pc \in [Producers -> {"idle", "exchange", "link"}]
  /\ node \in [Producers -> Nodes \cup {Null}]
  /\ prev \in [Producers -> Nodes \cup {Null}]
  /\ cpc \in {"idle", "advance", "delete"}
  /\ cnext \in Nodes \cup {Null}
  /\ ctail \in Nodes \cup {Null}
  /\ cpc = "advance" => cnext \in Nodes
  /\ result \in Values \cup {NoValue}
  /\ chain \in Seq(Nodes)

(* The constructor: one dummy node, head and tail on it.                   *)
Init ==
  \E dummy \in Nodes :
    /\ head = dummy /\ tail = dummy
    /\ next = [n \in Nodes |-> Null]
    /\ data = [n \in Nodes |-> NoValue]
    /\ heap = {dummy}
    /\ pc = [p \in Producers |-> "idle"]
    /\ node = [p \in Producers |-> Null]
    /\ prev = [p \in Producers |-> Null]
    /\ cpc = "idle" /\ cnext = Null /\ ctail = Null /\ result = NoValue
    /\ chain = <<dummy>>
-----------------------------------------------------------------------------
(* Enqueue: Node* node = new Node(input); the constructor nulls Next.      *)
Allocate(p, v) ==
  /\ pc[p] = "idle"
  /\ \E n \in Nodes \ heap :
       /\ heap' = heap \cup {n}
       /\ data' = [data EXCEPT ![n] = v]
       /\ next' = [next EXCEPT ![n] = Null]
       /\ node' = [node EXCEPT ![p] = n]
  /\ pc' = [pc EXCEPT ![p] = "exchange"]
  /\ UNCHANGED <<head, tail, prev, consumerVars, chain>>

(* Enqueue: prevHead = _head.exchange(node) - the linearisation point.     *)
Exchange(p) ==
  /\ pc[p] = "exchange"
  /\ prev' = [prev EXCEPT ![p] = head]
  /\ head' = node[p]
  /\ chain' = Append(chain, node[p])
  /\ pc' = [pc EXCEPT ![p] = "link"]
  /\ UNCHANGED <<tail, next, data, heap, node, consumerVars>>

(* Mutant: the new node is linked behind the tail, not behind prevHead.     *)
LinkAtTail(p) ==
  /\ pc[p] = "link"
  /\ next' = [next EXCEPT ![tail] = node[p]]
  /\ node' = [node EXCEPT ![p] = Null]
  /\ prev' = [prev EXCEPT ![p] = Null]
  /\ pc' = [pc EXCEPT ![p] = "idle"]
  /\ UNCHANGED <<head, tail, data, heap, consumerVars, chain>>

(* Mutant: the second store is forgotten.                                  *)
LinkNothing(p) ==
  /\ pc[p] = "link"
  /\ node' = [node EXCEPT ![p] = Null]
  /\ prev' = [prev EXCEPT ![p] = Null]
  /\ pc' = [pc EXCEPT ![p] = "idle"]
  /\ UNCHANGED <<head, tail, next, data, heap, consumerVars, chain>>

(* Enqueue: prevHead->Next.store(node); the locals go out of scope.        *)
Link(p) ==
  /\ pc[p] = "link"
  /\ next' = [next EXCEPT ![prev[p]] = node[p]]
  /\ node' = [node EXCEPT ![p] = Null]
  /\ prev' = [prev EXCEPT ![p] = Null]
  /\ pc' = [pc EXCEPT ![p] = "idle"]
  /\ UNCHANGED <<head, tail, data, heap, consumerVars, chain>>

(* Mutant: the consumer does not test next for nullptr.                    *)
LoadNextUntested ==
  /\ cpc = "idle"
  /\ ctail' = tail
  /\ cnext' = next[tail]
  /\ cpc' = "advance"
  /\ UNCHANGED <<head, tail, next, data, heap, producerVars, result, chain>>

(* Dequeue: load tail and tail->Next; no successor yet means "empty" - even *)
(* when values wait behind a producer that has not linked its own.         *)
LoadNext ==
  /\ cpc = "idle"
  /\ IF next[tail] = Null
     THEN UNCHANGED <<cpc, ctail, cnext>>
     ELSE cpc' = "advance" /\ ctail' = tail /\ cnext' = next[tail]
  /\ UNCHANGED <<head, tail, next, data, heap, producerVars, result, chain>>

(* Dequeue: result = next->Data and _tail.store(next).                     *)
Advance ==
  /\ cpc = "advance"
  /\ result' = data[cnext]
  /\ tail' = cnext
  /\ chain' = Tail(chain)
  /\ cpc' = "delete"
  /\ UNCHANGED <<head, next, data, heap, producerVars, cnext, ctail>>

(* Mutants: the new dummy is deleted, or nothing is.                       *)
DeleteNext ==
  /\ cpc = "delete"
  /\ heap' = heap \ {cnext}
  /\ cpc' = "idle" /\ cnext' = Null /\ ctail' = Null
  /\ UNCHANGED <<head, tail, next, data, producerVars, result, chain>>

DeleteNothing ==
  /\ cpc = "delete"
  /\ cpc' = "idle" /\ cnext' = Null /\ ctail' = Null
  /\ UNCHANGED <<head, tail, next, data, heap, producerVars, result, chain>>

(* Dequeue: delete tail, the old dummy.                                    *)
Delete ==
  /\ cpc = "delete"
  /\ heap' = heap \ {ctail}
  /\ cpc' = "idle" /\ cnext' = Null /\ ctail' = Null
  /\ UNCHANGED <<head, tail, next, data, producerVars, result, chain>>
-----------------------------------------------------------------------------
Next ==
  \/ \E p \in Producers, v \in Values : Allocate(p, v)
  \/ \E p \in Producers : Exchange(p) \/ Link(p)
  \/ LoadNext \/ Advance \/ Delete

Spec == Init /\ [][Next]_vars

(* A thread inside Enqueue is eventually run; the network thread polls.    *)
Fairness ==
  /\ \A p \in Producers : WF_vars(Exchange(p)) /\ WF_vars(Link(p))
  /\ WF_vars(LoadNext) /\ WF_vars(Advance) /\ WF_vars(Delete)

FairSpec == Spec /\ Fairness
-----------------------------------------------------------------------------
(***************************************************************************)
(* No thread touches freed memory: the node a producer is about to link    *)
(* from, the node the consumer reads and the node it is about to delete    *)
(* are allocated.  A producer may stall between the exchange and the link  *)
(* for as long as it likes while others enqueue and the consumer polls.    *)
(***************************************************************************)
NoUseAfterFree ==
  /\ tail \in heap /\ head \in heap
  /\ \A p \in Producers : pc[p] \in {"exchange", "link"} => node[p] \in heap
  /\ \A p \in Producers : pc[p] = "link" => prev[p] \in heap
  /\ cpc = "advance" => cnext \in heap
  /\ cpc = "delete" => ctail \in heap

(***************************************************************************)
(* No node leaks: what is allocated is in the chain, in the hands of a     *)
(* producer that has not exchanged yet, or about to be deleted.            *)
(***************************************************************************)
NoLeak ==
  \A n \in heap :
    \/ \E i \in 1..Len(chain) : chain[i] = n
    \/ \E p \in Producers : pc[p] = "exchange" /\ node[p] = n
    \/ cpc = "delete" /\ ctail = n

(***************************************************************************)
(* The queue is FIFO in the order of the exchanges: what Dequeue returns,  *)
(* read through the pointers, is what the abstract queue hands out, in     *)
(* whatever order the producers get to store their links.                  *)
(***************************************************************************)
Contents == [i \in 1..(Len(chain) - 1) |-> data[chain[i + 1]]]

Fifo == INSTANCE FifoQueue WITH contents <- Contents

ImplementsFifo == Fifo!Spec

(***************************************************************************)
(* Every value that was exchanged in is eventually taken out: a stalled    *)
(* link delays the values behind it but does not lose them.                *)
(***************************************************************************)
EventuallyTaken ==
  \A n \in Nodes :
    (\E i \in 2..Len(chain) : chain[i] = n) ~> ~(\E i \in 2..Len(chain) : chain[i] = n)
-----------------------------------------------------------------------------
(***************************************************************************)
(* The inductive invariant: the pointers follow the history chain.  Between *)
(* two consecutive nodes either the link is stored or the producer of the  *)
(* second one is about to store it; nodes outside the chain are private.   *)
(***************************************************************************)
InChain(n) == \E i \in 1..Len(chain) : chain[i] = n

ChainEnds ==
  /\ Len(chain) >= 1
  /\ chain[1] = tail
  /\ chain[Len(chain)] = head
  /\ next[head] = Null

ChainDistinct ==
  /\ \A i \in 1..Len(chain) : chain[i] \in heap
  /\ \A i, j \in 1..Len(chain) : chain[i] = chain[j] => i = j

ChainLinked ==
  \A i \in 1..(Len(chain) - 1) :
    next[chain[i]] = chain[i + 1] \/ next[chain[i]] = Null

ProducersPrivate ==
  \A p \in Producers : pc[p] = "exchange" =>
    /\ node[p] \in heap
    /\ ~InChain(node[p])
    /\ next[node[p]] = Null
    /\ data[node[p]] \in Values
    /\ \A q \in Producers : pc[q] = "exchange" /\ node[q] = node[p] => q = p

ProducersLinking ==
  \A p \in Producers : pc[p] = "link" =>
    /\ \E i \in 1..(Len(chain) - 1) :
         prev[p] = chain[i] /\ node[p] = chain[i + 1] /\ next[chain[i]] = Null
    /\ \A q \in Producers : pc[q] = "link" /\ prev[q] = prev[p] => q = p

ConsumerLocal ==
  /\ cpc = "advance" => ctail = tail /\ cnext = next[tail] /\ cnext # Null
  /\ cpc = "delete" =>
       /\ ctail \in heap
       /\ ~InChain(ctail)
       /\ \A p \in Producers : pc[p] = "exchange" => node[p] # ctail

ChainValues == \A i \in 2..Len(chain) : data[chain[i]] \in Values

QueueInv ==
  /\ TypeOK
  /\ ChainEnds
  /\ ChainDistinct
  /\ ChainLinked
  /\ ProducersPrivate
  /\ ProducersLinking
  /\ ConsumerLocal
  /\ ChainValues
=============================================================================
