------------------------- MODULE DatabasePoolProofs -------------------------
(* Proofs about DatabasePool for any connections, number and length of     *)
(* transactions and any bounds on the faults.                              *)
EXTENDS DatabasePool, SequenceTheorems, FiniteSetTheorems, TLAPS

USE DatabaseConstants
-----------------------------------------------------------------------------
(* The sequence of the first n statements.                                 *)

LEMMA FirstIsSeq ==
  ASSUME NEW n \in 0..Length
  PROVE  First(n) \in Seq(1..Length) /\ Len(First(n)) = n
  <1>1. First(n) \in [1..n -> 1..Length]
    BY DEF First
  <1>2. QED
    BY <1>1

LEMMA FirstOfNone == First(0) = <<>>
  <1>1. First(0) \in Seq(1..Length) /\ Len(First(0)) = 0
    BY FirstIsSeq
  <1>2. <<>> \in Seq(1..Length) /\ Len(<<>>) = 0
    BY EmptySeq
  <1>3. QED
    BY <1>1, <1>2, SeqEqual

LEMMA FirstGrows ==
  ASSUME NEW n \in 1..Length
  PROVE  Append(First(n - 1), n) = First(n)
  <1> DEFINE s == First(n - 1)
  <1> n - 1 \in 0..Length
    OBVIOUS
  <1>1. s \in Seq(1..Length) /\ Len(s) = n - 1
    BY FirstIsSeq
  <1>2. First(n) \in Seq(1..Length) /\ Len(First(n)) = n
    BY FirstIsSeq
  <1>3. /\ Append(s, n) \in Seq(1..Length)
        /\ Len(Append(s, n)) = Len(s) + 1
        /\ \A i \in 1..Len(s) : Append(s, n)[i] = s[i]
        /\ Append(s, n)[Len(s) + 1] = n
    BY <1>1, AppendProperties
  <1>4. \A i \in 1..n : Append(s, n)[i] = First(n)[i]
    BY <1>1, <1>3 DEF First
  <1>5. QED
    BY <1>1, <1>2, <1>3, <1>4, SeqEqual

LEMMA WholeIsSeq == Whole \in Seq(1..Length) /\ Whole # <<>>
  <1>1. Whole \in Seq(1..Length) /\ Len(Whole) = Length
    BY FirstIsSeq DEF Whole
  <1>2. QED
    BY <1>1, EmptySeq

LEMMA NothingIsOpen ==
  /\ Nothing \in [Transactions -> Seq(1..Length)]
  /\ \A t \in Transactions : Nothing[t] = <<>>
  BY EmptySeq DEF Nothing

(* A worker that is not idle has a transaction, not answered yet.          *)
LEMMA BusyHasTask ==
  ASSUME TypeOK, NEW w \in Workers, at[w] # "idle"
  PROVE  task[w] \in Transactions /\ task[w] <= taken /\ result[task[w]] = "none"
  <1>1. /\ posted \in 0..MaxPosted /\ taken \in 0..posted /\ task[w] \in 0..taken
        /\ task[w] # 0 /\ result[task[w]] = "none"
    BY DEF TypeOK
  <1>2. QED
    BY <1>1 DEF Transactions
-----------------------------------------------------------------------------
(* A step of a busy worker that does not answer its transaction keeps the  *)
(* invariant when it leaves the others alone and, unless the session is    *)
(* lost, brings what Progress asks of the new place.                       *)
LEMMA MoveKeepsInv ==
  ASSUME PoolInv, NEW w \in Workers, at[w] # "idle",
         NEW place \in Places \ {"idle"},
         at' = [at EXCEPT ![w] = place],
         UNCHANGED <<workers, pool, posted, taken, task, result>>,
         step' \in [Workers -> 1..Length],
         deadlocked' \in [Workers -> BOOLEAN],
         retrier' \in Workers \cup {NoWorker},
         inTransaction' \in [Workers -> BOOLEAN],
         open' \in [Workers -> [Transactions -> Seq(1..Length)]],
         stored' \in [Transactions -> Seq(1..Length)],
         history' \in Seq(SUBSET Transactions),
         failures' \in Nat, losses' \in Nat,
         lost \subseteq lost', dropped \subseteq dropped',
         lost' \subseteq lost \cup {task[w]}, dropped' \subseteq dropped \cup {task[w]},
         \A v \in Workers \ {w} :
           /\ step'[v] = step[v]
           /\ inTransaction'[v] = inTransaction[v] /\ open'[v] = open[v],
         ~inTransaction'[w] => open'[w] = Nothing,
         \A t \in Transactions \ dropped' :
           open'[w][t] # <<>> =>
             place \in {"statement", "commit", "rollback"} /\ t = task[w],
         \A t \in Transactions \ Excused : t # task[w] => stored'[t] = stored[t],
         task[w] \notin Excused' =>
           /\ stored'[task[w]] \in {<<>>, Whole}
           /\ place \in {"begin", "rollback", "failed"} => BeforeStatements(w)'
           /\ place = "statement" => AmongStatements(w)'
           /\ place = "commit" => AfterStatements(w)'
  PROVE  PoolInv'
  <1> USE DEF PoolInv
  <1>1. task[w] \in Transactions /\ task[w] <= taken /\ result[task[w]] = "none"
    BY BusyHasTask
  <1>2. at'[w] = place /\ \A v \in Workers \ {w} : at'[v] = at[v]
    BY DEF TypeOK
  <1>3. TypeOK'
    <2>1. at' \in [Workers -> Places]
      BY DEF TypeOK
    <2>2. \A v \in Workers : at'[v] # "idle" => task'[v] # 0 /\ result'[task'[v]] = "none"
      BY <1>1, <1>2 DEF TypeOK, Transactions
    <2>3. lost' \subseteq Transactions /\ dropped' \subseteq Transactions
      BY <1>1 DEF TypeOK
    <2>4. QED
      BY <2>1, <2>2, <2>3 DEF TypeOK
  <1>4. Untaken'
    <2> SUFFICES ASSUME NEW t \in Transactions, t > taken
                 PROVE  result[t] = "none" /\ stored'[t] = <<>> /\ t \notin Excused'
      BY DEF Untaken
    <2>1. result[t] = "none" /\ stored[t] = <<>> /\ t \notin Excused
      BY DEF Untaken
    <2>2. t \in Nat /\ taken \in Nat /\ task[w] \in Nat
      BY <1>1 DEF TypeOK, Transactions
    <2>3. t # task[w]
      BY <1>1, <2>2
    <2>4. QED
      BY <2>1, <2>3 DEF Excused
  <1>5. TasksDistinct'
    BY <1>2 DEF TasksDistinct
  <1>6. Progress'
    <2> SUFFICES ASSUME NEW v \in Workers, at'[v] # "idle", task[v] \notin Excused'
                 PROVE  /\ at'[v] \in {"begin", "rollback", "failed"} =>
                             BeforeStatements(v)'
                        /\ at'[v] = "statement" => AmongStatements(v)'
                        /\ at'[v] = "commit" => AfterStatements(v)'
      BY DEF Progress
    <2>1. CASE v = w
      BY <2>1, <1>2
    <2>2. CASE v # w
      <3>1. at'[v] = at[v] /\ task[v] \in Transactions /\ task[v] # task[w]
        BY <2>2, <1>2, BusyHasTask DEF TasksDistinct
      <3>2. task[v] \notin Excused /\ stored'[task[v]] = stored[task[v]]
        BY <3>1 DEF Excused
      <3>3. /\ at[v] \in {"begin", "rollback", "failed"} => BeforeStatements(v)
            /\ at[v] = "statement" => AmongStatements(v)
            /\ at[v] = "commit" => AfterStatements(v)
        BY <3>1, <3>2 DEF Progress
      <3>4. QED
        BY <2>2, <3>1, <3>2, <3>3
           DEF BeforeStatements, AmongStatements, AfterStatements
    <2>3. QED
      BY <2>1, <2>2
  <1>7. OpenIsOwn'
    <2> SUFFICES ASSUME NEW v \in Workers
                 PROVE  /\ ~inTransaction'[v] => open'[v] = Nothing
                        /\ \A t \in Transactions \ dropped' :
                             open'[v][t] # <<>> =>
                               /\ at'[v] \in {"statement", "commit", "rollback"}
                               /\ t = task[v]
      BY DEF OpenIsOwn, Nothing
    <2>1. CASE v = w
      BY <2>1, <1>2
    <2>2. CASE v # w
      <3>1. /\ ~inTransaction[v] => open[v] = Nothing
            /\ \A t \in Transactions \ dropped :
                 open[v][t] # <<>> =>
                   at[v] \in {"statement", "commit", "rollback"} /\ t = task[v]
        BY DEF OpenIsOwn
      <3>2. QED
        BY <2>2, <1>2, <3>1
    <2>3. QED
      BY <2>1, <2>2
  <1>8. AtomicUnlessLost'
    <2>1. \A t \in Transactions : t \notin Excused' => t \notin Excused
      BY DEF Excused
    <2>2. QED
      BY <1>1, <2>1 DEF AtomicUnlessLost
  <1>9. QED
    BY <1>3, <1>4, <1>5, <1>6, <1>7, <1>8

(* So does a step that answers it, when the database agrees.               *)
LEMMA AnswerKeepsInv ==
  ASSUME PoolInv, NEW w \in Workers, at[w] # "idle",
         NEW outcome \in {"done", "failed"},
         Finish(w, outcome),
         UNCHANGED <<workers, pool, posted, task, step, deadlocked>>,
         failures' \in Nat, losses' = losses, lost' = lost,
         dropped \subseteq dropped', dropped' \subseteq dropped \cup {task[w]},
         inTransaction' \in [Workers -> BOOLEAN],
         open' \in [Workers -> [Transactions -> Seq(1..Length)]],
         stored' \in [Transactions -> Seq(1..Length)],
         history' \in Seq(SUBSET Transactions),
         \A v \in Workers \ {w} :
           inTransaction'[v] = inTransaction[v] /\ open'[v] = open[v],
         ~inTransaction'[w] => open'[w] = Nothing,
         \A t \in Transactions \ dropped' : open'[w][t] = <<>>,
         \A t \in Transactions \ Excused : t # task[w] => stored'[t] = stored[t],
         task[w] \notin Excused' =>
           stored'[task[w]] = IF outcome = "done" THEN Whole ELSE <<>>
  PROVE  PoolInv'
  <1> USE DEF PoolInv
  <1>1. task[w] \in Transactions /\ task[w] <= taken
    BY BusyHasTask
  <1>2. /\ at' = [at EXCEPT ![w] = "idle"]
        /\ result' = [result EXCEPT ![task[w]] = outcome]
        /\ retrier' = IF retrier = w THEN NoWorker ELSE retrier
        /\ taken' = taken
        /\ UNCHANGED <<workers, pool, posted, task, step, deadlocked, losses, lost>>
    BY DEF Finish, Goto
  <1>3. at'[w] = "idle" /\ \A v \in Workers \ {w} : at'[v] = at[v]
    BY <1>2 DEF TypeOK
  <1>4. result'[task[w]] = outcome /\ \A t \in Transactions \ {task[w]} : result'[t] = result[t]
    BY <1>1, <1>2 DEF TypeOK
  <1>5. \A v \in Workers :
          at'[v] # "idle" => at[v] # "idle" /\ task[v] \in Transactions \ {task[w]}
    <2> SUFFICES ASSUME NEW v \in Workers, at'[v] # "idle"
                 PROVE  at[v] # "idle" /\ task[v] \in Transactions \ {task[w]}
      OBVIOUS
    <2>1. v # w /\ at[v] # "idle"
      BY <1>3
    <2>2. QED
      BY <2>1, BusyHasTask DEF TasksDistinct
  <1>6. TypeOK'
    <2>1. at' \in [Workers -> Places] /\ retrier' \in Workers \cup {NoWorker}
      BY <1>2 DEF TypeOK, Places
    <2>2. result' \in [Transactions -> {"none", "done", "failed"}]
      BY <1>2 DEF TypeOK
    <2>3. \A v \in Workers : at'[v] # "idle" => task'[v] # 0 /\ result'[task'[v]] = "none"
      BY <1>2, <1>4, <1>5 DEF TypeOK, Transactions
    <2>4. /\ workers' \subseteq Workers /\ pool' \in {"open", "stopped", "closed", "aborted"}
          /\ posted' \in 0..MaxPosted /\ taken' \in 0..posted'
          /\ task' \in [Workers -> 0..taken'] /\ step' \in [Workers -> 1..Length]
          /\ deadlocked' \in [Workers -> BOOLEAN]
          /\ losses' \in Nat /\ lost' \subseteq Transactions
          /\ dropped' \subseteq Transactions
      BY <1>1, <1>2 DEF TypeOK
    <2>5. QED
      BY <2>1, <2>2, <2>3, <2>4 DEF TypeOK
  <1>7. Untaken'
    <2> SUFFICES ASSUME NEW t \in Transactions, t > taken'
                 PROVE  result'[t] = "none" /\ stored'[t] = <<>> /\ t \notin Excused'
      BY DEF Untaken
    <2>1. t > taken /\ t # task[w]
      BY <1>1, <1>2 DEF TypeOK, Transactions
    <2>2. result[t] = "none" /\ stored[t] = <<>> /\ t \notin Excused
      BY <2>1 DEF Untaken
    <2>3. QED
      BY <2>1, <2>2, <1>2, <1>4 DEF Excused
  <1>8. TasksDistinct'
    BY <1>2, <1>3 DEF TasksDistinct
  <1>9. Progress'
    <2> SUFFICES ASSUME NEW v \in Workers, at'[v] # "idle", task[v] \notin Excused'
                 PROVE  /\ at'[v] \in {"begin", "rollback", "failed"} =>
                             BeforeStatements(v)'
                        /\ at'[v] = "statement" => AmongStatements(v)'
                        /\ at'[v] = "commit" => AfterStatements(v)'
      BY <1>2 DEF Progress
    <2>1. /\ v # w /\ at'[v] = at[v] /\ task[v] \notin Excused
          /\ stored'[task[v]] = stored[task[v]]
      BY <1>2, <1>3, <1>5 DEF Excused
    <2>2. /\ at[v] \in {"begin", "rollback", "failed"} => BeforeStatements(v)
          /\ at[v] = "statement" => AmongStatements(v)
          /\ at[v] = "commit" => AfterStatements(v)
      BY <2>1 DEF Progress
    <2>3. QED
      BY <2>1, <2>2 DEF BeforeStatements, AmongStatements, AfterStatements
  <1>10. OpenIsOwn'
    <2> SUFFICES ASSUME NEW v \in Workers
                 PROVE  /\ ~inTransaction'[v] => open'[v] = Nothing
                        /\ \A t \in Transactions \ dropped' :
                             open'[v][t] # <<>> =>
                               /\ at'[v] \in {"statement", "commit", "rollback"}
                               /\ t = task[v]
      BY <1>2 DEF OpenIsOwn, Nothing
    <2>1. CASE v = w
      BY <2>1
    <2>2. CASE v # w
      <3>1. /\ ~inTransaction[v] => open[v] = Nothing
            /\ \A t \in Transactions \ dropped :
                 open[v][t] # <<>> =>
                   at[v] \in {"statement", "commit", "rollback"} /\ t = task[v]
        BY DEF OpenIsOwn
      <3>2. QED
        BY <2>2, <1>3, <3>1
    <2>3. QED
      BY <2>1, <2>2
  <1>11. AtomicUnlessLost'
    <2>1. \A t \in Transactions : t \notin Excused' => t \notin Excused
      BY <1>2 DEF Excused
    <2>2. QED
      BY <2>1, <1>1, <1>4, WholeIsSeq DEF AtomicUnlessLost
  <1>12. QED
    BY <1>6, <1>7, <1>8, <1>9, <1>10, <1>11
-----------------------------------------------------------------------------
LEMMA InitInv == Init => PoolInv
  <1> SUFFICES ASSUME Init PROVE PoolInv
    OBVIOUS
  <1>1. \A t \in Transactions :
          result[t] = "none" /\ stored[t] = <<>> /\ t \notin Excused
    BY DEF Init, Nothing, Excused
  <1>2. \A w \in Workers : at[w] = "idle"
    BY DEF Init
  <1>3. TypeOK
    <2>1. open \in [Workers -> [Transactions -> Seq(1..Length)]] /\ stored \in [Transactions -> Seq(1..Length)]
      BY NothingIsOpen DEF Init
    <2>2. history \in Seq(SUBSET Transactions)
      BY EmptySeq DEF Init
    <2>3. at \in [Workers -> Places]
      BY DEF Init, Places
    <2>4. QED
      BY <1>2, <2>1, <2>2, <2>3 DEF Init, TypeOK
  <1>4. Untaken /\ TasksDistinct /\ Progress
    BY <1>1, <1>2 DEF Untaken, TasksDistinct, Progress
  <1>5. OpenIsOwn
    BY DEF Init, OpenIsOwn, Nothing
  <1>6. AtomicUnlessLost
    BY <1>1 DEF AtomicUnlessLost
  <1>7. QED
    BY <1>3, <1>4, <1>5, <1>6 DEF PoolInv

LEMMA TakeKeepsInv ==
  ASSUME PoolInv, NEW w \in Workers, Take(w)
  PROVE  PoolInv'
  <1> USE DEF PoolInv
  <1>1. /\ at[w] = "idle" /\ taken < posted /\ taken' = taken + 1
        /\ task' = [task EXCEPT ![w] = taken + 1]
        /\ deadlocked' = [deadlocked EXCEPT ![w] = FALSE]
        /\ at' = [at EXCEPT ![w] = "begin"]
        /\ UNCHANGED <<workers, pool, posted, step, retrier, inTransaction, open, stored,
                       history, failures, losses, lost, dropped, result>>
    BY DEF Take, Goto, serverVars, faultVars
  <1>2. taken + 1 \in Transactions /\ taken + 1 > taken /\ taken \in Nat
    BY <1>1 DEF TypeOK, Transactions
  <1>3. /\ at'[w] = "begin" /\ task'[w] = taken + 1
        /\ \A v \in Workers \ {w} : at'[v] = at[v] /\ task'[v] = task[v]
    BY <1>1 DEF TypeOK
  <1>4. result[taken + 1] = "none" /\ stored[taken + 1] = <<>> /\ taken + 1 \notin Excused
    BY <1>2 DEF Untaken
  <1>5. TypeOK'
    <2>1. at' \in [Workers -> Places] /\ task' \in [Workers -> 0..taken']
      BY <1>1, <1>2 DEF TypeOK, Places
    <2>2. \A v \in Workers : at'[v] # "idle" => task'[v] # 0 /\ result'[task'[v]] = "none"
      BY <1>1, <1>2, <1>3, <1>4 DEF TypeOK
    <2>3. taken' \in 0..posted' /\ deadlocked' \in [Workers -> BOOLEAN]
      BY <1>1 DEF TypeOK
    <2>4. QED
      BY <1>1, <2>1, <2>2, <2>3 DEF TypeOK
  <1>6. Untaken'
    <2> SUFFICES ASSUME NEW t \in Transactions, t > taken'
                 PROVE  result[t] = "none" /\ stored[t] = <<>> /\ t \notin Excused
      BY <1>1 DEF Untaken, Excused
    <2>1. t > taken
      BY <1>1, <1>2 DEF Transactions
    <2>2. QED
      BY <2>1 DEF Untaken
  <1>7. TasksDistinct'
    <2> SUFFICES ASSUME NEW u \in Workers, NEW v \in Workers,
                        at'[u] # "idle", at'[v] # "idle", u # v
                 PROVE  task'[u] # task'[v]
      BY DEF TasksDistinct
    <2>1. \A x \in Workers \ {w} : task[x] # taken + 1
      BY <1>2 DEF TypeOK
    <2>2. QED
      BY <1>3, <2>1 DEF TasksDistinct
  <1>8. Progress'
    <2> SUFFICES ASSUME NEW v \in Workers, at'[v] # "idle", task'[v] \notin Excused
                 PROVE  /\ at'[v] \in {"begin", "rollback", "failed"} =>
                             BeforeStatements(v)'
                        /\ at'[v] = "statement" => AmongStatements(v)'
                        /\ at'[v] = "commit" => AfterStatements(v)'
      BY <1>1 DEF Progress, Excused
    <2>1. CASE v = w
      BY <2>1, <1>1, <1>3, <1>4 DEF BeforeStatements
    <2>2. CASE v # w
      BY <2>2, <1>1, <1>3
         DEF Progress, BeforeStatements, AmongStatements, AfterStatements
    <2>3. QED
      BY <2>1, <2>2
  <1>9. OpenIsOwn'
    <2>1. ASSUME NEW v \in Workers, NEW t \in Transactions \ dropped, open[v][t] # <<>>
          PROVE  at'[v] \in {"statement", "commit", "rollback"} /\ t = task'[v]
      <3>1. at[v] \in {"statement", "commit", "rollback"} /\ t = task[v]
        BY <2>1 DEF OpenIsOwn
      <3>2. QED
        BY <3>1, <1>1, <1>3
    <2>2. QED
      BY <2>1, <1>1 DEF OpenIsOwn
  <1>10. AtomicUnlessLost'
    BY <1>1 DEF AtomicUnlessLost, Excused
  <1>11. QED
    BY <1>5, <1>6, <1>7, <1>8, <1>9, <1>10

(* What the server does when it keeps a transaction's work: nothing to any *)
(* transaction that is not excused but the worker's own at its COMMIT.     *)
LEMMA KeepChanges ==
  ASSUME PoolInv, NEW w \in Workers, at[w] \in {"begin", "commit"}, Keep(w)
  PROVE  /\ stored' \in [Transactions -> Seq(1..Length)]
         /\ history' \in Seq(SUBSET Transactions)
         /\ \A t \in Transactions \ Excused :
              t # task[w] \/ at[w] = "begin" => stored'[t] = stored[t]
         /\ at[w] = "commit" /\ task[w] \notin Excused => stored'[task[w]] = Whole
  <1>1. TypeOK /\ Progress /\ OpenIsOwn /\ task[w] \in Transactions
    BY BusyHasTask DEF PoolInv
  <1>2. at[w] = "commit" /\ task[w] \notin Excused => AfterStatements(w)
    BY <1>1 DEF Progress
  <1>3. CASE inTransaction[w]
    <2> DEFINE kept(t) == stored[t] \o open[w][t]
               changed == {t \in Transactions : open[w][t] # <<>>}
    <2>1. stored' = [t \in Transactions |-> kept(t)] /\ history' = Append(history, changed)
      BY <1>3 DEF Keep
    <2>2. history \in Seq(SUBSET Transactions) /\ changed \in SUBSET Transactions
      BY <1>1 DEF TypeOK
    <2>3. ASSUME NEW t \in Transactions PROVE kept(t) \in Seq(1..Length)
      <3>1. stored[t] \in Seq(1..Length) /\ open[w][t] \in Seq(1..Length)
        BY <1>1 DEF TypeOK
      <3>2. QED
        BY <3>1, ConcatProperties
    <2>4. ASSUME NEW t \in Transactions \ Excused, t # task[w] \/ at[w] = "begin"
          PROVE  kept(t) = stored[t]
      <3>1. open[w][t] = <<>>
        BY <1>1, <2>4 DEF OpenIsOwn, Excused
      <3>2. stored[t] \in Seq(1..Length)
        BY <1>1 DEF TypeOK
      <3>3. stored[t] \o <<>> = stored[t]
        BY <3>2, ConcatEmptySeq
      <3>4. QED
        BY <3>1, <3>3
    <2>5. ASSUME at[w] = "commit", task[w] \notin Excused PROVE kept(task[w]) = Whole
      <3>1. open[w][task[w]] = Whole /\ stored[task[w]] = <<>>
        BY <1>2, <1>3, <2>5 DEF AfterStatements
      <3>2. <<>> \o Whole = Whole
        BY WholeIsSeq, ConcatEmptySeq
      <3>3. QED
        BY <3>1, <3>2
    <2>6. history' \in Seq(SUBSET Transactions)
      <3> HIDE DEF changed
      <3>1. QED
        BY <2>1, <2>2, AppendProperties
    <2> HIDE DEF kept
    <2>7. QED
      BY <1>1, <2>1, <2>3, <2>4, <2>5, <2>6
  <1>4. CASE ~inTransaction[w]
    <2>1. stored' = stored /\ history' = history
      BY <1>4 DEF Keep
    <2>2. at[w] = "commit" /\ task[w] \notin Excused => stored[task[w]] = Whole
      BY <1>2, <1>4 DEF AfterStatements
    <2>3. QED
      BY <1>1, <2>1, <2>2 DEF TypeOK
  <1>5. QED
    BY <1>3, <1>4

(* ExecuteDeadlock and EndTransaction end w's transaction.                 *)
LEMMA EndedTransaction ==
  ASSUME TypeOK, NEW w \in Workers,
         inTransaction' = [inTransaction EXCEPT ![w] = FALSE],
         open' = [open EXCEPT ![w] = Nothing]
  PROVE  /\ inTransaction' \in [Workers -> BOOLEAN]
         /\ open' \in [Workers -> [Transactions -> Seq(1..Length)]]
         /\ ~inTransaction'[w]
         /\ open'[w] = Nothing /\ \A t \in Transactions : open'[w][t] = <<>>
         /\ \A v \in Workers \ {w} :
              inTransaction'[v] = inTransaction[v] /\ open'[v] = open[v]
  <1>1. inTransaction \in [Workers -> BOOLEAN]
        /\ open \in [Workers -> [Transactions -> Seq(1..Length)]]
    BY DEF TypeOK
  <1>2. QED
    BY <1>1, NothingIsOpen

LEMMA BeginTransactionKeepsInv ==
  ASSUME PoolInv, NEW w \in Workers, BeginTransaction(w)
  PROVE  PoolInv'
  <1>1. /\ at[w] = "begin" /\ at' = [at EXCEPT ![w] = "statement"] /\ Keep(w)
        /\ inTransaction' = [inTransaction EXCEPT ![w] = TRUE]
        /\ open' = [open EXCEPT ![w] = Nothing]
        /\ step' = [step EXCEPT ![w] = 1]
        /\ UNCHANGED <<workers, pool, posted, taken, task, deadlocked, retrier, failures,
                       losses, lost, dropped, result>>
    BY DEF BeginTransaction, Goto, poolVars, faultVars
  <1>2. TypeOK /\ Progress /\ AtomicUnlessLost
    BY DEF PoolInv
  <1>3. task[w] \in Transactions
    BY <1>1, <1>2, BusyHasTask
  <1>4. /\ step' \in [Workers -> 1..Length] /\ inTransaction' \in [Workers -> BOOLEAN]
        /\ step'[w] = 1 /\ inTransaction'[w]
        /\ \A v \in Workers \ {w} :
             step'[v] = step[v] /\ inTransaction'[v] = inTransaction[v]
    BY <1>1, <1>2 DEF TypeOK
  <1>5. /\ open' \in [Workers -> [Transactions -> Seq(1..Length)]]
        /\ \A t \in Transactions : open'[w][t] = <<>>
        /\ \A v \in Workers \ {w} : open'[v] = open[v]
    BY <1>1, <1>2, NothingIsOpen DEF TypeOK
  <1>6. /\ stored' \in [Transactions -> Seq(1..Length)]
        /\ history' \in Seq(SUBSET Transactions)
        /\ \A t \in Transactions \ Excused : stored'[t] = stored[t]
    BY <1>1, KeepChanges
  <1>7. Excused' = Excused
    BY <1>1 DEF Excused
  <1>8. task[w] \notin Excused => stored'[task[w]] = <<>>
    BY <1>1, <1>2, <1>3, <1>6 DEF Progress, BeforeStatements
  <1>9. task[w] \notin Excused => AmongStatements(w)'
    BY <1>1, <1>3, <1>4, <1>5, <1>8, FirstOfNone DEF AmongStatements
  <1>10. "statement" \in Places \ {"idle"}
    BY DEF Places
  <1>11. /\ deadlocked' \in [Workers -> BOOLEAN] /\ retrier' \in Workers \cup {NoWorker}
         /\ failures' \in Nat /\ losses' \in Nat
    BY <1>1, <1>2 DEF TypeOK
  <1>12. QED
    BY <1>1, <1>4, <1>5, <1>6, <1>7, <1>8, <1>9, <1>10, <1>11, MoveKeepsInv

LEMMA BeginDroppedKeepsInv ==
  ASSUME PoolInv, NEW w \in Workers, BeginDropped(w)
  PROVE  PoolInv'
  <1>1. /\ at[w] = "begin" /\ at' = [at EXCEPT ![w] = "statement"]
        /\ failures' = failures + 1 /\ dropped' = dropped \cup {task[w]}
        /\ step' = [step EXCEPT ![w] = 1]
        /\ UNCHANGED <<workers, pool, posted, taken, task, deadlocked, retrier,
                       inTransaction, open, stored, history, losses, lost, result>>
    BY DEF BeginDropped, Goto, poolVars, serverVars
  <1>2. TypeOK /\ OpenIsOwn
    BY DEF PoolInv
  <1>3. /\ step' \in [Workers -> 1..Length] /\ failures' \in Nat
        /\ \A v \in Workers \ {w} : step'[v] = step[v]
    BY <1>1, <1>2 DEF TypeOK
  <1>4. task[w] \in Excused'
    BY <1>1 DEF Excused
  <1>5. /\ ~inTransaction'[w] => open'[w] = Nothing
        /\ \A t \in Transactions \ dropped' : open'[w][t] = <<>>
    BY <1>1, <1>2 DEF OpenIsOwn
  <1>6. "statement" \in Places \ {"idle"}
    BY DEF Places
  <1>7. /\ deadlocked' \in [Workers -> BOOLEAN] /\ retrier' \in Workers \cup {NoWorker}
        /\ losses' \in Nat /\ inTransaction' \in [Workers -> BOOLEAN]
        /\ open' \in [Workers -> [Transactions -> Seq(1..Length)]]
        /\ stored' \in [Transactions -> Seq(1..Length)]
        /\ history' \in Seq(SUBSET Transactions)
    BY <1>1, <1>2 DEF TypeOK
  <1>8. QED
    BY <1>1, <1>3, <1>4, <1>5, <1>6, <1>7, MoveKeepsInv

(* Execute and LoseAnswer: what the server does with the statement.        *)
LEMMA ApplyChanges ==
  ASSUME PoolInv, NEW w \in Workers, at[w] = "statement", Apply(w)
  PROVE  /\ open' \in [Workers -> [Transactions -> Seq(1..Length)]]
         /\ stored' \in [Transactions -> Seq(1..Length)]
         /\ history' \in Seq(SUBSET Transactions)
         /\ \A v \in Workers \ {w} : open'[v] = open[v]
         /\ \A t \in Transactions \ {task[w]} :
              stored'[t] = stored[t] /\ open'[w][t] = open[w][t]
         /\ ~inTransaction[w] => open'[w] = Nothing
         /\ task[w] \notin Excused =>
              open'[w][task[w]] = First(step[w]) /\ stored'[task[w]] = <<>>
  <1>1. /\ TypeOK /\ Progress /\ OpenIsOwn
        /\ task[w] \in Transactions /\ step[w] \in 1..Length
    BY BusyHasTask DEF PoolInv, TypeOK
  <1>2. CASE inTransaction[w]
    <2> DEFINE longer == Append(open[w][task[w]], step[w])
    <2>1. open' = [open EXCEPT ![w][task[w]] = longer]
          /\ stored' = stored /\ history' = history
      BY <1>2 DEF Apply
    <2>2. open \in [Workers -> [Transactions -> Seq(1..Length)]]
      BY <1>1 DEF TypeOK
    <2>3. longer \in Seq(1..Length)
      BY <1>1, <2>2, AppendProperties
    <2>4. task[w] \notin Excused =>
            open[w][task[w]] = First(step[w] - 1) /\ stored[task[w]] = <<>>
      BY <1>1 DEF Progress, AmongStatements
    <2>5. Append(First(step[w] - 1), step[w]) = First(step[w])
      BY <1>1, FirstGrows
    <2>6. task[w] \notin Excused => longer = First(step[w])
      BY <2>4, <2>5
    <2> HIDE DEF longer
    <2>7. /\ open' \in [Workers -> [Transactions -> Seq(1..Length)]]
          /\ open'[w][task[w]] = longer
          /\ \A v \in Workers \ {w} : open'[v] = open[v]
          /\ \A t \in Transactions \ {task[w]} : open'[w][t] = open[w][t]
      BY <1>1, <2>1, <2>2, <2>3
    <2>8. stored' \in [Transactions -> Seq(1..Length)] /\ history' \in Seq(SUBSET Transactions)
      BY <1>1, <2>1 DEF TypeOK
    <2>9. QED
      BY <1>2, <2>1, <2>4, <2>6, <2>7, <2>8
  <1>3. CASE ~inTransaction[w]
    <2>1. /\ stored' = [stored EXCEPT ![task[w]] = Append(stored[task[w]], step[w])]
          /\ history' = Append(history, {task[w]}) /\ open' = open
      BY <1>3 DEF Apply
    <2>2. task[w] \in Excused
      BY <1>1, <1>3 DEF Progress, AmongStatements
    <2>3. stored[task[w]] \in Seq(1..Length) /\ history \in Seq(SUBSET Transactions)
      BY <1>1 DEF TypeOK
    <2>4. Append(stored[task[w]], step[w]) \in Seq(1..Length)
      BY <1>1, <2>3, AppendProperties
    <2>5. history' \in Seq(SUBSET Transactions)
      BY <1>1, <2>1, <2>3, AppendProperties
    <2>6. stored' \in [Transactions -> Seq(1..Length)]
      BY <1>1, <2>1, <2>4 DEF TypeOK
    <2>7. \A t \in Transactions \ {task[w]} : stored'[t] = stored[t]
      BY <1>1, <2>1 DEF TypeOK
    <2>8. open'[w] = Nothing
      BY <1>1, <1>3, <2>1 DEF OpenIsOwn
    <2>9. open' \in [Workers -> [Transactions -> Seq(1..Length)]]
      BY <1>1, <2>1 DEF TypeOK
    <2>10. QED
      BY <2>1, <2>2, <2>5, <2>6, <2>7, <2>8, <2>9
  <1>4. QED
    BY <1>2, <1>3

LEMMA ExecuteKeepsInv ==
  ASSUME PoolInv, NEW w \in Workers, Execute(w)
  PROVE  PoolInv'
  <1> DEFINE place == IF step[w] < Length THEN "statement" ELSE "commit"
  <1>1. /\ at[w] = "statement" /\ Apply(w)
        /\ UNCHANGED <<workers, pool, posted, taken, task, deadlocked, retrier,
                       inTransaction, failures, losses, lost, dropped, result>>
    BY DEF Execute, poolVars, faultVars
  <1>2. TypeOK /\ Progress /\ OpenIsOwn /\ step[w] \in 1..Length
    BY DEF PoolInv, TypeOK
  <1>3. /\ at' = [at EXCEPT ![w] = place]
        /\ step' = IF step[w] < Length THEN [step EXCEPT ![w] = step[w] + 1] ELSE step
    <2>1. CASE step[w] < Length
      <3>1. at' = at /\ [at EXCEPT ![w] = "statement"] = at
        BY <2>1, <1>1, <1>2 DEF Execute, TypeOK
      <3>2. QED
        BY <2>1, <3>1 DEF Execute
    <2>2. CASE ~(step[w] < Length)
      BY <2>2 DEF Execute, Goto
    <2>3. QED
      BY <2>1, <2>2
  <1>4. /\ step' \in [Workers -> 1..Length] /\ \A v \in Workers \ {w} : step'[v] = step[v]
        /\ step[w] < Length => step'[w] - 1 = step[w]
        /\ ~(step[w] < Length) => step[w] = Length
    <2>1. CASE step[w] < Length
      <3>1. step' = [step EXCEPT ![w] = step[w] + 1] /\ step[w] + 1 \in 1..Length
        BY <2>1, <1>2, <1>3
      <3>2. step' \in [Workers -> 1..Length] /\ step'[w] = step[w] + 1
        BY <3>1, <1>2 DEF TypeOK
      <3>3. \A v \in Workers \ {w} : step'[v] = step[v]
        BY <3>1, <1>2 DEF TypeOK
      <3>4. QED
        BY <2>1, <3>2, <3>3, <1>2
    <2>2. CASE ~(step[w] < Length)
      BY <2>2, <1>2, <1>3 DEF TypeOK
    <2>3. QED
      BY <2>1, <2>2
  <1>5. /\ open' \in [Workers -> [Transactions -> Seq(1..Length)]]
        /\ stored' \in [Transactions -> Seq(1..Length)]
        /\ history' \in Seq(SUBSET Transactions)
        /\ \A v \in Workers \ {w} : open'[v] = open[v]
        /\ \A t \in Transactions \ {task[w]} :
             stored'[t] = stored[t] /\ open'[w][t] = open[w][t]
        /\ ~inTransaction[w] => open'[w] = Nothing
        /\ task[w] \notin Excused =>
             open'[w][task[w]] = First(step[w]) /\ stored'[task[w]] = <<>>
    BY <1>1, ApplyChanges
  <1>6. task[w] \notin Excused => inTransaction[w]
    BY <1>1, <1>2 DEF Progress, AmongStatements
  <1>7. task[w] \notin Excused /\ place = "statement" => AmongStatements(w)'
    BY <1>1, <1>4, <1>5, <1>6 DEF AmongStatements
  <1>8. task[w] \notin Excused /\ place = "commit" => AfterStatements(w)'
    BY <1>1, <1>4, <1>5, <1>6 DEF AfterStatements, Whole
  <1>9. /\ place \in Places \ {"idle"} /\ place \notin {"begin", "rollback", "failed"}
        /\ place \in {"statement", "commit", "rollback"}
    BY DEF Places
  <1>10. Excused' = Excused
    BY <1>1 DEF Excused
  <1>11. \A t \in Transactions \ dropped' : open'[w][t] # <<>> => t = task[w]
    BY <1>1, <1>2, <1>5 DEF OpenIsOwn
  <1>12. /\ deadlocked' \in [Workers -> BOOLEAN] /\ retrier' \in Workers \cup {NoWorker}
         /\ inTransaction' \in [Workers -> BOOLEAN] /\ failures' \in Nat /\ losses' \in Nat
    BY <1>1, <1>2 DEF TypeOK
  <1> HIDE DEF place
  <1>13. QED
    BY <1>1, <1>3, <1>4, <1>5, <1>7, <1>8, <1>9, <1>10, <1>11, <1>12, MoveKeepsInv

LEMMA ExecuteErrorKeepsInv ==
  ASSUME PoolInv, NEW w \in Workers, ExecuteError(w)
  PROVE  PoolInv'
  <1>1. /\ at[w] = "statement" /\ at' = [at EXCEPT ![w] = "rollback"]
        /\ failures' = failures + 1
        /\ deadlocked' = [deadlocked EXCEPT ![w] = FALSE]
        /\ UNCHANGED <<workers, pool, posted, taken, task, step, retrier, inTransaction,
                       open, stored, history, losses, lost, dropped, result>>
    BY DEF ExecuteError, Goto, poolVars, serverVars
  <1>2. TypeOK /\ Progress /\ OpenIsOwn
    BY DEF PoolInv
  <1>3. task[w] \notin Excused => stored[task[w]] = <<>>
    BY <1>1, <1>2 DEF Progress, AmongStatements
  <1>4. Excused' = Excused /\ (task[w] \notin Excused => BeforeStatements(w)')
    BY <1>1, <1>3 DEF BeforeStatements, Excused
  <1>5. /\ ~inTransaction'[w] => open'[w] = Nothing
        /\ \A t \in Transactions \ dropped' : open'[w][t] # <<>> => t = task[w]
    BY <1>1, <1>2 DEF OpenIsOwn
  <1>6. "rollback" \in Places \ {"idle"}
    BY DEF Places
  <1>7. /\ deadlocked' \in [Workers -> BOOLEAN] /\ failures' \in Nat
        /\ step' \in [Workers -> 1..Length] /\ retrier' \in Workers \cup {NoWorker}
        /\ losses' \in Nat /\ inTransaction' \in [Workers -> BOOLEAN]
        /\ open' \in [Workers -> [Transactions -> Seq(1..Length)]]
        /\ stored' \in [Transactions -> Seq(1..Length)]
        /\ history' \in Seq(SUBSET Transactions)
    BY <1>1, <1>2 DEF TypeOK
  <1>8. QED
    BY <1>1, <1>3, <1>4, <1>5, <1>6, <1>7, MoveKeepsInv

LEMMA ExecuteDeadlockKeepsInv ==
  ASSUME PoolInv, NEW w \in Workers, ExecuteDeadlock(w)
  PROVE  PoolInv'
  <1>1. /\ at[w] = "statement" /\ at' = [at EXCEPT ![w] = "rollback"]
        /\ failures' = failures + 1
        /\ deadlocked' = [deadlocked EXCEPT ![w] = TRUE]
        /\ inTransaction' = [inTransaction EXCEPT ![w] = FALSE]
        /\ open' = [open EXCEPT ![w] = Nothing]
        /\ UNCHANGED <<workers, pool, posted, taken, task, step, retrier, stored, history,
                       losses, lost, dropped, result>>
    BY DEF ExecuteDeadlock, Goto, poolVars
  <1>2. TypeOK /\ Progress
    BY DEF PoolInv
  <1>3. task[w] \notin Excused => stored[task[w]] = <<>>
    BY <1>1, <1>2 DEF Progress, AmongStatements
  <1>4. Excused' = Excused /\ (task[w] \notin Excused => BeforeStatements(w)')
    BY <1>1, <1>3 DEF BeforeStatements, Excused
  <1>5. /\ inTransaction' \in [Workers -> BOOLEAN]
        /\ open' \in [Workers -> [Transactions -> Seq(1..Length)]]
        /\ open'[w] = Nothing /\ \A t \in Transactions : open'[w][t] = <<>>
        /\ \A v \in Workers \ {w} :
             inTransaction'[v] = inTransaction[v] /\ open'[v] = open[v]
    BY <1>1, <1>2, EndedTransaction
  <1>6. "rollback" \in Places \ {"idle"}
    BY DEF Places
  <1>7. /\ deadlocked' \in [Workers -> BOOLEAN] /\ failures' \in Nat
        /\ step' \in [Workers -> 1..Length] /\ retrier' \in Workers \cup {NoWorker}
        /\ losses' \in Nat
        /\ stored' \in [Transactions -> Seq(1..Length)]
        /\ history' \in Seq(SUBSET Transactions)
    BY <1>1, <1>2 DEF TypeOK
  <1>8. QED
    BY <1>1, <1>3, <1>4, <1>5, <1>6, <1>7, MoveKeepsInv

LEMMA RollbackTransactionKeepsInv ==
  ASSUME PoolInv, NEW w \in Workers, RollbackTransaction(w)
  PROVE  PoolInv'
  <1>1. /\ at[w] = "rollback" /\ at' = [at EXCEPT ![w] = "failed"]
        /\ inTransaction' = [inTransaction EXCEPT ![w] = FALSE]
        /\ open' = [open EXCEPT ![w] = Nothing]
        /\ UNCHANGED <<workers, pool, posted, taken, task, step, deadlocked, retrier, stored,
                       history, failures, losses, lost, dropped, result>>
    BY DEF RollbackTransaction, EndTransaction, Goto, poolVars, faultVars
  <1>2. TypeOK /\ Progress
    BY DEF PoolInv
  <1>3. task[w] \notin Excused => stored[task[w]] = <<>>
    BY <1>1, <1>2 DEF Progress, BeforeStatements
  <1>4. Excused' = Excused /\ (task[w] \notin Excused => BeforeStatements(w)')
    BY <1>1, <1>3 DEF BeforeStatements, Excused
  <1>5. /\ inTransaction' \in [Workers -> BOOLEAN]
        /\ open' \in [Workers -> [Transactions -> Seq(1..Length)]]
        /\ open'[w] = Nothing /\ \A t \in Transactions : open'[w][t] = <<>>
        /\ \A v \in Workers \ {w} :
             inTransaction'[v] = inTransaction[v] /\ open'[v] = open[v]
    BY <1>1, <1>2, EndedTransaction
  <1>6. "failed" \in Places \ {"idle"}
    BY DEF Places
  <1>7. /\ deadlocked' \in [Workers -> BOOLEAN] /\ failures' \in Nat
        /\ step' \in [Workers -> 1..Length] /\ retrier' \in Workers \cup {NoWorker}
        /\ losses' \in Nat
        /\ stored' \in [Transactions -> Seq(1..Length)]
        /\ history' \in Seq(SUBSET Transactions)
    BY <1>1, <1>2 DEF TypeOK
  <1>8. QED
    BY <1>1, <1>3, <1>4, <1>5, <1>6, <1>7, MoveKeepsInv

(* What a ROLLBACK or COMMIT that fails leaves open is excused.            *)
LEMMA DroppedChanges ==
  ASSUME PoolInv, NEW w \in Workers, at[w] \in {"rollback", "commit"},
         dropped' = IF inTransaction[w] THEN dropped \cup {task[w]} ELSE dropped
  PROVE  /\ dropped \subseteq dropped' /\ dropped' \subseteq dropped \cup {task[w]}
         /\ \A t \in Transactions \ dropped' : open[w][t] = <<>>
  <1>1. OpenIsOwn
    BY DEF PoolInv
  <1>2. CASE inTransaction[w]
    BY <1>1, <1>2 DEF OpenIsOwn
  <1>3. CASE ~inTransaction[w]
    BY <1>1, <1>3, NothingIsOpen DEF OpenIsOwn
  <1>4. QED
    BY <1>2, <1>3

LEMMA RollbackDroppedKeepsInv ==
  ASSUME PoolInv, NEW w \in Workers, RollbackDropped(w)
  PROVE  PoolInv'
  <1>1. /\ at[w] = "rollback" /\ at' = [at EXCEPT ![w] = "failed"]
        /\ failures' = failures + 1
        /\ dropped' = IF inTransaction[w] THEN dropped \cup {task[w]} ELSE dropped
        /\ UNCHANGED <<workers, pool, posted, taken, task, step, deadlocked, retrier,
                       inTransaction, open, stored, history, losses, lost, result>>
    BY DEF RollbackDropped, Goto, poolVars, serverVars
  <1>2. TypeOK /\ Progress /\ OpenIsOwn
    BY DEF PoolInv
  <1>3. /\ dropped \subseteq dropped' /\ dropped' \subseteq dropped \cup {task[w]}
        /\ \A t \in Transactions \ dropped' : open'[w][t] = <<>>
    BY <1>1, DroppedChanges
  <1>4. ~inTransaction'[w] => open'[w] = Nothing
    BY <1>1, <1>2 DEF OpenIsOwn
  <1>5. task[w] \notin Excused' => task[w] \notin Excused
    BY <1>1, <1>3 DEF Excused
  <1>6. task[w] \notin Excused' => stored[task[w]] = <<>>
    BY <1>1, <1>2, <1>5 DEF Progress, BeforeStatements
  <1>7. task[w] \notin Excused' => BeforeStatements(w)'
    BY <1>1, <1>6 DEF BeforeStatements
  <1>8. "failed" \in Places \ {"idle"}
    BY DEF Places
  <1>9. /\ deadlocked' \in [Workers -> BOOLEAN] /\ failures' \in Nat
        /\ step' \in [Workers -> 1..Length] /\ retrier' \in Workers \cup {NoWorker}
        /\ losses' \in Nat /\ inTransaction' \in [Workers -> BOOLEAN]
        /\ open' \in [Workers -> [Transactions -> Seq(1..Length)]]
        /\ stored' \in [Transactions -> Seq(1..Length)]
        /\ history' \in Seq(SUBSET Transactions)
    BY <1>1, <1>2 DEF TypeOK
  <1>10. QED
    BY <1>1, <1>3, <1>4, <1>6, <1>7, <1>8, <1>9, MoveKeepsInv

LEMMA RetryKeepsInv ==
  ASSUME PoolInv, NEW w \in Workers, LockAndRetry(w) \/ RetryAgain(w)
  PROVE  PoolInv'
  <1>1. /\ at[w] = "failed" /\ at' = [at EXCEPT ![w] = "begin"]
        /\ UNCHANGED <<workers, pool, posted, taken, task, step, deadlocked, inTransaction,
                       open, stored, history, failures, losses, lost, dropped, result>>
    BY DEF LockAndRetry, RetryAgain, Goto, poolVars, serverVars, faultVars
  <1>2. TypeOK /\ Progress /\ OpenIsOwn
    BY DEF PoolInv
  <1>3. retrier' \in Workers \cup {NoWorker}
    BY <1>2 DEF LockAndRetry, RetryAgain, TypeOK
  <1>4. task[w] \notin Excused => stored[task[w]] = <<>>
    BY <1>1, <1>2 DEF Progress, BeforeStatements
  <1>5. Excused' = Excused /\ (task[w] \notin Excused => BeforeStatements(w)')
    BY <1>1, <1>4 DEF BeforeStatements, Excused
  <1>6. /\ ~inTransaction'[w] => open'[w] = Nothing
        /\ \A t \in Transactions \ dropped' : open'[w][t] = <<>>
    BY <1>1, <1>2 DEF OpenIsOwn
  <1>7. "begin" \in Places \ {"idle"}
    BY DEF Places
  <1>8. /\ deadlocked' \in [Workers -> BOOLEAN] /\ failures' \in Nat
        /\ step' \in [Workers -> 1..Length]
        /\ losses' \in Nat /\ inTransaction' \in [Workers -> BOOLEAN]
        /\ open' \in [Workers -> [Transactions -> Seq(1..Length)]]
        /\ stored' \in [Transactions -> Seq(1..Length)]
        /\ history' \in Seq(SUBSET Transactions)
    BY <1>1, <1>2 DEF TypeOK
  <1>9. QED
    BY <1>1, <1>3, <1>4, <1>5, <1>6, <1>7, <1>8, MoveKeepsInv

LEMMA LoseKeepsInv ==
  ASSUME PoolInv, NEW w \in Workers, Lose(w)
  PROVE  PoolInv'
  <1>1. /\ at[w] \in {"begin", "statement", "commit", "rollback"} /\ at' = at
        /\ losses' = losses + 1
        /\ lost' = IF at[w] \in {"statement", "commit"} THEN lost \cup {task[w]} ELSE lost
        /\ inTransaction' = [inTransaction EXCEPT ![w] = FALSE]
        /\ open' = [open EXCEPT ![w] = Nothing]
        /\ UNCHANGED <<workers, pool, posted, taken, task, step, deadlocked, retrier, stored,
                       history, failures, dropped, result>>
    BY DEF Lose, EndTransaction, poolVars, threadVars
  <1>2. TypeOK /\ Progress
    BY DEF PoolInv
  <1>3. lost \subseteq lost' /\ lost' \subseteq lost \cup {task[w]}
    BY <1>1
  <1>4. /\ inTransaction' \in [Workers -> BOOLEAN]
        /\ open' \in [Workers -> [Transactions -> Seq(1..Length)]]
        /\ open'[w] = Nothing /\ \A t \in Transactions : open'[w][t] = <<>>
        /\ \A v \in Workers \ {w} :
             inTransaction'[v] = inTransaction[v] /\ open'[v] = open[v]
    BY <1>1, <1>2, EndedTransaction
  <1>5. task[w] \notin Excused' => at[w] \in {"begin", "rollback"} /\ task[w] \notin Excused
    BY <1>1 DEF Excused
  <1>6. task[w] \notin Excused' => stored[task[w]] = <<>>
    BY <1>1, <1>2, <1>5 DEF Progress, BeforeStatements
  <1>7. task[w] \notin Excused' => BeforeStatements(w)'
    BY <1>1, <1>6 DEF BeforeStatements
  <1>8. at[w] \in Places \ {"idle"} /\ at' = [at EXCEPT ![w] = at[w]]
    BY <1>1, <1>2 DEF Places, TypeOK
  <1>9. /\ deadlocked' \in [Workers -> BOOLEAN] /\ failures' \in Nat
        /\ step' \in [Workers -> 1..Length] /\ retrier' \in Workers \cup {NoWorker}
        /\ losses' \in Nat
        /\ stored' \in [Transactions -> Seq(1..Length)]
        /\ history' \in Seq(SUBSET Transactions)
    BY <1>1, <1>2 DEF TypeOK
  <1>10. /\ at[w] # "idle" /\ dropped \subseteq dropped' /\ dropped' \subseteq dropped \cup {task[w]}
         /\ \A t \in Transactions \ Excused : t # task[w] => stored'[t] = stored[t]
         /\ \A v \in Workers \ {w} : step'[v] = step[v]
         /\ UNCHANGED <<workers, pool, posted, taken, task, result>>
    BY <1>1
  <1>11. /\ task[w] \notin Excused' => stored'[task[w]] \in {<<>>, Whole}
         /\ task[w] \notin Excused' => at[w] # "statement" /\ at[w] # "commit"
    BY <1>1, <1>5, <1>6
  <1>12. QED
    BY <1>3, <1>4, <1>7, <1>8, <1>9, <1>10, <1>11, MoveKeepsInv

LEMMA LoseAnswerKeepsInv ==
  ASSUME PoolInv, NEW w \in Workers, LoseAnswer(w)
  PROVE  PoolInv'
  <1>1. /\ at[w] = "statement" /\ at' = at /\ Apply(w) /\ ~inTransaction[w]
        /\ losses' = losses + 1 /\ lost' = lost \cup {task[w]}
        /\ UNCHANGED <<workers, pool, posted, taken, task, step, deadlocked, retrier,
                       inTransaction, failures, dropped, result>>
    BY DEF LoseAnswer, poolVars, threadVars
  <1>2. TypeOK
    BY DEF PoolInv
  <1>3. task[w] \in Excused'
    BY <1>1 DEF Excused
  <1>4. /\ open' \in [Workers -> [Transactions -> Seq(1..Length)]]
        /\ stored' \in [Transactions -> Seq(1..Length)]
        /\ history' \in Seq(SUBSET Transactions)
        /\ \A v \in Workers \ {w} : open'[v] = open[v]
        /\ \A t \in Transactions \ {task[w]} : stored'[t] = stored[t]
        /\ open'[w] = Nothing
    BY <1>1, ApplyChanges
  <1>5. \A t \in Transactions : open'[w][t] = <<>>
    BY <1>4, NothingIsOpen
  <1>6. "statement" \in Places \ {"idle"} /\ at' = [at EXCEPT ![w] = "statement"]
    BY <1>1, <1>2 DEF Places, TypeOK
  <1>7. /\ step' \in [Workers -> 1..Length] /\ deadlocked' \in [Workers -> BOOLEAN]
        /\ retrier' \in Workers \cup {NoWorker} /\ inTransaction' \in [Workers -> BOOLEAN]
        /\ failures' \in Nat /\ losses' \in Nat
    BY <1>1, <1>2 DEF TypeOK
  <1>8. /\ at[w] # "idle" /\ UNCHANGED <<workers, pool, posted, taken, task, result>>
        /\ lost \subseteq lost' /\ lost' \subseteq lost \cup {task[w]}
        /\ dropped \subseteq dropped' /\ dropped' \subseteq dropped \cup {task[w]}
        /\ \A v \in Workers \ {w} :
             /\ step'[v] = step[v]
             /\ inTransaction'[v] = inTransaction[v] /\ open'[v] = open[v]
        /\ \A t \in Transactions \ Excused : t # task[w] => stored'[t] = stored[t]
    BY <1>1, <1>4
  <1>9. QED
    BY <1>3, <1>4, <1>5, <1>6, <1>7, <1>8, MoveKeepsInv

LEMMA LoseCommitAnswerKeepsInv ==
  ASSUME PoolInv, NEW w \in Workers, LoseCommitAnswer(w)
  PROVE  PoolInv'
  <1>1. /\ at[w] \in {"begin", "commit"} /\ at' = at /\ Keep(w) /\ losses' = losses + 1
        /\ inTransaction' = [inTransaction EXCEPT ![w] = FALSE]
        /\ open' = [open EXCEPT ![w] = Nothing]
        /\ UNCHANGED <<workers, pool, posted, taken, task, step, deadlocked, retrier,
                       failures, lost, dropped, result>>
    BY DEF LoseCommitAnswer, EndTransaction, poolVars, threadVars
  <1>2. TypeOK /\ Progress /\ task[w] \in Transactions
    BY <1>1, BusyHasTask DEF PoolInv
  <1>3. /\ inTransaction' \in [Workers -> BOOLEAN]
        /\ open' \in [Workers -> [Transactions -> Seq(1..Length)]]
        /\ ~inTransaction'[w]
        /\ open'[w] = Nothing /\ \A t \in Transactions : open'[w][t] = <<>>
        /\ \A v \in Workers \ {w} :
             inTransaction'[v] = inTransaction[v] /\ open'[v] = open[v]
    BY <1>1, <1>2, EndedTransaction
  <1>4. /\ stored' \in [Transactions -> Seq(1..Length)]
        /\ history' \in Seq(SUBSET Transactions)
        /\ \A t \in Transactions \ Excused :
             t # task[w] \/ at[w] = "begin" => stored'[t] = stored[t]
        /\ at[w] = "commit" /\ task[w] \notin Excused => stored'[task[w]] = Whole
    BY <1>1, KeepChanges
  <1>5. Excused' = Excused
    BY <1>1 DEF Excused
  <1>6. ASSUME at[w] = "begin", task[w] \notin Excused
        PROVE  stored'[task[w]] = <<>> /\ BeforeStatements(w)'
    <2>1. stored[task[w]] = <<>>
      BY <1>2, <1>6 DEF Progress, BeforeStatements
    <2>2. stored'[task[w]] = <<>>
      BY <1>2, <1>4, <1>6, <2>1
    <2>3. QED
      BY <1>1, <2>2 DEF BeforeStatements
  <1>7. ASSUME at[w] = "commit", task[w] \notin Excused
        PROVE  stored'[task[w]] = Whole /\ AfterStatements(w)'
    BY <1>1, <1>3, <1>4, <1>7 DEF AfterStatements
  <1>8. at[w] \in Places \ {"idle"} /\ at' = [at EXCEPT ![w] = at[w]]
    BY <1>1, <1>2 DEF Places, TypeOK
  <1>9. /\ step' \in [Workers -> 1..Length] /\ deadlocked' \in [Workers -> BOOLEAN]
        /\ retrier' \in Workers \cup {NoWorker}
        /\ failures' \in Nat /\ losses' \in Nat
        /\ \A v \in Workers \ {w} : step'[v] = step[v]
    BY <1>1, <1>2 DEF TypeOK
  <1>10. /\ at[w] # "idle" /\ at[w] \in {"begin", "commit"}
         /\ UNCHANGED <<workers, pool, posted, taken, task, result>>
         /\ lost \subseteq lost' /\ lost' \subseteq lost \cup {task[w]}
         /\ dropped \subseteq dropped' /\ dropped' \subseteq dropped \cup {task[w]}
    BY <1>1
  <1>11. task[w] \notin Excused' =>
           /\ stored'[task[w]] \in {<<>>, Whole}
           /\ at[w] \in {"begin", "rollback", "failed"} => BeforeStatements(w)'
           /\ at[w] = "statement" => AmongStatements(w)'
           /\ at[w] = "commit" => AfterStatements(w)'
    BY <1>5, <1>6, <1>7, <1>10
  <1>12. \A t \in Transactions \ Excused : t # task[w] => stored'[t] = stored[t]
    BY <1>4
  <1>13. /\ \A v \in Workers \ {w} :
              /\ step'[v] = step[v]
              /\ inTransaction'[v] = inTransaction[v] /\ open'[v] = open[v]
         /\ ~inTransaction'[w] => open'[w] = Nothing
         /\ \A t \in Transactions \ dropped' : open'[w][t] = <<>>
         /\ inTransaction' \in [Workers -> BOOLEAN]
         /\ open' \in [Workers -> [Transactions -> Seq(1..Length)]]
         /\ stored' \in [Transactions -> Seq(1..Length)]
         /\ history' \in Seq(SUBSET Transactions)
    BY <1>3, <1>4, <1>9
  <1>14. QED
    BY <1>8, <1>9, <1>10, <1>11, <1>12, <1>13, MoveKeepsInv

LEMMA CommitTransactionKeepsInv ==
  ASSUME PoolInv, NEW w \in Workers, CommitTransaction(w)
  PROVE  PoolInv'
  <1>1. /\ at[w] = "commit" /\ Keep(w) /\ Finish(w, "done")
        /\ inTransaction' = [inTransaction EXCEPT ![w] = FALSE]
        /\ open' = [open EXCEPT ![w] = Nothing]
        /\ UNCHANGED <<workers, pool, posted, task, step, deadlocked, failures, losses, lost,
                       dropped>>
    BY DEF CommitTransaction, EndTransaction, faultVars
  <1>2. TypeOK
    BY DEF PoolInv
  <1>3. /\ inTransaction' \in [Workers -> BOOLEAN]
        /\ open' \in [Workers -> [Transactions -> Seq(1..Length)]]
        /\ open'[w] = Nothing /\ \A t \in Transactions : open'[w][t] = <<>>
        /\ \A v \in Workers \ {w} :
             inTransaction'[v] = inTransaction[v] /\ open'[v] = open[v]
    BY <1>1, <1>2, EndedTransaction
  <1>4. /\ stored' \in [Transactions -> Seq(1..Length)]
        /\ history' \in Seq(SUBSET Transactions)
        /\ \A t \in Transactions \ Excused : t # task[w] => stored'[t] = stored[t]
        /\ task[w] \notin Excused => stored'[task[w]] = Whole
    BY <1>1, KeepChanges
  <1>5. Excused' = Excused /\ failures' \in Nat
    BY <1>1, <1>2 DEF Excused, TypeOK
  <1>6. QED
    BY <1>1, <1>3, <1>4, <1>5, AnswerKeepsInv

LEMMA CommitDroppedKeepsInv ==
  ASSUME PoolInv, NEW w \in Workers, CommitDropped(w)
  PROVE  PoolInv'
  <1>1. /\ at[w] = "commit" /\ Finish(w, "done") /\ failures' = failures + 1
        /\ dropped' = IF inTransaction[w] THEN dropped \cup {task[w]} ELSE dropped
        /\ EndTransaction(w) \/ UNCHANGED <<inTransaction, open>>
        /\ UNCHANGED <<workers, pool, posted, task, step, deadlocked, stored, history,
                       losses, lost>>
    BY DEF CommitDropped
  <1>2. TypeOK /\ Progress /\ OpenIsOwn
    BY DEF PoolInv
  <1>3. /\ dropped \subseteq dropped' /\ dropped' \subseteq dropped \cup {task[w]}
        /\ \A t \in Transactions \ dropped' : open[w][t] = <<>>
    BY <1>1, DroppedChanges
  <1>4. /\ inTransaction' \in [Workers -> BOOLEAN]
        /\ open' \in [Workers -> [Transactions -> Seq(1..Length)]]
        /\ \A v \in Workers \ {w} :
             inTransaction'[v] = inTransaction[v] /\ open'[v] = open[v]
        /\ ~inTransaction'[w] => open'[w] = Nothing
        /\ \A t \in Transactions \ dropped' : open'[w][t] = <<>>
    <2>1. CASE EndTransaction(w)
      BY <2>1, <1>2, EndedTransaction DEF EndTransaction
    <2>2. CASE UNCHANGED <<inTransaction, open>>
      BY <2>2, <1>2, <1>3 DEF OpenIsOwn, TypeOK
    <2>3. QED
      BY <1>1, <2>1, <2>2
  <1>5. task[w] \notin Excused' => stored'[task[w]] = Whole
    <2> SUFFICES ASSUME task[w] \notin Excused' PROVE stored[task[w]] = Whole
      BY <1>1
    <2>1. ~inTransaction[w] /\ task[w] \notin Excused
      BY <1>1 DEF Excused
    <2>2. QED
      BY <1>1, <1>2, <2>1 DEF Progress, AfterStatements
  <1>6. /\ stored' \in [Transactions -> Seq(1..Length)]
        /\ history' \in Seq(SUBSET Transactions) /\ failures' \in Nat
    BY <1>1, <1>2 DEF TypeOK
  <1>7. QED
    BY <1>1, <1>3, <1>4, <1>5, <1>6, AnswerKeepsInv

LEMMA GiveUpKeepsInv ==
  ASSUME PoolInv, NEW w \in Workers, GiveUp(w) \/ TimeOut(w)
  PROVE  PoolInv'
  <1>1. /\ at[w] = "failed" /\ Finish(w, "failed")
        /\ UNCHANGED <<workers, pool, posted, task, step, deadlocked>>
        /\ UNCHANGED <<inTransaction, open, stored, history, failures, losses, lost, dropped>>
    BY DEF GiveUp, TimeOut, serverVars, faultVars
  <1>2. TypeOK /\ Progress /\ OpenIsOwn
    BY DEF PoolInv
  <1>3. task[w] \notin Excused => stored[task[w]] = <<>>
    BY <1>1, <1>2 DEF Progress, BeforeStatements
  <1>4. Excused' = Excused
    BY <1>1 DEF Excused
  <1>5. /\ ~inTransaction'[w] => open'[w] = Nothing
        /\ \A t \in Transactions \ dropped' : open'[w][t] = <<>>
    BY <1>1, <1>2 DEF OpenIsOwn
  <1>6. /\ inTransaction' \in [Workers -> BOOLEAN] /\ failures' \in Nat
        /\ open' \in [Workers -> [Transactions -> Seq(1..Length)]]
        /\ stored' \in [Transactions -> Seq(1..Length)]
        /\ history' \in Seq(SUBSET Transactions)
    BY <1>1, <1>2 DEF TypeOK
  <1>7. QED
    BY <1>1, <1>3, <1>4, <1>5, <1>6, AnswerKeepsInv

LEMMA AbortKeepsInv ==
  ASSUME PoolInv, NEW w \in Workers, Abort(w)
  PROVE  PoolInv'
  <1>1. /\ pool' = "aborted" /\ at' = [v \in Workers |-> "idle"] /\ retrier' = NoWorker
        /\ inTransaction' = [v \in Workers |-> FALSE]
        /\ open' = [v \in Workers |-> Nothing] /\ losses' = losses + 1
        /\ UNCHANGED <<workers, posted, taken, task, step, deadlocked, stored, history,
                       failures, lost, dropped, result>>
    BY DEF Abort
  <1>2. TypeOK /\ Untaken /\ AtomicUnlessLost
    BY DEF PoolInv
  <1>3. \A v \in Workers : at'[v] = "idle"
    BY <1>1
  <1>4. open' \in [Workers -> [Transactions -> Seq(1..Length)]]
    BY <1>1, NothingIsOpen
  <1>5. at' \in [Workers -> Places]
    BY <1>1 DEF Places
  <1>6. TypeOK'
    BY <1>1, <1>2, <1>3, <1>4, <1>5 DEF TypeOK
  <1>7. Untaken' /\ AtomicUnlessLost'
    BY <1>1, <1>2 DEF Untaken, AtomicUnlessLost, Excused
  <1>8. TasksDistinct' /\ Progress'
    BY <1>3 DEF TasksDistinct, Progress
  <1>9. OpenIsOwn'
    BY <1>1, NothingIsOpen DEF OpenIsOwn, Nothing
  <1>10. QED
    BY <1>6, <1>7, <1>8, <1>9 DEF PoolInv

(* Post, Stop and Close move only the pool and its queue; a stutter, less. *)
LEMMA PoolStepKeepsInv ==
  ASSUME PoolInv, Post \/ Stop \/ Close \/ UNCHANGED vars
  PROVE  PoolInv'
  <1>1. UNCHANGED <<workers, taken, at, task, step, deadlocked, retrier, inTransaction, open,
                    stored, history, failures, losses, lost, dropped, result>>
    BY DEF Post, Stop, Close, vars, poolVars, threadVars, serverVars, faultVars
  <1>2. TypeOK
    BY DEF PoolInv
  <1>3. /\ pool' \in {"open", "stopped", "closed", "aborted"}
        /\ posted' \in 0..MaxPosted /\ posted <= posted'
    BY <1>2 DEF Post, Stop, Close, vars, poolVars, TypeOK
  <1>4. taken' \in 0..posted'
    BY <1>1, <1>2, <1>3 DEF TypeOK
  <1>5. TypeOK'
    BY <1>1, <1>2, <1>3, <1>4 DEF TypeOK
  <1>6. Untaken' /\ TasksDistinct' /\ AtomicUnlessLost'
    BY <1>1 DEF PoolInv, Untaken, TasksDistinct, AtomicUnlessLost, Excused
  <1>7. Progress'
    BY <1>1
       DEF PoolInv, Progress, BeforeStatements, AmongStatements, AfterStatements, Excused
  <1>8. OpenIsOwn'
    BY <1>1 DEF PoolInv, OpenIsOwn, Nothing
  <1>9. QED
    BY <1>5, <1>6, <1>7, <1>8 DEF PoolInv
-----------------------------------------------------------------------------
LEMMA NextKeepsInv == PoolInv /\ [Next]_vars => PoolInv'
  <1> SUFFICES ASSUME PoolInv, [Next]_vars PROVE PoolInv'
    OBVIOUS
  <1>1. CASE Post \/ Stop \/ Close \/ UNCHANGED vars
    BY <1>1, PoolStepKeepsInv
  <1>2. CASE \E w \in Workers : Run(w)
    <2> PICK w \in Workers : Run(w)
      BY <1>2
    <2>1. CASE Take(w)
      BY <2>1, TakeKeepsInv
    <2>2. CASE BeginTransaction(w)
      BY <2>2, BeginTransactionKeepsInv
    <2>3. CASE Execute(w)
      BY <2>3, ExecuteKeepsInv
    <2>4. CASE RollbackTransaction(w)
      BY <2>4, RollbackTransactionKeepsInv
    <2>5. CASE CommitTransaction(w)
      BY <2>5, CommitTransactionKeepsInv
    <2>6. CASE GiveUp(w) \/ TimeOut(w)
      BY <2>6, GiveUpKeepsInv
    <2>7. CASE LockAndRetry(w) \/ RetryAgain(w)
      BY <2>7, RetryKeepsInv
    <2>8. QED
      BY <2>1, <2>2, <2>3, <2>4, <2>5, <2>6, <2>7 DEF Run
  <1>3. CASE \E w \in Workers : Fault(w)
    <2> PICK w \in Workers : Fault(w)
      BY <1>3
    <2>1. CASE ExecuteError(w)
      BY <2>1, ExecuteErrorKeepsInv
    <2>2. CASE ExecuteDeadlock(w)
      BY <2>2, ExecuteDeadlockKeepsInv
    <2>3. CASE Lose(w)
      BY <2>3, LoseKeepsInv
    <2>4. CASE LoseAnswer(w)
      BY <2>4, LoseAnswerKeepsInv
    <2>5. CASE LoseCommitAnswer(w)
      BY <2>5, LoseCommitAnswerKeepsInv
    <2>6. CASE Abort(w)
      BY <2>6, AbortKeepsInv
    <2>7. CASE BeginDropped(w)
      BY <2>7, BeginDroppedKeepsInv
    <2>8. CASE RollbackDropped(w)
      BY <2>8, RollbackDroppedKeepsInv
    <2>9. CASE CommitDropped(w)
      BY <2>9, CommitDroppedKeepsInv
    <2>10. QED
      BY <2>1, <2>2, <2>3, <2>4, <2>5, <2>6, <2>7, <2>8, <2>9 DEF Fault
  <1>4. QED
    BY <1>1, <1>2, <1>3 DEF Next

LEMMA Invariant == Spec => []PoolInv
  BY InitInv, NextKeepsInv, PTL DEF Spec

(* Types, for any pool: in particular a busy worker's transaction is one   *)
(* that was posted, taken and not answered yet.                            *)
THEOREM DatabaseTypeCorrect == Spec => []TypeOK
  <1>1. PoolInv => TypeOK
    BY DEF PoolInv
  <1>2. QED
    BY <1>1, Invariant, PTL

(* TransactionTask::Execute and ExecuteTransaction, for any number of      *)
(* connections, transactions, statements and faults: a transaction whose   *)
(* session is not lost before its commit, and whose own START TRANSACTION, *)
(* COMMIT or ROLLBACK does not fail unnoticed, is stored whole or not at   *)
(* all, and the answer says which.                                         *)
THEOREM DatabaseAtomicUnlessLost == Spec => []AtomicUnlessLost
  <1>1. PoolInv => AtomicUnlessLost
    BY DEF PoolInv
  <1>2. QED
    BY <1>1, Invariant, PTL
-----------------------------------------------------------------------------
(* How a step that takes no transaction changes what OrderInv is about: no *)
(* idle worker becomes busy or opens a transaction, and the database and   *)
(* the open transactions change in one of four ways - something open is    *)
(* dropped or nothing changes, one session's open transaction is kept, a   *)
(* statement is added to it, or one takes effect at once.                  *)
Fewer ==
  /\ history' = history
  /\ \A w \in Workers : \A t \in Transactions : open'[w][t] # <<>> => open[w][t] # <<>>

Kept(w) ==
  /\ inTransaction[w]
  /\ history' = Append(history, {t \in Transactions : open[w][t] # <<>>})
  /\ \A t \in Transactions : open'[w][t] = <<>>
  /\ \A v \in Workers \ {w} : open'[v] = open[v]

More(w) ==
  /\ at[w] # "idle" /\ history' = history
  /\ \A t \in Transactions \ {task[w]} : open'[w][t] = open[w][t]
  /\ \A v \in Workers \ {w} : open'[v] = open[v]

Direct(w) ==
  /\ at[w] # "idle" /\ ~inTransaction[w]
  /\ history' = Append(history, {task[w]}) /\ open' = open

Untaking ==
  /\ UNCHANGED <<workers, taken, task>>
  /\ \A w \in Workers : at'[w] # "idle" => at[w] # "idle"
  /\ \A w \in Workers : inTransaction'[w] => inTransaction[w] \/ at[w] # "idle"
  /\ Fewer \/ \E w \in Workers : Kept(w) \/ More(w) \/ Direct(w)

LEMMA MovesUntaking ==
  ASSUME TypeOK, NEW w \in Workers, NEW place, at[w] # "idle",
         at' = [at EXCEPT ![w] = place] \/ at' = at,
         \A v \in Workers \ {w} : inTransaction'[v] = inTransaction[v],
         UNCHANGED <<workers, taken, task>>,
         Fewer \/ Kept(w) \/ More(w) \/ Direct(w)
  PROVE  Untaking
  BY DEF Untaking, TypeOK

LEMMA KeepIsKept ==
  ASSUME PoolInv, NEW w \in Workers, NEW b \in BOOLEAN, Keep(w),
         inTransaction' = [inTransaction EXCEPT ![w] = b],
         open' = [open EXCEPT ![w] = Nothing]
  PROVE  /\ Fewer \/ Kept(w)
         /\ \A v \in Workers \ {w} : inTransaction'[v] = inTransaction[v]
  <1>1. TypeOK /\ OpenIsOwn
    BY DEF PoolInv
  <1>2. /\ \A t \in Transactions : open'[w][t] = <<>>
        /\ \A v \in Workers \ {w} :
             inTransaction'[v] = inTransaction[v] /\ open'[v] = open[v]
    BY <1>1, NothingIsOpen DEF TypeOK
  <1>3. CASE inTransaction[w]
    BY <1>2, <1>3 DEF Keep, Kept
  <1>4. CASE ~inTransaction[w]
    BY <1>2, <1>4 DEF Keep, Fewer
  <1>5. QED
    BY <1>2, <1>3, <1>4

LEMMA EndIsFewer ==
  ASSUME TypeOK, NEW w \in Workers, history' = history,
         inTransaction' = [inTransaction EXCEPT ![w] = FALSE],
         open' = [open EXCEPT ![w] = Nothing]
  PROVE  Fewer /\ \A v \in Workers \ {w} : inTransaction'[v] = inTransaction[v]
  BY NothingIsOpen DEF TypeOK, Fewer

LEMMA ApplyIsMore ==
  ASSUME PoolInv, NEW w \in Workers, at[w] = "statement", Apply(w)
  PROVE  More(w) \/ Direct(w)
  <1>1. CASE inTransaction[w]
    <2>1. history' = history
      BY <1>1 DEF Apply
    <2>2. QED
      BY <2>1, ApplyChanges DEF More
  <1>2. CASE ~inTransaction[w]
    BY <1>2 DEF Apply, Direct
  <1>3. QED
    BY <1>1, <1>2

LEMMA RunUntaking ==
  ASSUME PoolInv, NEW w \in Workers, Run(w), ~Take(w)
  PROVE  Untaking
  <1> USE DEF poolVars, faultVars, Goto
  <1> TypeOK
    BY DEF PoolInv
  <1>1. CASE BeginTransaction(w)
    <2>1. Fewer \/ Kept(w)
      BY <1>1, KeepIsKept DEF BeginTransaction
    <2>2. \A v \in Workers \ {w} : inTransaction'[v] = inTransaction[v]
      BY <1>1, KeepIsKept DEF BeginTransaction
    <2>3. /\ at[w] # "idle" /\ at' = [at EXCEPT ![w] = "statement"]
          /\ UNCHANGED <<workers, taken, task>>
      BY <1>1 DEF BeginTransaction
    <2>4. QED
      BY <2>1, <2>2, <2>3, MovesUntaking
  <1>2. CASE Execute(w)
    <2>1. More(w) \/ Direct(w)
      BY <1>2, ApplyIsMore DEF Execute
    <2>2. at' = [at EXCEPT ![w] = "commit"] \/ at' = at
      BY <1>2 DEF Execute
    <2>3. at[w] # "idle" /\ UNCHANGED <<workers, taken, task, inTransaction>>
      BY <1>2 DEF Execute
    <2>4. QED
      BY <2>1, <2>2, <2>3, MovesUntaking
  <1>3. CASE RollbackTransaction(w)
    <2>1. Fewer /\ \A v \in Workers \ {w} : inTransaction'[v] = inTransaction[v]
      BY <1>3, EndIsFewer DEF RollbackTransaction, EndTransaction
    <2>2. /\ at[w] # "idle" /\ at' = [at EXCEPT ![w] = "failed"]
          /\ UNCHANGED <<workers, taken, task>>
      BY <1>3 DEF RollbackTransaction
    <2>3. QED
      BY <2>1, <2>2, MovesUntaking
  <1>4. CASE CommitTransaction(w)
    <2>1. Fewer \/ Kept(w)
      BY <1>4, KeepIsKept DEF CommitTransaction, EndTransaction
    <2>2. \A v \in Workers \ {w} : inTransaction'[v] = inTransaction[v]
      BY <1>4, KeepIsKept DEF CommitTransaction, EndTransaction
    <2>3. /\ at[w] # "idle" /\ at' = [at EXCEPT ![w] = "idle"]
          /\ UNCHANGED <<workers, taken, task>>
      BY <1>4 DEF CommitTransaction, Finish
    <2>4. QED
      BY <2>1, <2>2, <2>3, MovesUntaking
  <1>5. CASE GiveUp(w) \/ TimeOut(w)
    <2>1. /\ at[w] # "idle" /\ at' = [at EXCEPT ![w] = "idle"]
          /\ UNCHANGED <<workers, taken, task, inTransaction, open, history>>
      BY <1>5 DEF GiveUp, TimeOut, Finish, serverVars
    <2>2. QED
      BY <2>1, MovesUntaking DEF Fewer
  <1>6. CASE LockAndRetry(w) \/ RetryAgain(w)
    <2>1. /\ at[w] # "idle" /\ at' = [at EXCEPT ![w] = "begin"]
          /\ UNCHANGED <<workers, taken, task, inTransaction, open, history>>
      BY <1>6 DEF LockAndRetry, RetryAgain, serverVars
    <2>2. QED
      BY <2>1, MovesUntaking DEF Fewer
  <1>7. QED
    BY <1>1, <1>2, <1>3, <1>4, <1>5, <1>6 DEF Run

LEMMA FaultUntaking ==
  ASSUME PoolInv, NEW w \in Workers, Fault(w)
  PROVE  Untaking
  <1> USE DEF poolVars, threadVars, Goto
  <1> TypeOK
    BY DEF PoolInv
  <1>1. CASE ExecuteError(w) \/ BeginDropped(w) \/ RollbackDropped(w)
    <2>1. /\ at[w] # "idle" /\ \E place \in Places : at' = [at EXCEPT ![w] = place]
          /\ UNCHANGED <<workers, taken, task, inTransaction, open, history>>
      BY <1>1 DEF ExecuteError, BeginDropped, RollbackDropped, serverVars, Places
    <2>2. QED
      BY <2>1, MovesUntaking DEF Fewer
  <1>2. CASE ExecuteDeadlock(w)
    <2>1. Fewer /\ \A v \in Workers \ {w} : inTransaction'[v] = inTransaction[v]
      BY <1>2, EndIsFewer DEF ExecuteDeadlock
    <2>2. /\ at[w] # "idle" /\ at' = [at EXCEPT ![w] = "rollback"]
          /\ UNCHANGED <<workers, taken, task>>
      BY <1>2 DEF ExecuteDeadlock
    <2>3. QED
      BY <2>1, <2>2, MovesUntaking
  <1>3. CASE CommitDropped(w)
    <2>1. Fewer /\ \A v \in Workers \ {w} : inTransaction'[v] = inTransaction[v]
      BY <1>3, EndIsFewer DEF CommitDropped, EndTransaction, Fewer
    <2>2. /\ at[w] # "idle" /\ at' = [at EXCEPT ![w] = "idle"]
          /\ UNCHANGED <<workers, taken, task>>
      BY <1>3 DEF CommitDropped, Finish
    <2>3. QED
      BY <2>1, <2>2, MovesUntaking
  <1>4. CASE Lose(w)
    <2>1. Fewer /\ \A v \in Workers \ {w} : inTransaction'[v] = inTransaction[v]
      BY <1>4, EndIsFewer DEF Lose, EndTransaction
    <2>2. at[w] # "idle" /\ at' = at /\ UNCHANGED <<workers, taken, task>>
      BY <1>4 DEF Lose
    <2>3. QED
      BY <2>1, <2>2, MovesUntaking
  <1>5. CASE LoseAnswer(w)
    <2>1. More(w) \/ Direct(w)
      BY <1>5, ApplyIsMore DEF LoseAnswer
    <2>2. at[w] # "idle" /\ at' = at /\ UNCHANGED <<workers, taken, task, inTransaction>>
      BY <1>5 DEF LoseAnswer
    <2>3. QED
      BY <2>1, <2>2, MovesUntaking
  <1>6. CASE LoseCommitAnswer(w)
    <2>1. Fewer \/ Kept(w)
      BY <1>6, KeepIsKept DEF LoseCommitAnswer, EndTransaction
    <2>2. \A v \in Workers \ {w} : inTransaction'[v] = inTransaction[v]
      BY <1>6, KeepIsKept DEF LoseCommitAnswer, EndTransaction
    <2>3. at[w] # "idle" /\ at' = at /\ UNCHANGED <<workers, taken, task>>
      BY <1>6 DEF LoseCommitAnswer
    <2>4. QED
      BY <2>1, <2>2, <2>3, MovesUntaking
  <1>7. CASE Abort(w)
    <2>1. \A v \in Workers : at'[v] = "idle" /\ ~inTransaction'[v] /\ open'[v] = Nothing
      BY <1>7 DEF Abort
    <2>2. UNCHANGED <<workers, taken, task, history>>
      BY <1>7 DEF Abort
    <2>3. QED
      BY <2>1, <2>2, NothingIsOpen DEF Untaking, Fewer
  <1>8. QED
    BY <1>1, <1>2, <1>3, <1>4, <1>5, <1>6, <1>7 DEF Fault

LEMMA NextUntaking ==
  ASSUME PoolInv, [Next]_vars, \A w \in Workers : ~Take(w)
  PROVE  Untaking
  <1>1. CASE Post \/ Stop \/ Close \/ UNCHANGED vars
    BY <1>1 DEF Post, Stop, Close, vars, poolVars, threadVars, serverVars, Untaking, Fewer
  <1>2. ASSUME NEW w \in Workers, Run(w) \/ Fault(w) PROVE Untaking
    BY <1>2, RunUntaking, FaultUntaking
  <1>3. QED
    BY <1>1, <1>2 DEF Next

LEMMA OpenTaken ==
  ASSUME PoolInv, NEW w \in Workers, NEW t \in Transactions, open[w][t] # <<>>
  PROVE  t <= taken
  <1>1. t \in Nat /\ taken \in Nat
    BY DEF PoolInv, TypeOK, Transactions
  <1>2. t \in dropped \/ (at[w] # "idle" /\ t = task[w])
    BY DEF PoolInv, OpenIsOwn
  <1>3. CASE t \in dropped
    BY <1>1, <1>3 DEF PoolInv, Untaken, Excused
  <1>4. CASE at[w] # "idle" /\ t = task[w]
    BY <1>4, BusyHasTask DEF PoolInv
  <1>5. QED
    BY <1>2, <1>3, <1>4

(* Of one worker's pool, only that worker's session has a transaction.     *)
LEMMA OneSession ==
  ASSUME PoolInv, OrderInv, Cardinality(workers) = 1,
         NEW w \in Workers, at[w] # "idle" \/ inTransaction[w],
         NEW v \in Workers \ {w}, NEW t \in Transactions
  PROVE  open[v][t] = <<>>
  <1>1. w \in workers /\ IsFiniteSet(workers)
    BY FS_Subset DEF OrderInv, PoolInv, TypeOK
  <1>2. \E x : workers = {x}
    BY <1>1, FS_Singleton
  <1>3. ~inTransaction[v]
    BY <1>1, <1>2 DEF OrderInv
  <1>4. QED
    BY <1>3, NothingIsOpen DEF PoolInv, OpenIsOwn

LEMMA UntakingKeepsOrder ==
  ASSUME PoolInv, OrderInv, Untaking
  PROVE  OrderInv'
  <1>1. TypeOK /\ OpenIsOwn /\ history \in Seq(SUBSET Transactions) /\ taken \in Nat
    BY DEF PoolInv, TypeOK
  <1>2. /\ workers' = workers /\ taken' = taken /\ task' = task
        /\ \A w \in Workers : at'[w] # "idle" => at[w] # "idle"
        /\ \A w \in Workers : inTransaction'[w] => inTransaction[w] \/ at[w] # "idle"
    BY DEF Untaking
  <1>3. /\ \A w \in Workers : at'[w] # "idle" => w \in workers'
        /\ \A w \in Workers \ workers' : ~inTransaction'[w]
        /\ Cardinality(workers') = 1 =>
             \A w \in Workers : at'[w] # "idle" => task'[w] = taken'
    BY <1>2 DEF OrderInv
  <1>4. CASE history' = history
    <2>1. /\ \A i \in 1..Len(history') : \A a \in history'[i] : a <= taken'
          /\ OneWorkerKeepsOrder'
      BY <1>2, <1>4 DEF OrderInv, OneWorkerKeepsOrder
    <2>2. ASSUME Cardinality(workers') = 1, NEW v \in Workers, NEW t \in Transactions,
                 open'[v][t] # <<>>
          PROVE  open[v][t] # <<>> \/ t = taken
      <3>1. CASE Fewer
        BY <2>2, <3>1 DEF Fewer
      <3>2. ASSUME NEW w \in Workers, Kept(w) PROVE open[v][t] # <<>>
        BY <2>2, <3>2 DEF Kept
      <3>3. ASSUME NEW w \in Workers, More(w) PROVE open[v][t] # <<>> \/ t = taken
        <4>1. CASE v = w /\ t = task[w]
          BY <1>2, <2>2, <3>3, <4>1 DEF More, OrderInv
        <4>2. CASE ~(v = w /\ t = task[w])
          BY <2>2, <3>3, <4>2 DEF More
        <4>3. QED
          BY <4>1, <4>2
      <3>4. ASSUME NEW w \in Workers, Direct(w) PROVE open[v][t] # <<>>
        BY <2>2, <3>4 DEF Direct
      <3>5. QED
        BY <3>1, <3>2, <3>3, <3>4 DEF Untaking
    <2>3. ASSUME Cardinality(workers') = 1, NEW v \in Workers PROVE OpenInOrder(v)'
      <3> SUFFICES ASSUME NEW t \in Transactions, open'[v][t] # <<>>
                   PROVE  \A i \in 1..Len(history) : \A a \in history[i] : a <= t
        BY <1>2, <1>4 DEF OpenInOrder
      <3>1. CASE open[v][t] # <<>>
        BY <1>2, <2>3, <3>1 DEF OrderInv, OpenInOrder
      <3>2. CASE t = taken
        BY <1>1, <3>2 DEF OrderInv
      <3>3. QED
        BY <2>2, <2>3, <3>1, <3>2
    <2>4. QED
      BY <1>3, <2>1, <2>3 DEF OrderInv
  <1>5. ASSUME NEW w \in Workers, Kept(w) \/ Direct(w) PROVE OrderInv'
    <2> DEFINE n == Len(history)
               new == IF inTransaction[w] THEN {t \in Transactions : open[w][t] # <<>>}
                                          ELSE {task[w]}
    <2>1. history' = Append(history, new) /\ (at[w] # "idle" \/ inTransaction[w])
      BY <1>5 DEF Kept, Direct
    <2>2. at[w] # "idle" => task[w] \in Transactions /\ task[w] <= taken
      BY <1>1, BusyHasTask
    <2>3. new \in SUBSET Transactions
      BY <1>5, <2>2 DEF Kept, Direct
    <2>4. \A t \in new : t \in Transactions /\ t <= taken
      <3>1. CASE inTransaction[w]
        BY <3>1, OpenTaken
      <3>2. CASE ~inTransaction[w]
        BY <3>2, <2>1, <2>2
      <3>3. QED
        BY <3>1, <3>2
    <2>5. Cardinality(workers) = 1 =>
            \A t \in new : \A i \in 1..n : \A a \in history[i] : a <= t
      <3>1. CASE inTransaction[w]
        BY <3>1 DEF OrderInv, OpenInOrder
      <3>2. CASE ~inTransaction[w]
        BY <3>2, <2>1 DEF OrderInv
      <3>3. QED
        BY <3>1, <3>2
    <2>6. ASSUME Cardinality(workers) = 1, NEW v \in Workers, NEW t \in Transactions
          PROVE  open'[v][t] = <<>>
      <3>1. CASE v = w
        BY <1>1, <1>5, <2>6, <3>1, NothingIsOpen DEF Kept, Direct, OpenIsOwn
      <3>2. CASE v # w
        BY <1>5, <2>1, <2>6, <3>2, OneSession DEF Kept, Direct
      <3>3. QED
        BY <3>1, <3>2
    <2> HIDE DEF new
    <2>7. /\ n \in Nat /\ Len(history') = n + 1
          /\ \A i \in 1..n : history'[i] = history[i] /\ history[i] \subseteq Transactions
          /\ history'[n + 1] = new
      BY <1>1, <2>1, <2>3, AppendProperties
    <2>8. \A i \in 1..Len(history') : \A a \in history'[i] : a <= taken'
      BY <1>2, <2>4, <2>7 DEF OrderInv
    <2>9. ASSUME Cardinality(workers') = 1,
                 NEW i \in 1..Len(history'), NEW j \in 1..Len(history'), i < j,
                 NEW a \in history'[i], NEW b \in history'[j]
          PROVE  a <= b
      <3>1. CASE j \in 1..n
        BY <1>2, <2>7, <2>9, <3>1 DEF OrderInv, OneWorkerKeepsOrder
      <3>2. CASE j = n + 1
        BY <1>2, <2>5, <2>7, <2>9, <3>2
      <3>3. QED
        BY <2>7, <3>1, <3>2
    <2>10. OneWorkerKeepsOrder'
      BY <2>9 DEF OneWorkerKeepsOrder
    <2>11. Cardinality(workers') = 1 => \A v \in Workers : OpenInOrder(v)'
      BY <1>2, <2>6 DEF OpenInOrder
    <2>12. QED
      BY <1>3, <2>8, <2>10, <2>11 DEF OrderInv
  <1>6. QED
    BY <1>4, <1>5 DEF Untaking, Fewer, More

LEMMA TakeKeepsOrder ==
  ASSUME PoolInv, OrderInv, NEW w \in Workers, Take(w)
  PROVE  OrderInv'
  <1> TypeOK
    BY DEF PoolInv
  <1>1. /\ w \in workers /\ at[w] = "idle" /\ taken' = taken + 1
        /\ task' = [task EXCEPT ![w] = taken + 1]
        /\ at' = [at EXCEPT ![w] = "begin"]
        /\ workers' = workers /\ history' = history
        /\ inTransaction' = inTransaction /\ open' = open
    BY DEF Take, Goto, serverVars
  <1>2. /\ at'[w] = "begin" /\ task'[w] = taken'
        /\ \A v \in Workers \ {w} : at'[v] = at[v] /\ task'[v] = task[v]
    BY <1>1 DEF TypeOK
  <1>3. /\ \A v \in Workers : at'[v] # "idle" => v \in workers'
        /\ \A v \in Workers \ workers' : ~inTransaction'[v]
    BY <1>1, <1>2 DEF OrderInv
  <1>4. ASSUME Cardinality(workers') = 1, NEW v \in Workers, at'[v] # "idle"
        PROVE  task'[v] = taken'
    <2>1. IsFiniteSet(workers) /\ Cardinality(workers) = 1
      BY <1>1, <1>4, FS_Subset DEF TypeOK
    <2>2. \E x : workers = {x}
      BY <2>1, FS_Singleton
    <2>3. v = w
      BY <1>1, <1>3, <1>4, <2>2
    <2>4. QED
      BY <1>2, <2>3
  <1>5. history \in Seq(SUBSET Transactions) /\ taken \in Nat
    BY DEF TypeOK
  <1>6. \A t \in Transactions : t <= taken => t <= taken + 1
    BY <1>5 DEF Transactions
  <1>7. \A i \in 1..Len(history') : \A a \in history'[i] : a <= taken'
    <2>1. ASSUME NEW i \in 1..Len(history), NEW a \in history[i] PROVE a <= taken + 1
      <3>1. history[i] \subseteq Transactions
        BY <1>5
      <3>2. QED
        BY <1>6, <3>1 DEF OrderInv
    <2>2. QED
      BY <1>1, <2>1
  <1>8. ASSUME Cardinality(workers') = 1, NEW v \in Workers PROVE OpenInOrder(v)'
    <2>1. OpenInOrder(v)
      BY <1>1, <1>8 DEF OrderInv
    <2>2. QED
      BY <1>1, <2>1 DEF OpenInOrder
  <1>9. OneWorkerKeepsOrder'
    BY <1>1 DEF OrderInv, OneWorkerKeepsOrder
  <1>10. QED
    BY <1>3, <1>4, <1>7, <1>8, <1>9 DEF OrderInv

(* One asynchronous connection, as worldserver.conf.dist sets it: for any  *)
(* number of transactions and whatever fails, the database never takes an  *)
(* older save after a newer one.                                           *)
THEOREM DatabaseKeepsOrder == Spec => []OneWorkerKeepsOrder
  <1>1. Init => OrderInv
    <2> SUFFICES ASSUME Init PROVE OrderInv
      OBVIOUS
    <2>1. /\ Len(history) = 0
          /\ \A w \in Workers : at[w] = "idle" /\ ~inTransaction[w] /\ open[w] = Nothing
      BY EmptySeq DEF Init
    <2>2. QED
      BY <2>1, NothingIsOpen DEF OrderInv, OpenInOrder, OneWorkerKeepsOrder
  <1>2. PoolInv /\ OrderInv /\ [Next]_vars => OrderInv'
    <2> SUFFICES ASSUME PoolInv, OrderInv, [Next]_vars PROVE OrderInv'
      OBVIOUS
    <2>1. CASE \E w \in Workers : Take(w)
      BY <2>1, TakeKeepsOrder
    <2>2. CASE ~\E w \in Workers : Take(w)
      BY <2>2, NextUntaking, UntakingKeepsOrder
    <2>3. QED
      BY <2>1, <2>2
  <1>3. OrderInv => OneWorkerKeepsOrder
    BY DEF OrderInv
  <1>4. QED
    BY <1>1, <1>2, <1>3, Invariant, PTL DEF Spec
=============================================================================
