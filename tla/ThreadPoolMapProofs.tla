------------------------ MODULE ThreadPoolMapProofs ------------------------
(* Proofs about ThreadPoolMap for any finite set of workers.               *)
EXTENDS ThreadPoolMap, FiniteSetTheorems, SequenceTheorems, TLAPS

USE MaxTasksNat DEF Tasks

(* A worker entering or leaving the busy section changes the count by one. *)
LEMMA BusyEnters ==
  ASSUME NEW S \in SUBSET Workers, NEW w \in Workers, w \notin S
  PROVE  /\ Cardinality(S) \in Nat
         /\ Cardinality(S \cup {w}) = Cardinality(S) + 1
  <1>1. IsFiniteSet(S)
    BY WorkersFinite, FS_Subset
  <1>2. QED
    BY <1>1, FS_AddElement, FS_CardinalityType

LEMMA BusyLeaves ==
  ASSUME NEW S \in SUBSET Workers, NEW w \in S
  PROVE  /\ Cardinality(S) \in Nat
         /\ Cardinality(S) >= 1
         /\ Cardinality(S \ {w}) = Cardinality(S) - 1
  <1>1. IsFiniteSet(S)
    BY WorkersFinite, FS_Subset
  <1>2. Cardinality(S \ {w}) = Cardinality(S) - 1
    BY <1>1, FS_RemoveElement
  <1>3. Cardinality(S) \in Nat /\ Cardinality(S \ {w}) \in Nat
    BY <1>1, FS_CardinalityType, FS_Subset
  <1>4. QED
    BY <1>2, <1>3

LEMMA BusySize == Cardinality(Busy) \in Nat
  BY WorkersFinite, FS_Subset, FS_CardinalityType DEF Busy

LEMMA InitInv == Init => PoolInv
  <1> SUFFICES ASSUME Init PROVE PoolInv
    OBVIOUS
  <1>1. Busy = {}
    BY DEF Init, Busy
  <1>2. Cardinality(Busy) = 0
    BY <1>1, FS_EmptySet
  <1>3. queue \in Seq(Tasks) /\ Len(queue) = 0
    BY EmptySeq, Zenon DEF Init
  <1>4. /\ scheduled = 0 /\ requestCount = 0 /\ frozen = FALSE /\ owner = "idle"
        /\ stopper = "no"
        /\ pc = [w \in Workers |-> "loop"] /\ task = [w \in Workers |-> 0]
        /\ ran = [t \in Tasks |-> 0] /\ late = {}
    BY Zenon DEF Init
  <1>types. TypeOK
    <2>1. pc \in [Workers -> WorkerPC] /\ owner \in OwnerPC /\ stopper \in StopperPC
      BY <1>4 DEF WorkerPC, OwnerPC, StopperPC
    <2>2. task \in [Workers -> 0..MaxTasks] /\ ran \in [Tasks -> Nat]
      BY <1>4
    <2>3. late \subseteq Workers /\ scheduled \in 0..MaxTasks
      BY <1>4
    <2>4. requestCount \in Nat /\ frozen \in BOOLEAN
      BY <1>4
    <2>5. QED
      BY <1>3, <2>1, <2>2, <2>3, <2>4 DEF TypeOK
  <1>popped. Popped = 0
    BY <1>3, <1>4 DEF Popped
  <1>5. RequestCountExact
    BY <1>2, <1>3, <1>4 DEF RequestCountExact, Uncounted
  <1>6. QueueIsSuffix /\ PoppedRanOrHeld
    BY <1>3, <1>4, <1>popped DEF QueueIsSuffix, PoppedRanOrHeld
  <1>7. HeldTasks /\ QueuedNotRun /\ AtMostOnce /\ OwnerAt
    BY <1>4 DEF HeldTasks, QueuedNotRun, AtMostOnce, OwnerAt
  <1>8. QED
    BY <1>types, <1>5, <1>6, <1>7 DEF PoolInv

(* A step that neither pushes, takes, runs nor counts off a task.          *)
QuietStep ==
  /\ UNCHANGED <<queue, requestCount, task, scheduled, ran>>
  /\ pc' \in [Workers -> WorkerPC]
  /\ \A w \in Workers :
       /\ pc[w] = "run" <=> pc'[w] = "run"
       /\ pc[w] = "count" <=> pc'[w] = "count"
  /\ frozen' \in BOOLEAN
  /\ late' \subseteq Workers
  /\ stopper' \in StopperPC

LEMMA QuietKeepsInv ==
  ASSUME PoolInv, QuietStep, owner' \in OwnerPC,
         Uncounted' = Uncounted, OwnerAt'
  PROVE  PoolInv'
  <1>1. Busy' = Busy
    BY DEF QuietStep, Busy
  <1>2. TypeOK'
    BY DEF PoolInv, TypeOK, QuietStep
  <1>3. RequestCountExact'
    BY <1>1 DEF PoolInv, RequestCountExact, QuietStep
  <1>4. Popped' = Popped
    BY DEF QuietStep, Popped
  <1>5. QueueIsSuffix' /\ QueuedNotRun' /\ AtMostOnce'
    BY <1>4 DEF PoolInv, QuietStep, QueueIsSuffix, QueuedNotRun, AtMostOnce
  <1>6. HeldTasks'
    BY <1>4 DEF PoolInv, QuietStep, HeldTasks
  <1>7. PoppedRanOrHeld'
    BY <1>4 DEF PoolInv, QuietStep, PoppedRanOrHeld
  <1>8. QED
    BY <1>2, <1>3, <1>5, <1>6, <1>7 DEF PoolInv

LEMMA PushKeepsInv == PoolInv /\ SchedulePush => PoolInv'
  <1> SUFFICES ASSUME PoolInv, SchedulePush PROVE PoolInv'
    OBVIOUS
  <1> USE DEF PoolInv, SchedulePush
  <1>1. /\ pc' \in [Workers -> WorkerPC]
        /\ \A w \in Workers : /\ pc[w] = "run" <=> pc'[w] = "run"
                              /\ pc[w] = "count" <=> pc'[w] = "count"
    BY DEF NotifyOne, TypeOK, WorkerPC
  <1>2. Busy' = Busy
    BY <1>1 DEF Busy
  <1>3. /\ Len(queue') = Len(queue) + 1
        /\ queue' \in Seq(Tasks)
        /\ \A i \in 1..Len(queue) : queue'[i] = queue[i]
        /\ queue'[Len(queue) + 1] = scheduled + 1
    BY DEF TypeOK, OwnerAt
  <1>4. Popped' = Popped /\ Popped \in Nat /\ Popped <= scheduled
    BY <1>3 DEF Popped, TypeOK, QueueIsSuffix
  <1>5. TypeOK'
    <2>1. scheduled' \in 0..MaxTasks
      BY DEF TypeOK, OwnerAt
    <2>2. QED
      BY <1>1, <1>3, <2>1 DEF TypeOK, OwnerPC
  <1>6. RequestCountExact'
    <2>1. Uncounted = 0 /\ Uncounted' = 1
      BY DEF Uncounted
    <2>2. requestCount' = requestCount /\ Cardinality(Busy)' = Cardinality(Busy)
      BY <1>2
    <2>3. QED
      BY <1>3, <2>1, <2>2, BusySize DEF RequestCountExact, TypeOK
  <1>7. QueueIsSuffix'
    <2>1. \A i \in 1..Len(queue') : i \in 1..Len(queue) \/ i = Len(queue) + 1
      BY <1>3 DEF TypeOK
    <2>2. scheduled + 1 = Popped + (Len(queue) + 1)
      BY DEF Popped, TypeOK
    <2>3. Len(queue') <= scheduled'
      BY <1>3 DEF QueueIsSuffix, TypeOK
    <2>4. \A i \in 1..Len(queue') : queue'[i] = Popped' + i
      BY <1>3, <1>4, <2>1, <2>2 DEF QueueIsSuffix
    <2>5. QED
      BY <2>3, <2>4 DEF QueueIsSuffix
  <1>8. HeldTasks'
    BY <1>1, <1>4 DEF HeldTasks
  <1>9. PoppedRanOrHeld'
    BY <1>1, <1>4 DEF PoppedRanOrHeld
  <1>10. QueuedNotRun' /\ AtMostOnce' /\ OwnerAt'
    BY <1>4 DEF QueuedNotRun, AtMostOnce, OwnerAt
  <1>11. QED
    BY <1>5, <1>6, <1>7, <1>8, <1>9, <1>10

LEMMA CountKeepsInv == PoolInv /\ ScheduleCount => PoolInv'
  <1> SUFFICES ASSUME PoolInv, ScheduleCount PROVE PoolInv'
    OBVIOUS
  <1> USE DEF PoolInv, ScheduleCount
  <1>1. Busy' = Busy /\ Popped' = Popped
    BY DEF Busy, Popped
  <1>2. TypeOK'
    BY DEF TypeOK, OwnerPC
  <1>3. RequestCountExact'
    BY <1>1, BusySize DEF RequestCountExact, Uncounted, TypeOK
  <1>4. QueueIsSuffix' /\ QueuedNotRun' /\ AtMostOnce' /\ OwnerAt'
    BY <1>1 DEF QueueIsSuffix, QueuedNotRun, AtMostOnce, OwnerAt
  <1>5. HeldTasks' /\ PoppedRanOrHeld'
    BY <1>1 DEF HeldTasks, PoppedRanOrHeld
  <1>6. QED
    BY <1>2, <1>3, <1>4, <1>5

LEMMA TakeKeepsInv ==
  ASSUME PoolInv, NEW w \in Workers, PopTake(w)
  PROVE  PoolInv'
  <1> USE DEF PoolInv, PopTake
  <1>1. /\ Len(queue) >= 1
        /\ Len(queue') = Len(queue) - 1
        /\ queue' \in Seq(Tasks)
        /\ \A i \in 1..Len(queue') : queue'[i] = queue[i + 1]
        /\ Head(queue) = queue[1]
    BY DEF TypeOK
  <1>2. Popped \in Nat /\ Popped' = Popped + 1 /\ Popped' <= scheduled
    BY <1>1 DEF Popped, TypeOK, QueueIsSuffix
  <1>3. Head(queue) = Popped' /\ Head(queue) \in Tasks
    BY <1>1, <1>2 DEF QueueIsSuffix, TypeOK
  <1>4. pc' = [pc EXCEPT ![w] = "run"] /\ pc \in [Workers -> WorkerPC]
    BY DEF TypeOK
  <1>5. task' = [task EXCEPT ![w] = Popped'] /\ task \in [Workers -> 0..MaxTasks]
    BY <1>3 DEF TypeOK
  <1>6. Busy' = Busy \cup {w} /\ w \notin Busy
    BY <1>4 DEF Busy
  <1>7. Cardinality(Busy') = Cardinality(Busy) + 1 /\ Cardinality(Busy) \in Nat
    BY <1>6, BusyEnters DEF Busy
  <1>8. TypeOK'
    BY <1>1, <1>3 DEF TypeOK, WorkerPC
  <1>9. RequestCountExact'
    BY <1>1, <1>7 DEF RequestCountExact, Uncounted, TypeOK
  <1>10. QueueIsSuffix'
    <2>1. \A i \in 1..Len(queue') : i + 1 \in 1..Len(queue)
      BY <1>1
    <2>2. \A i \in 1..Len(queue') : queue'[i] = Popped' + i
      BY <1>1, <1>2, <2>1 DEF QueueIsSuffix
    <2>3. QED
      BY <1>1, <2>2 DEF QueueIsSuffix, TypeOK
  <1>11. HeldTasks'
    <2> SUFFICES ASSUME NEW v \in Workers, pc'[v] = "run"
                 PROVE  /\ task'[v] \in 1..Popped'
                        /\ ran'[task'[v]] = 0
                        /\ \A u \in Workers :
                             pc'[u] = "run" /\ task'[u] = task'[v] => u = v
      BY DEF HeldTasks
    <2>1. \A u \in Workers : u # w /\ pc'[u] = "run" =>
            pc[u] = "run" /\ task'[u] = task[u] /\ task[u] \in 1..Popped
      BY <1>4, <1>5 DEF HeldTasks
    <2>2. task'[w] = Popped' /\ ran'[Popped'] = 0
      BY <1>2, <1>3, <1>5 DEF QueuedNotRun
    <2>3. CASE v = w
      BY <1>2, <2>1, <2>2, <2>3
    <2>4. CASE v # w
      BY <1>2, <2>1, <2>2, <2>4 DEF HeldTasks
    <2>5. QED
      BY <2>3, <2>4
  <1>12. PoppedRanOrHeld'
    <2> SUFFICES ASSUME NEW t \in 1..Popped'
                 PROVE  ran'[t] = 1 \/ \E v \in Workers : pc'[v] = "run" /\ task'[v] = t
      BY DEF PoppedRanOrHeld
    <2>1. CASE t = Popped'
      BY <1>4, <1>5, <2>1
    <2>2. CASE t # Popped'
      <3>1. t \in 1..Popped
        BY <1>2, <2>2
      <3>2. \A v \in Workers : pc[v] = "run" =>
              pc'[v] = "run" /\ task'[v] = task[v]
        BY <1>4, <1>5
      <3>3. QED
        BY <3>1, <3>2 DEF PoppedRanOrHeld
    <2>3. QED
      BY <2>1, <2>2
  <1>13. QueuedNotRun' /\ AtMostOnce' /\ OwnerAt'
    BY <1>2 DEF QueuedNotRun, AtMostOnce, OwnerAt
  <1>14. QED
    BY <1>8, <1>9, <1>10, <1>11, <1>12, <1>13

LEMMA RunKeepsInv ==
  ASSUME PoolInv, NEW w \in Workers, RunTask(w)
  PROVE  PoolInv'
  <1> USE DEF PoolInv, RunTask
  <1>1. Busy' = Busy /\ Popped' = Popped
    BY DEF Busy, Popped, TypeOK
  <1>2. /\ task[w] \in 1..Popped
        /\ task[w] \in Tasks
        /\ ran[task[w]] = 0
    BY DEF HeldTasks, Popped, QueueIsSuffix, TypeOK
  <1>3. /\ ran' \in [Tasks -> Nat]
        /\ ran'[task[w]] = 1
        /\ \A t \in Tasks : t # task[w] => ran'[t] = ran[t]
    BY <1>2 DEF TypeOK
  <1>4. TypeOK'
    BY <1>3 DEF TypeOK, WorkerPC
  <1>5. RequestCountExact'
    BY <1>1 DEF RequestCountExact, Uncounted
  <1>6. QueueIsSuffix' /\ OwnerAt'
    BY <1>1 DEF QueueIsSuffix, OwnerAt
  <1>7. AtMostOnce' /\ QueuedNotRun'
    <2>1. Popped \in Nat /\ Popped' = Popped
      BY <1>1 DEF Popped, QueueIsSuffix, TypeOK
    <2>2. \A t \in Tasks : t > Popped => t # task[w]
      BY <1>2, <2>1
    <2>3. QueuedNotRun'
      BY <1>3, <2>1, <2>2 DEF QueuedNotRun
    <2>4. AtMostOnce'
      BY <1>3 DEF AtMostOnce
    <2>5. QED
      BY <2>3, <2>4
  <1>8. HeldTasks'
    <2>1. \A v \in Workers : pc'[v] = "run" => v # w /\ pc[v] = "run"
      BY DEF TypeOK
    <2>2. \A v \in Workers : pc'[v] = "run" => task[v] # task[w] /\ task[v] \in Tasks
      BY <2>1 DEF HeldTasks, TypeOK, Popped, QueueIsSuffix
    <2>3. QED
      BY <1>1, <1>3, <2>1, <2>2 DEF HeldTasks
  <1>9. PoppedRanOrHeld'
    <2>1. \A v \in Workers : pc[v] = "run" /\ v # w => pc'[v] = "run"
      BY DEF TypeOK
    <2>2. \A t \in 1..Popped : t \in Tasks
      BY DEF Popped, QueueIsSuffix, TypeOK
    <2>3. QED
      BY <1>1, <1>3, <2>1, <2>2 DEF PoppedRanOrHeld
  <1>10. QED
    BY <1>4, <1>5, <1>6, <1>7, <1>8, <1>9

LEMMA CountOffKeepsInv ==
  ASSUME PoolInv, NEW w \in Workers, CountOff(w)
  PROVE  PoolInv'
  <1> USE DEF PoolInv, CountOff
  <1>owner. owner' \in OwnerPC /\ (owner' = "drained" => owner = "drained")
            /\ (owner' = "push" => owner = "push")
            /\ (owner' = "enter" => owner = "enter")
    BY DEF NotifyOwner, TypeOK, OwnerPC
  <1>1. w \in Busy /\ Busy' = Busy \ {w}
    BY DEF Busy, TypeOK
  <1>2. /\ Cardinality(Busy) \in Nat
        /\ Cardinality(Busy) >= 1
        /\ Cardinality(Busy') = Cardinality(Busy) - 1
    BY <1>1, BusyLeaves DEF Busy
  <1>3. Uncounted = 0 /\ Uncounted' = 0
    BY <1>owner DEF Uncounted, LockFree
  <1>4. requestCount = Len(queue) + Cardinality(Busy) /\ Len(queue) \in Nat
    BY <1>3 DEF RequestCountExact, TypeOK
  <1>5. requestCount' \in Nat /\ requestCount # 0
    BY <1>2, <1>4 DEF TypeOK
  <1>6. TypeOK'
    BY <1>owner, <1>5 DEF TypeOK, WorkerPC
  <1>7. RequestCountExact'
    BY <1>2, <1>3, <1>4 DEF RequestCountExact, TypeOK
  <1>8. OwnerAt'
    BY <1>owner, <1>5 DEF OwnerAt
  <1>9. Popped' = Popped
    BY DEF Popped
  <1>10. QueueIsSuffix' /\ QueuedNotRun' /\ AtMostOnce'
    BY <1>9 DEF QueueIsSuffix, QueuedNotRun, AtMostOnce
  <1>11. HeldTasks'
    BY <1>9 DEF HeldTasks, TypeOK
  <1>12. PoppedRanOrHeld'
    BY <1>9 DEF PoppedRanOrHeld, TypeOK
  <1>13. QED
    BY <1>6, <1>7, <1>8, <1>10, <1>11, <1>12

LEMMA StepInv == PoolInv /\ [Next]_vars => PoolInv'
  <1> SUFFICES ASSUME PoolInv, [Next]_vars PROVE PoolInv'
    OBVIOUS
  <1> USE DEF PoolInv
  <1>1. CASE SchedulePush
    BY <1>1, PushKeepsInv
  <1>2. CASE ScheduleCount
    BY <1>2, CountKeepsInv
  <1>3. CASE ScheduleEnter \/ WaitEnter \/ WaitSleep \/ WaitSpurious
    <2>1. QuietStep /\ owner' \in OwnerPC /\ Uncounted' = Uncounted /\ OwnerAt'
      BY <1>3 DEF ScheduleEnter, WaitEnter, WaitSleep, WaitSpurious, QuietStep, TypeOK, OwnerPC, Uncounted, OwnerAt
    <2>2. QED
      BY <2>1, QuietKeepsInv
  <1>4. CASE WaitReturn
    <2>1. QuietStep /\ owner' \in OwnerPC /\ Uncounted' = Uncounted /\ OwnerAt'
      BY <1>4 DEF WaitReturn, QuietStep, TypeOK, OwnerPC, Uncounted, OwnerAt
    <2>2. QED
      BY <2>1, QuietKeepsInv
  <1>5. CASE StopFreeze
    <2>1. QuietStep
      BY <1>5 DEF StopFreeze, NotifyAll, QuietStep, TypeOK, WorkerPC, StopperPC
    <2>2. owner' \in OwnerPC /\ Uncounted' = Uncounted /\ OwnerAt'
      BY <1>5 DEF StopFreeze, TypeOK, Uncounted, OwnerAt
    <2>3. QED
      BY <2>1, <2>2, QuietKeepsInv
  <1>6. CASE StopJoined
    <2>1. QuietStep /\ owner' \in OwnerPC /\ Uncounted' = Uncounted /\ OwnerAt'
      BY <1>6 DEF StopJoined, QuietStep, TypeOK, StopperPC, Uncounted, OwnerAt
    <2>2. QED
      BY <2>1, QuietKeepsInv
  <1>7. ASSUME NEW w \in Workers,
               PopEnter(w) \/ PopFrozen(w) \/ PopPredicateFalse(w) \/ PopSleep(w)
                 \/ SpuriousWakeup(w)
        PROVE  PoolInv'
    <2>1. QuietStep
      BY <1>7 DEF PopEnter, PopFrozen, PopPredicateFalse, PopSleep, SpuriousWakeup,
                  QuietStep, TypeOK, WorkerPC
    <2>2. owner' \in OwnerPC /\ Uncounted' = Uncounted /\ OwnerAt'
      BY <1>7 DEF PopEnter, PopFrozen, PopPredicateFalse, PopSleep, SpuriousWakeup,
                  TypeOK, OwnerPC, Uncounted, OwnerAt
    <2>3. QED
      BY <2>1, <2>2, QuietKeepsInv
  <1>8. ASSUME NEW w \in Workers, PopTake(w)
        PROVE  PoolInv'
    BY <1>8, TakeKeepsInv
  <1>9. ASSUME NEW w \in Workers, RunTask(w)
        PROVE  PoolInv'
    BY <1>9, RunKeepsInv
  <1>10. ASSUME NEW w \in Workers, CountOff(w)
         PROVE  PoolInv'
    BY <1>10, CountOffKeepsInv
  <1>11. CASE UNCHANGED vars
    <2>1. QuietStep /\ owner' \in OwnerPC /\ Uncounted' = Uncounted /\ OwnerAt'
      BY <1>11 DEF vars, QuietStep, TypeOK, Uncounted, OwnerAt
    <2>2. QED
      BY <2>1, QuietKeepsInv
  <1>12. QED
    BY <1>1, <1>2, <1>3, <1>4, <1>5, <1>6, <1>7, <1>8, <1>9, <1>10, <1>11
       DEF Next, OwnerNext, StopperNext, WorkerStep

LEMMA PoolInvariant == Spec => []PoolInv
  BY InitInv, StepInv, PTL DEF Spec

(***************************************************************************)
(* Every variable keeps its type; requestCount_ never goes negative, which *)
(* is what lock_ around push-and-count is for.                             *)
(***************************************************************************)
THEOREM PoolTypeCorrect == Spec => []TypeOK
  <1>1. PoolInv => TypeOK
    BY DEF PoolInv
  <1>2. QED
    BY <1>1, PoolInvariant, PTL

(***************************************************************************)
(* requestCount_ counts the queued and the running tasks at every instant. *)
(***************************************************************************)
THEOREM PoolCountExact == Spec => []RequestCountExact
  <1>1. PoolInv => RequestCountExact
    BY DEF PoolInv
  <1>2. QED
    BY <1>1, PoolInvariant, PTL

(***************************************************************************)
(* No task runs twice, for any number of workers and tasks.                *)
(***************************************************************************)
THEOREM PoolAtMostOnce == Spec => []AtMostOnce
  <1>1. PoolInv => AtMostOnce
    BY DEF PoolInv
  <1>2. QED
    BY <1>1, PoolInvariant, PTL

(***************************************************************************)
(* wait() is a barrier: once it returned, nothing is queued or running and *)
(* every task the queue took ran exactly once, whenever stop() comes.      *)
(***************************************************************************)
THEOREM PoolBarrier == Spec => []WaitIsBarrier
  <1>1. PoolInv => WaitIsBarrier
    <2> SUFFICES ASSUME PoolInv, owner = "drained"
                 PROVE  /\ queue = <<>>
                        /\ Busy = {}
                        /\ \A t \in 1..scheduled : ran[t] = 1
      BY DEF WaitIsBarrier
    <2> USE DEF PoolInv
    <2>1. requestCount = 0 /\ Uncounted = 0
      BY DEF OwnerAt, Uncounted
    <2>2. Len(queue) = 0 /\ Cardinality(Busy) = 0
      BY <2>1, BusySize DEF RequestCountExact, TypeOK
    <2>3. queue = <<>>
      BY <2>2 DEF TypeOK
    <2>4. Busy = {}
      <3>1. IsFiniteSet(Busy)
        BY WorkersFinite, FS_Subset DEF Busy
      <3>2. QED
        BY <2>2, <3>1, FS_EmptySet
    <2>5. Popped = scheduled
      BY <2>2 DEF Popped, TypeOK
    <2>6. \A t \in 1..scheduled : ran[t] = 1
      BY <2>4, <2>5 DEF PoppedRanOrHeld, Busy
    <2>7. QED
      BY <2>3, <2>4, <2>6
  <1>2. QED
    BY <1>1, PoolInvariant, PTL

LEMMA StepLate ==
  ASSUME PoolInv, OnlyLateWorkersSleep, [Next]_vars
  PROVE  OnlyLateWorkersSleep'
  <1> USE DEF PoolInv, TypeOK, OnlyLateWorkersSleep
  <1>1. CASE SchedulePush
    BY <1>1 DEF SchedulePush, NotifyOne
  <1>2. CASE \/ ScheduleEnter \/ ScheduleCount
             \/ WaitEnter \/ WaitReturn \/ WaitSleep \/ WaitSpurious \/ StopJoined
    BY <1>2 DEF ScheduleEnter, ScheduleCount, WaitEnter, WaitReturn, WaitSleep,
                WaitSpurious, StopJoined
  <1>3. CASE StopFreeze
    BY <1>3 DEF StopFreeze, NotifyAll
  <1>4. ASSUME NEW w \in Workers, WorkerStep(w) \/ SpuriousWakeup(w)
        PROVE  OnlyLateWorkersSleep'
    <2>1. frozen' = frozen /\ late' = late
      BY <1>4 DEF WorkerStep, PopEnter, PopFrozen, PopTake, PopPredicateFalse, PopSleep,
                  RunTask, CountOff, SpuriousWakeup
    <2>2. \A v \in Workers : v # w => pc'[v] = pc[v]
      BY <1>4 DEF WorkerStep, PopEnter, PopFrozen, PopTake, PopPredicateFalse, PopSleep,
                  RunTask, CountOff, SpuriousWakeup
    <2>3. frozen /\ pc'[w] \in {"presleep", "asleep"} => pc[w] = "presleep"
      BY <1>4 DEF WorkerStep, PopEnter, PopFrozen, PopTake, PopPredicateFalse, PopSleep,
                  RunTask, CountOff, SpuriousWakeup
    <2>4. QED
      BY <2>1, <2>2, <2>3
  <1>5. CASE UNCHANGED vars
    BY <1>5 DEF vars
  <1>6. QED
    BY <1>1, <1>2, <1>3, <1>4, <1>5 DEF Next, OwnerNext, StopperNext

(***************************************************************************)
(* freeze() takes no lock, and the only worker that can sleep through it   *)
(* is one that was between the predicate and the sleep: stop() hangs on    *)
(* nothing else, whatever the number of workers and tasks.                 *)
(***************************************************************************)
THEOREM PoolOnlyLateSleep == Spec => []OnlyLateWorkersSleep
  <1>1. Init => OnlyLateWorkersSleep
    BY DEF Init, OnlyLateWorkersSleep
  <1>2. PoolInv /\ OnlyLateWorkersSleep /\ [Next]_vars => OnlyLateWorkersSleep'
    BY StepLate
  <1>3. QED
    BY <1>1, <1>2, PoolInvariant, PTL DEF Spec
=============================================================================
