--------------------------- MODULE ThreadPoolMap ---------------------------
(***************************************************************************)
(* The per-map worker pool (ThreadPoolMap) over its SynchronizedQueue.     *)
(*                                                                         *)
(* One owner thread - the map's update thread - schedules a batch of       *)
(* tasks, calls wait() as a barrier, and does so again every tick.  The    *)
(* map's destructor calls stop() once, from the thread that unloads the    *)
(* maps: MapManager::UnloadAll tells the update loops to end and gives     *)
(* them one second, so a longer tick is still scheduling or waiting when   *)
(* the queue freezes.  Each worker runs threadFunc: pop a task, run it,    *)
(* take lock_ and count it off.                                            *)
(*                                                                         *)
(* Both locks are modelled where their holder can be observed between two  *)
(* steps: lock_ while schedule() is between its frozen() test, its push    *)
(* and its count, mutex_ while a worker has evaluated the wait predicate   *)
(* but does not sleep yet.  The second gap matters because freeze() takes  *)
(* no lock at all.  wait() has no such gap: its predicate and the          *)
(* decrement with its notify_all are both made under lock_, so the owner   *)
(* tests requestCount_ and falls asleep on waitCond_ in one step.          *)
(***************************************************************************)
EXTENDS Integers, Sequences, FiniteSets

CONSTANTS Workers,    \* the threads start() creates
          MaxTasks    \* bound on the number of schedule() calls

ASSUME WorkersFinite  == IsFiniteSet(Workers)
ASSUME MaxTasksNat    == MaxTasks \in Nat

VARIABLES
  queue,          \* SynchronizedQueue::queue_, tasks are numbered as scheduled
  frozen,         \* SynchronizedQueue::frozen_
  requestCount,   \* ThreadPoolMap::requestCount_
  pc,             \* pc[w]: where worker w is in threadFunc / pop
  task,           \* task[w]: the functor f of worker w (0: moved-from)
  owner,          \* where the owner thread is in schedule / wait
  stopper,        \* where the thread that destroys the map is in stop
  scheduled,      \* number of tasks pushed so far
  ran,            \* history: ran[t] is how often task t was run
  late            \* history: the workers between predicate and sleep at freeze()

vars == <<queue, frozen, requestCount, pc, task, owner, stopper, scheduled, ran, late>>

Tasks == 1..MaxTasks

(***************************************************************************)
(* Worker program points:                                                  *)
(*   "loop"     about to call pop                                          *)
(*   "acquire"  past pop's first frozen() test, about to take mutex_       *)
(*   "presleep" holds mutex_, predicate was false, not yet in the wait set *)
(*   "asleep"   blocked in waitCond_.wait, mutex_ released                 *)
(*   "run"      holds a task popped from the queue, inside f()             *)
(*   "count"    f() returned, about to take lock_ and decrement            *)
(*   "exit"     threadFunc returned                                        *)
(* Owner program points:                                                   *)
(*   "idle"     in the update, with tasks perhaps scheduled                *)
(*   "enter"    in schedule(): holds lock_, saw the queue not frozen       *)
(*   "push"     in schedule(): holds lock_, task pushed but not counted    *)
(*   "wait"     in wait(), about to test requestCount_ under lock_         *)
(*   "blocked"  asleep on the pool's waitCond_, lock_ released             *)
(*   "drained"  the last wait() has returned                               *)
(* Points of the thread that destroys the map: "no" (not yet in stop()),   *)
(* "join" (queue frozen, joining), "stopped" (the pool is deleted next).   *)
(***************************************************************************)
WorkerPC == {"loop", "acquire", "presleep", "asleep", "run", "count", "exit"}
OwnerPC  == {"idle", "enter", "push", "wait", "blocked", "drained"}
StopperPC == {"no", "join", "stopped"}

TypeOK ==
  /\ queue \in Seq(Tasks)
  /\ frozen \in BOOLEAN
  /\ requestCount \in Nat
  /\ pc \in [Workers -> WorkerPC]
  /\ task \in [Workers -> 0..MaxTasks]
  /\ owner \in OwnerPC
  /\ stopper \in StopperPC
  /\ scheduled \in 0..MaxTasks
  /\ ran \in [Tasks -> Nat]
  /\ late \subseteq Workers

Init ==
  /\ queue = <<>>
  /\ frozen = FALSE
  /\ requestCount = 0
  /\ pc = [w \in Workers |-> "loop"]
  /\ task = [w \in Workers |-> 0]
  /\ owner = "idle"
  /\ stopper = "no"
  /\ scheduled = 0
  /\ ran = [t \in Tasks |-> 0]
  /\ late = {}

MutexFree == \A w \in Workers : pc[w] # "presleep"
LockFree  == owner \notin {"enter", "push"}

(* ~Map deletes the pool after stop(): nobody's later step is described.   *)
PoolAlive == stopper # "stopped"
-----------------------------------------------------------------------------
(* Waking: notify_one moves one sleeper, if any, back to re-acquire.       *)
NotifyOne ==
  IF \E w \in Workers : pc[w] = "asleep"
  THEN \E w \in Workers : pc[w] = "asleep" /\ pc' = [pc EXCEPT ![w] = "acquire"]
  ELSE UNCHANGED pc

NotifyAll ==
  pc' = [w \in Workers |-> IF pc[w] = "asleep" THEN "acquire" ELSE pc[w]]

(* schedule(): takes lock_ and, in push, reads frozen().  On a frozen      *)
(* queue the task is dropped and not counted, and nothing changes.         *)
ScheduleEnter ==
  /\ owner \in {"idle", "drained"}
  /\ PoolAlive
  /\ scheduled < MaxTasks
  /\ ~frozen
  /\ owner' = "enter"
  /\ UNCHANGED <<queue, frozen, requestCount, pc, task, stopper, scheduled, ran, late>>

(* Mutant: push forgets its notify_one.                                     *)
SchedulePushSilent ==
  /\ owner = "enter"
  /\ PoolAlive
  /\ MutexFree
  /\ scheduled' = scheduled + 1
  /\ queue' = Append(queue, scheduled + 1)
  /\ owner' = "push"
  /\ UNCHANGED <<frozen, requestCount, pc, task, stopper, ran, late>>

(* push: under mutex_, and notify_one - even if stop() froze it meanwhile. *)
SchedulePush ==
  /\ owner = "enter"
  /\ PoolAlive
  /\ MutexFree
  /\ scheduled' = scheduled + 1
  /\ queue' = Append(queue, scheduled + 1)
  /\ NotifyOne
  /\ owner' = "push"
  /\ UNCHANGED <<frozen, requestCount, task, stopper, ran, late>>

(* ... and then ++requestCount_, releasing lock_.                          *)
ScheduleCount ==
  /\ owner = "push"
  /\ PoolAlive
  /\ requestCount' = requestCount + 1
  /\ owner' = "idle"
  /\ UNCHANGED <<queue, frozen, pc, task, stopper, scheduled, ran, late>>

(* wait(): the owner takes lock_ to test requestCount_ == 0 ...            *)
WaitEnter ==
  /\ owner = "idle"
  /\ PoolAlive
  /\ owner' = "wait"
  /\ UNCHANGED <<queue, frozen, requestCount, pc, task, stopper, scheduled, ran, late>>

(* Mutant: wait() tests the queue instead of the count.                     *)
WaitReturnOnEmptyQueue ==
  /\ owner = "wait"
  /\ PoolAlive
  /\ queue = <<>>
  /\ owner' = "drained"
  /\ UNCHANGED <<queue, frozen, requestCount, pc, task, stopper, scheduled, ran, late>>

(* ... returns if it holds ...                                             *)
WaitReturn ==
  /\ owner = "wait"
  /\ PoolAlive
  /\ requestCount = 0
  /\ owner' = "drained"
  /\ UNCHANGED <<queue, frozen, requestCount, pc, task, stopper, scheduled, ran, late>>

(* ... and else sleeps on waitCond_ until it is notified, ...               *)
WaitSleep ==
  /\ owner = "wait"
  /\ PoolAlive
  /\ requestCount # 0
  /\ owner' = "blocked"
  /\ UNCHANGED <<queue, frozen, requestCount, pc, task, stopper, scheduled, ran, late>>

(* ... or until the condition variable wakes it without a notification.    *)
WaitSpurious ==
  /\ owner = "blocked"
  /\ PoolAlive
  /\ owner' = "wait"
  /\ UNCHANGED <<queue, frozen, requestCount, pc, task, stopper, scheduled, ran, late>>

(* Mutants: freeze() notifies one sleeper, or none.                         *)
StopFreezeNotifyOne ==
  /\ stopper = "no"
  /\ ~frozen
  /\ frozen' = TRUE
  /\ NotifyOne
  /\ stopper' = "join"
  /\ late' = {w \in Workers : pc[w] = "presleep"}
  /\ UNCHANGED <<queue, requestCount, task, owner, scheduled, ran>>

StopFreezeSilent ==
  /\ stopper = "no"
  /\ ~frozen
  /\ frozen' = TRUE
  /\ stopper' = "join"
  /\ late' = {w \in Workers : pc[w] = "presleep"}
  /\ UNCHANGED <<queue, requestCount, pc, task, owner, scheduled, ran>>

(* stop(): freeze the queue - the store and the notify_all take no lock -  *)
(* and join every thread, wherever the map's update is.                    *)
StopFreeze ==
  /\ stopper = "no"
  /\ ~frozen
  /\ frozen' = TRUE
  /\ NotifyAll
  /\ stopper' = "join"
  /\ late' = {w \in Workers : pc[w] = "presleep"}
  /\ UNCHANGED <<queue, requestCount, task, owner, scheduled, ran>>

StopJoined ==
  /\ stopper = "join"
  /\ \A w \in Workers : pc[w] = "exit"
  /\ stopper' = "stopped"
  /\ UNCHANGED <<queue, frozen, requestCount, pc, task, owner, scheduled, ran, late>>
-----------------------------------------------------------------------------
(* pop(): the first, unlocked frozen() test.                               *)
PopEnter(w) ==
  /\ pc[w] = "loop"
  /\ pc' = [pc EXCEPT ![w] = IF frozen THEN "exit" ELSE "acquire"]
  /\ UNCHANGED <<queue, frozen, requestCount, task, owner, stopper, scheduled, ran, late>>

(* pop(): with mutex_ taken, the predicate and the second frozen() test.   *)
PopFrozen(w) ==
  /\ pc[w] = "acquire"
  /\ MutexFree
  /\ frozen
  /\ pc' = [pc EXCEPT ![w] = "exit"]
  /\ UNCHANGED <<queue, frozen, requestCount, task, owner, stopper, scheduled, ran, late>>

(* Mutants: front() without pop_front(); the request counted off at the pop. *)
PopTakeKeepsFront(w) ==
  /\ pc[w] = "acquire"
  /\ MutexFree
  /\ ~frozen
  /\ queue # <<>>
  /\ task' = [task EXCEPT ![w] = Head(queue)]
  /\ UNCHANGED queue
  /\ pc' = [pc EXCEPT ![w] = "run"]
  /\ UNCHANGED <<frozen, requestCount, owner, stopper, scheduled, ran, late>>

PopTakeCountsOff(w) ==
  /\ pc[w] = "acquire"
  /\ MutexFree
  /\ ~frozen
  /\ queue # <<>>
  /\ requestCount > 0
  /\ requestCount' = requestCount - 1
  /\ task' = [task EXCEPT ![w] = Head(queue)]
  /\ queue' = Tail(queue)
  /\ pc' = [pc EXCEPT ![w] = "run"]
  /\ UNCHANGED <<frozen, owner, stopper, scheduled, ran, late>>

PopTake(w) ==
  /\ pc[w] = "acquire"
  /\ MutexFree
  /\ ~frozen
  /\ queue # <<>>
  /\ task' = [task EXCEPT ![w] = Head(queue)]
  /\ queue' = Tail(queue)
  /\ pc' = [pc EXCEPT ![w] = "run"]
  /\ UNCHANGED <<frozen, requestCount, owner, stopper, scheduled, ran, late>>

PopPredicateFalse(w) ==
  /\ pc[w] = "acquire"
  /\ MutexFree
  /\ ~frozen
  /\ queue = <<>>
  /\ pc' = [pc EXCEPT ![w] = "presleep"]
  /\ UNCHANGED <<queue, frozen, requestCount, task, owner, stopper, scheduled, ran, late>>

PopSleep(w) ==
  /\ pc[w] = "presleep"
  /\ pc' = [pc EXCEPT ![w] = "asleep"]
  /\ UNCHANGED <<queue, frozen, requestCount, task, owner, stopper, scheduled, ran, late>>

(* A condition variable may wake without a notification.                   *)
SpuriousWakeup(w) ==
  /\ pc[w] = "asleep"
  /\ pc' = [pc EXCEPT ![w] = "acquire"]
  /\ UNCHANGED <<queue, frozen, requestCount, task, owner, stopper, scheduled, ran, late>>

(* threadFunc: f() ...                                                     *)
RunTask(w) ==
  /\ pc[w] = "run"
  /\ ran' = [ran EXCEPT ![task[w]] = @ + 1]
  /\ pc' = [pc EXCEPT ![w] = "count"]
  /\ UNCHANGED <<queue, frozen, requestCount, task, owner, stopper, scheduled, late>>

(* notify_all on waitCond_: the owner, if asleep there, tests again.       *)
NotifyOwner ==
  owner' = IF requestCount' = 0 /\ owner = "blocked" THEN "wait" ELSE owner

(* Mutants: the decrement without lock_; without notify_all at zero.        *)
CountOffUnlocked(w) ==
  /\ pc[w] = "count"
  /\ requestCount' = requestCount - 1
  /\ NotifyOwner
  /\ pc' = [pc EXCEPT ![w] = "loop"]
  /\ UNCHANGED <<queue, frozen, task, stopper, scheduled, ran, late>>

CountOffSilent(w) ==
  /\ pc[w] = "count"
  /\ LockFree
  /\ requestCount' = requestCount - 1
  /\ pc' = [pc EXCEPT ![w] = "loop"]
  /\ UNCHANGED <<queue, frozen, task, owner, stopper, scheduled, ran, late>>

(* ... and the decrement under lock_, with notify_all when it hits 0.      *)
CountOff(w) ==
  /\ pc[w] = "count"
  /\ LockFree
  /\ requestCount' = requestCount - 1
  /\ NotifyOwner
  /\ pc' = [pc EXCEPT ![w] = "loop"]
  /\ UNCHANGED <<queue, frozen, task, stopper, scheduled, ran, late>>
-----------------------------------------------------------------------------
OwnerNext ==
  \/ ScheduleEnter
  \/ SchedulePush
  \/ ScheduleCount
  \/ WaitEnter
  \/ WaitReturn
  \/ WaitSleep
  \/ WaitSpurious

StopperNext ==
  \/ StopFreeze
  \/ StopJoined

WorkerStep(w) ==
  \/ PopEnter(w)
  \/ PopFrozen(w)
  \/ PopTake(w)
  \/ PopPredicateFalse(w)
  \/ PopSleep(w)
  \/ RunTask(w)
  \/ CountOff(w)

Next ==
  \/ OwnerNext
  \/ StopperNext
  \/ \E w \in Workers : WorkerStep(w)
  \/ \E w \in Workers : SpuriousWakeup(w)

Spec == Init /\ [][Next]_vars

(***************************************************************************)
(* Fairness.  The operating system schedules every runnable thread (WF),   *)
(* so nobody stays forever in schedule(), wait() or stop() who can leave,  *)
(* and a thread asking for a mutex that is free again and again gets it    *)
(* (SF).  Nobody is obliged to schedule, to stop or to wake spuriously:    *)
(* an owner asleep in wait() goes on only when it is notified.             *)
(***************************************************************************)
Fairness ==
  /\ SF_vars(SchedulePush)
  /\ WF_vars(ScheduleCount)
  /\ WF_vars(WaitReturn \/ WaitSleep)
  /\ WF_vars(StopJoined)
  /\ \A w \in Workers :
       /\ WF_vars(PopEnter(w))
       /\ WF_vars(PopSleep(w))
       /\ WF_vars(RunTask(w))
       /\ SF_vars(PopFrozen(w) \/ PopTake(w) \/ PopPredicateFalse(w))
       /\ SF_vars(CountOff(w))

FairSpec == Spec /\ Fairness
-----------------------------------------------------------------------------
Busy == {w \in Workers : pc[w] \in {"run", "count"}}

Uncounted == IF owner = "push" THEN 1 ELSE 0

(***************************************************************************)
(* requestCount_ is exact at every instant: it counts the tasks queued and *)
(* the tasks a worker holds, short of the one schedule() has pushed and    *)
(* not yet counted.  A worker may pop and run that task first; only lock_  *)
(* keeps it from decrementing below zero.                                  *)
(***************************************************************************)
RequestCountExact ==
  requestCount + Uncounted = Len(queue) + Cardinality(Busy)

(***************************************************************************)
(* wait() is a barrier: when it returns, no task is queued, none is inside *)
(* f(), and everything the queue took ran.  Map::Update relies on it to    *)
(* touch the objects the tasks were updating, also when stop() freezes the *)
(* queue under it.                                                         *)
(***************************************************************************)
WaitIsBarrier ==
  owner = "drained" =>
    /\ queue = <<>>
    /\ Busy = {}
    /\ \A t \in 1..scheduled : ran[t] = 1

(***************************************************************************)
(* No task runs twice, however the pops, the spurious wake-ups and the     *)
(* freeze interleave.                                                      *)
(***************************************************************************)
AtMostOnce == \A t \in Tasks : ran[t] <= 1

(***************************************************************************)
(* wait() always returns: no worker sleeps over a queued task (push        *)
(* notifies after a push made under the mutex the predicate is evaluated   *)
(* under), and the owner does not sleep over a count that has reached zero *)
(* (the decrement notifies under the lock it tests under).  The exception  *)
(* is a stop() from the unloading thread: tasks queued at the freeze are   *)
(* never popped, so a wait() for them never ends, and once stop() is done  *)
(* the pool is deleted under whoever still waits.                          *)
(***************************************************************************)
WaitReturns ==
  (owner \in {"wait", "blocked"}) ~>
    (owner = "drained" \/ (frozen /\ queue # <<>>) \/ ~PoolAlive)

(***************************************************************************)
(* stop() joins every worker, provided none of them was between the wait   *)
(* predicate and the sleep when freeze() ran.  freeze() stores the flag    *)
(* and notifies without mutex_, so such a worker sleeps after the notify   *)
(* and nothing wakes it: that gap, and no other interleaving, hangs the    *)
(* map's destructor.                                                       *)
(***************************************************************************)
StopReturnsUnlessLate == (stopper = "join" /\ late = {}) ~> (stopper = "stopped")

(***************************************************************************)
(* Nothing else is ever left asleep: a worker blocked on the condition     *)
(* variable of a frozen queue was in the gap at freeze().                  *)
(***************************************************************************)
OnlyLateWorkersSleep ==
  \A w \in Workers : frozen /\ pc[w] \in {"presleep", "asleep"} => w \in late

-----------------------------------------------------------------------------
(***************************************************************************)
(* The inductive invariant behind the barrier.  The queue is a suffix of   *)
(* the scheduled tasks, so the popped ones are 1..Popped; each of them ran *)
(* or is in the hands of exactly one worker that has yet to run it.        *)
(***************************************************************************)
Popped == scheduled - Len(queue)

QueueIsSuffix ==
  /\ Len(queue) <= scheduled
  /\ \A i \in 1..Len(queue) : queue[i] = Popped + i

HeldTasks ==
  \A w \in Workers : pc[w] = "run" =>
    /\ task[w] \in 1..Popped
    /\ ran[task[w]] = 0
    /\ \A v \in Workers : pc[v] = "run" /\ task[v] = task[w] => v = w

PoppedRanOrHeld ==
  \A t \in 1..Popped :
    ran[t] = 1 \/ \E w \in Workers : pc[w] = "run" /\ task[w] = t

QueuedNotRun == \A t \in Tasks : t > Popped => ran[t] = 0

OwnerAt ==
  /\ owner = "drained" => requestCount = 0
  /\ owner = "enter" => scheduled < MaxTasks

PoolInv ==
  /\ TypeOK
  /\ RequestCountExact
  /\ QueueIsSuffix
  /\ HeldTasks
  /\ PoppedRanOrHeld
  /\ QueuedNotRun
  /\ AtMostOnce
  /\ OwnerAt

=============================================================================
