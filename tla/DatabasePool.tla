---------------------------- MODULE DatabasePool ----------------------------
(***************************************************************************)
(* Asynchronous transactions of a DatabaseWorkerPool.                      *)
(*                                                                         *)
(* CommitTransaction posts a transaction to the pool's io_context, whose   *)
(* threads each own a connection: START TRANSACTION, the statements, then  *)
(* COMMIT, or ROLLBACK when a statement fails.  A transaction that         *)
(* deadlocked is tried again, by one thread at a time, for a minute.  Each *)
(* statement by itself handles the loss of the connection: it reconnects   *)
(* and runs again - in a new session, where no transaction is open and     *)
(* every statement commits at once.  What START TRANSACTION, COMMIT and    *)
(* ROLLBACK answer is not looked at: when one fails, the worker goes on as *)
(* if it had not, and a session may be left with a transaction open, which *)
(* the next START TRANSACTION commits.                                     *)
(*                                                                         *)
(* Transactions are numbered as they are posted and taken in that order,   *)
(* so the io_context's queue is (taken + 1)..posted.                       *)
(***************************************************************************)
EXTENDS Naturals, Sequences, FiniteSets

CONSTANTS Workers, NoWorker,
          MaxPosted,       \* bound on the transactions posted
          Length,          \* the statements of a transaction
          MaxFailures,     \* bound on the commands that fail
          MaxLosses        \* bound on the connections lost

ASSUME DatabaseConstants ==
  /\ NoWorker \notin Workers /\ IsFiniteSet(Workers)
  /\ MaxPosted \in Nat /\ Length \in Nat \ {0}
  /\ MaxFailures \in Nat /\ MaxLosses \in Nat

Transactions == 1..MaxPosted

VARIABLES
  workers,         \* the asynchronous connections, each with its thread
  pool,            \* "open", "stopped" (the io_context is), "closed", "aborted"
  posted, taken,   \* transactions posted, taken by a worker
  at,              \* each worker: where it is
  task,            \* its transaction
  step,            \* its statement
  deadlocked,      \* whether errorCode is ER_LOCK_DEADLOCK
  retrier,         \* who holds _deadlockLock
  inTransaction,   \* server: whether the session has a transaction open
  open,            \* server: the statements of each transaction executed in it
  stored,          \* server: the statements of each transaction in the database
  result,          \* what TransactionTask::Execute returned: "none", "done", "failed"
  failures, losses,\* how many so far
  lost,            \* history: transactions whose session was lost before the commit
  dropped,         \* history: transactions with an error that nobody looked at
  history          \* history: the transactions of each change of the database

poolVars   == <<workers, pool, posted, taken>>
threadVars == <<at, task, step, deadlocked, retrier>>
serverVars == <<inTransaction, open, stored, history>>
faultVars  == <<failures, losses, lost, dropped>>
vars == <<poolVars, threadVars, serverVars, faultVars, result>>

(* "begin", "statement", "commit", "rollback": before that command;        *)
(* "failed": ExecuteTransaction has returned an error.                     *)
Places == {"idle", "begin", "statement", "commit", "rollback", "failed"}

TypeOK ==
  /\ workers \subseteq Workers
  /\ pool \in {"open", "stopped", "closed", "aborted"}
  /\ posted \in 0..MaxPosted /\ taken \in 0..posted
  /\ at \in [Workers -> Places]
  /\ task \in [Workers -> 0..taken]
  /\ \A w \in Workers : at[w] # "idle" => task[w] # 0 /\ result[task[w]] = "none"
  /\ step \in [Workers -> 1..Length]
  /\ deadlocked \in [Workers -> BOOLEAN]
  /\ retrier \in Workers \cup {NoWorker}
  /\ inTransaction \in [Workers -> BOOLEAN]
  /\ open \in [Workers -> [Transactions -> Seq(1..Length)]]
  /\ stored \in [Transactions -> Seq(1..Length)]
  /\ result \in [Transactions -> {"none", "done", "failed"}]
  /\ failures \in Nat /\ losses \in Nat
  /\ lost \subseteq Transactions /\ dropped \subseteq Transactions
  /\ history \in Seq(SUBSET Transactions)

Nothing == [t \in Transactions |-> <<>>]

Init ==
  /\ workers \in SUBSET Workers \ {{}}
  /\ pool = "open" /\ posted = 0 /\ taken = 0
  /\ at = [w \in Workers |-> "idle"]
  /\ task = [w \in Workers |-> 0]
  /\ step = [w \in Workers |-> 1]
  /\ deadlocked = [w \in Workers |-> FALSE]
  /\ retrier = NoWorker
  /\ inTransaction = [w \in Workers |-> FALSE]
  /\ open = [w \in Workers |-> Nothing]
  /\ stored = Nothing
  /\ result = [t \in Transactions |-> "none"]
  /\ failures = 0 /\ losses = 0 /\ lost = {} /\ dropped = {} /\ history = <<>>

Goto(w, place) == at' = [at EXCEPT ![w] = place]
-----------------------------------------------------------------------------
(* CommitTransaction, from any thread.                                     *)
Post ==
  /\ pool \in {"open", "stopped"} /\ posted < MaxPosted
  /\ posted' = posted + 1
  /\ UNCHANGED <<workers, pool, taken, threadVars, serverVars, faultVars, result>>

(* Mutant: threads that own no connection run handlers, too.               *)
TakeByAnyThread(w) ==
  /\ at[w] = "idle" /\ pool = "open" /\ taken < posted
  /\ taken' = taken + 1
  /\ task' = [task EXCEPT ![w] = taken + 1]
  /\ deadlocked' = [deadlocked EXCEPT ![w] = FALSE]
  /\ Goto(w, "begin")
  /\ UNCHANGED <<workers, pool, posted, step, retrier, serverVars, faultVars, result>>

(* A thread of the io_context runs the next handler.                       *)
Take(w) ==
  /\ w \in workers /\ at[w] = "idle" /\ pool = "open" /\ taken < posted
  /\ taken' = taken + 1
  /\ task' = [task EXCEPT ![w] = taken + 1]
  /\ deadlocked' = [deadlocked EXCEPT ![w] = FALSE]
  /\ Goto(w, "begin")
  /\ UNCHANGED <<workers, pool, posted, step, retrier, serverVars, faultVars, result>>

(* The server ends the session's transaction, if any, and keeps its work.  *)
Keep(w) ==
  IF inTransaction[w]
  THEN /\ stored' = [t \in Transactions |-> stored[t] \o open[w][t]]
       /\ history' = Append(history, {t \in Transactions : open[w][t] # <<>>})
  ELSE UNCHANGED <<stored, history>>

(* START TRANSACTION, which commits a transaction still open.              *)
BeginTransaction(w) ==
  /\ at[w] = "begin"
  /\ Keep(w)
  /\ inTransaction' = [inTransaction EXCEPT ![w] = TRUE]
  /\ open' = [open EXCEPT ![w] = Nothing]
  /\ step' = [step EXCEPT ![w] = 1]
  /\ Goto(w, "statement")
  /\ UNCHANGED <<poolVars, task, deadlocked, retrier, faultVars, result>>

(* It fails, and the statements follow all the same.                       *)
BeginDropped(w) ==
  /\ at[w] = "begin" /\ failures < MaxFailures
  /\ failures' = failures + 1
  /\ dropped' = dropped \cup {task[w]}
  /\ step' = [step EXCEPT ![w] = 1]
  /\ Goto(w, "statement")
  /\ UNCHANGED <<poolVars, task, deadlocked, retrier, serverVars, losses, lost, result>>

(* The server executes w's statement.                                      *)
Apply(w) ==
  IF inTransaction[w]
  THEN /\ open' = [open EXCEPT ![w][task[w]] = Append(@, step[w])]
       /\ UNCHANGED <<stored, history>>
  ELSE /\ stored' = [stored EXCEPT ![task[w]] = Append(@, step[w])]
       /\ history' = Append(history, {task[w]})
       /\ UNCHANGED open

Execute(w) ==
  /\ at[w] = "statement"
  /\ Apply(w)
  /\ IF step[w] < Length
     THEN step' = [step EXCEPT ![w] = @ + 1] /\ UNCHANGED at
     ELSE Goto(w, "commit") /\ UNCHANGED step
  /\ UNCHANGED <<poolVars, task, deadlocked, retrier, inTransaction, faultVars, result>>

(* Mutant: the statement's result is not tested.                            *)
ExecuteErrorIgnored(w) ==
  /\ at[w] = "statement" /\ failures < MaxFailures
  /\ failures' = failures + 1
  /\ IF step[w] < Length
     THEN step' = [step EXCEPT ![w] = @ + 1] /\ UNCHANGED at
     ELSE Goto(w, "commit") /\ UNCHANGED step
  /\ UNCHANGED <<poolVars, task, deadlocked, retrier, serverVars, losses, lost, dropped, result>>

(* A statement fails, by itself ...                                        *)
ExecuteError(w) ==
  /\ at[w] = "statement" /\ failures < MaxFailures
  /\ failures' = failures + 1
  /\ deadlocked' = [deadlocked EXCEPT ![w] = FALSE]
  /\ Goto(w, "rollback")
  /\ UNCHANGED <<poolVars, task, step, retrier, serverVars, losses, lost, dropped, result>>

(* ... or as the victim of a deadlock, which ends the server's transaction. *)
ExecuteDeadlock(w) ==
  /\ at[w] = "statement" /\ failures < MaxFailures
  /\ failures' = failures + 1
  /\ deadlocked' = [deadlocked EXCEPT ![w] = TRUE]
  /\ inTransaction' = [inTransaction EXCEPT ![w] = FALSE]
  /\ open' = [open EXCEPT ![w] = Nothing]
  /\ Goto(w, "rollback")
  /\ UNCHANGED <<poolVars, task, step, retrier, stored, history, losses, lost, dropped,
                 result>>

(* The server ends the session's transaction.                              *)
EndTransaction(w) ==
  /\ inTransaction' = [inTransaction EXCEPT ![w] = FALSE]
  /\ open' = [open EXCEPT ![w] = Nothing]

RollbackTransaction(w) ==
  /\ at[w] = "rollback"
  /\ EndTransaction(w)
  /\ Goto(w, "failed")
  /\ UNCHANGED <<poolVars, task, step, deadlocked, retrier, stored, history, faultVars,
                 result>>

(* It fails, and what was executed stays in the session's transaction.     *)
RollbackDropped(w) ==
  /\ at[w] = "rollback" /\ failures < MaxFailures
  /\ failures' = failures + 1
  /\ dropped' = IF inTransaction[w] THEN dropped \cup {task[w]} ELSE dropped
  /\ Goto(w, "failed")
  /\ UNCHANGED <<poolVars, task, step, deadlocked, retrier, serverVars, losses, lost, result>>

(* Mutant: a retry that succeeds does not leave the loop.                   *)
CommitTransactionRunsOn(w) ==
  /\ at[w] = "commit"
  /\ Keep(w) /\ EndTransaction(w)
  /\ result' = [result EXCEPT ![task[w]] = "done"]
  /\ Goto(w, IF retrier = w THEN "begin" ELSE "idle")
  /\ UNCHANGED <<poolVars, task, step, deadlocked, retrier, faultVars>>

(* Mutant: the lock is kept when the handler returns.                       *)
FinishHoldsLock(w, outcome) ==
  /\ result' = [result EXCEPT ![task[w]] = outcome]
  /\ Goto(w, "idle")
  /\ UNCHANGED <<taken, retrier>>

(* The handler returns, and lets go of _deadlockLock if it holds it.       *)
Finish(w, outcome) ==
  /\ result' = [result EXCEPT ![task[w]] = outcome]
  /\ retrier' = IF retrier = w THEN NoWorker ELSE retrier
  /\ Goto(w, "idle")
  /\ UNCHANGED taken

CommitTransaction(w) ==
  /\ at[w] = "commit"
  /\ Keep(w) /\ EndTransaction(w)
  /\ Finish(w, "done")
  /\ UNCHANGED <<workers, pool, posted, task, step, deadlocked, faultVars>>

(* It fails - the server has given the transaction up, or still has it     *)
(* open - and ExecuteTransaction returns 0 all the same.                   *)
CommitDropped(w) ==
  /\ at[w] = "commit" /\ failures < MaxFailures
  /\ failures' = failures + 1
  /\ dropped' = IF inTransaction[w] THEN dropped \cup {task[w]} ELSE dropped
  /\ EndTransaction(w) \/ UNCHANGED <<inTransaction, open>>
  /\ Finish(w, "done")
  /\ UNCHANGED <<workers, pool, posted, task, step, deadlocked, stored, history, losses, lost>>
-----------------------------------------------------------------------------
(* TransactionTask::Execute after an error that is not a deadlock, ...     *)
GiveUp(w) ==
  /\ at[w] = "failed" /\ ~deadlocked[w] /\ retrier # w
  /\ Finish(w, "failed")
  /\ UNCHANGED <<workers, pool, posted, task, step, deadlocked, serverVars, faultVars>>

(* ... after a deadlock, once _deadlockLock is free, ...                   *)
LockAndRetry(w) ==
  /\ at[w] = "failed" /\ deadlocked[w] /\ retrier = NoWorker
  /\ retrier' = w
  /\ Goto(w, "begin")
  /\ UNCHANGED <<poolVars, task, step, deadlocked, serverVars, faultVars, result>>

(* ... in the loop, whatever the error is by now, ...                      *)
RetryAgain(w) ==
  /\ at[w] = "failed" /\ retrier = w
  /\ Goto(w, "begin")
  /\ UNCHANGED <<poolVars, task, step, deadlocked, retrier, serverVars, faultVars, result>>

(* ... and when DEADLOCK_MAX_RETRY_TIME_MS have passed.                    *)
TimeOut(w) ==
  /\ at[w] = "failed" /\ retrier = w
  /\ Finish(w, "failed")
  /\ UNCHANGED <<workers, pool, posted, task, step, deadlocked, serverVars, faultVars>>
-----------------------------------------------------------------------------
(* The connection is lost before the server executes w's command: the      *)
(* server rolls back.  _HandleMySQLErrno reconnects, and the command is    *)
(* executed again.                                                         *)
Lose(w) ==
  /\ at[w] \in {"begin", "statement", "commit", "rollback"} /\ losses < MaxLosses
  /\ losses' = losses + 1
  /\ lost' = IF at[w] \in {"statement", "commit"} THEN lost \cup {task[w]} ELSE lost
  /\ EndTransaction(w)
  /\ UNCHANGED <<poolVars, threadVars, stored, history, failures, dropped, result>>

(* The connection is lost before the answer arrives: an autocommitted      *)
(* statement has taken effect and is executed again, ...                   *)
LoseAnswer(w) ==
  /\ at[w] = "statement" /\ ~inTransaction[w] /\ losses < MaxLosses
  /\ losses' = losses + 1
  /\ lost' = lost \cup {task[w]}
  /\ Apply(w)
  /\ UNCHANGED <<poolVars, threadVars, inTransaction, failures, dropped, result>>

(* ... and so is a COMMIT, which then commits nothing, or a START          *)
(* TRANSACTION, which had committed what was left open.                    *)
LoseCommitAnswer(w) ==
  /\ at[w] \in {"begin", "commit"} /\ losses < MaxLosses
  /\ losses' = losses + 1
  /\ Keep(w) /\ EndTransaction(w)
  /\ UNCHANGED <<poolVars, threadVars, failures, lost, dropped, result>>

(* Five attempts to reconnect fail: ABORT, and every session ends.         *)
Abort(w) ==
  /\ at[w] \in {"begin", "statement", "commit", "rollback"} /\ losses < MaxLosses
  /\ losses' = losses + 1
  /\ pool' = "aborted"
  /\ at' = [v \in Workers |-> "idle"]
  /\ retrier' = NoWorker
  /\ inTransaction' = [v \in Workers |-> FALSE]
  /\ open' = [v \in Workers |-> Nothing]
  /\ UNCHANGED <<workers, posted, taken, task, step, deadlocked, stored, history, failures,
                 lost, dropped, result>>

(* Close: the io_context is stopped, its threads finish what they run and  *)
(* are joined, and the handlers it still holds are destroyed.              *)
Stop ==
  /\ pool = "open" /\ pool' = "stopped"
  /\ UNCHANGED <<workers, posted, taken, threadVars, serverVars, faultVars, result>>

Close ==
  /\ pool = "stopped" /\ \A w \in Workers : at[w] = "idle"
  /\ pool' = "closed"
  /\ UNCHANGED <<workers, posted, taken, threadVars, serverVars, faultVars, result>>
-----------------------------------------------------------------------------
(* What a worker does when nothing goes wrong on the server's side.        *)
Run(w) ==
  \/ Take(w) \/ BeginTransaction(w) \/ Execute(w) \/ RollbackTransaction(w)
  \/ CommitTransaction(w) \/ GiveUp(w) \/ LockAndRetry(w) \/ RetryAgain(w) \/ TimeOut(w)

Fault(w) ==
  \/ ExecuteError(w) \/ ExecuteDeadlock(w)
  \/ BeginDropped(w) \/ RollbackDropped(w) \/ CommitDropped(w)
  \/ Lose(w) \/ LoseAnswer(w) \/ LoseCommitAnswer(w) \/ Abort(w)

Next ==
  \/ Post \/ Stop \/ Close
  \/ \E w \in Workers : Run(w) \/ Fault(w)

Spec == Init /\ [][Next]_vars

(* The threads of the io_context keep running.                             *)
FairSpec == Spec /\ \A w \in Workers : WF_vars(Run(w))
-----------------------------------------------------------------------------
First(n) == [i \in 1..n |-> i]
Whole == First(Length)

Excused == lost \cup dropped

(***************************************************************************)
(* A transaction whose session is not lost before its commit, and whose    *)
(* own START TRANSACTION, COMMIT or ROLLBACK does not fail unnoticed, is   *)
(* in the database as a whole or not at all, at every moment, and          *)
(* Execute's answer says which - through errors, deadlocks with retries, a *)
(* COMMIT whose answer is lost, whatever a transaction before it left open *)
(* in the session, the closing of the pool and the death of the process.   *)
(***************************************************************************)
AtomicUnlessLost ==
  \A t \in Transactions \ Excused :
    /\ stored[t] \in {<<>>, Whole}
    /\ result[t] = "done" => stored[t] = Whole
    /\ result[t] = "failed" => stored[t] = <<>>

(***************************************************************************)
(* With one connection (the default) the database changes in the order in  *)
(* which the transactions were posted: a later save of a character never   *)
(* takes effect before an earlier one, retries and losses included.        *)
(***************************************************************************)
OneWorkerKeepsOrder ==
  Cardinality(workers) = 1 =>
    \A i, j \in 1..Len(history) :
      i < j => \A a \in history[i], b \in history[j] : a <= b

(***************************************************************************)
(* Every transaction posted is answered in the end unless the pool is      *)
(* stopped first; a deadlocked one is not kept waiting for the lock.       *)
(***************************************************************************)
EventuallyAnswered ==
  \A t \in Transactions : (posted >= t) ~> (result[t] # "none" \/ pool # "open")

(***************************************************************************)
(* AuctionHouseHandler.cpp:462, "Mails must be under transaction control   *)
(* too to prevent data loss": what has been committed with one transaction *)
(* is all there.                                                           *)
(***************************************************************************)
DoneIsWhole == \A t \in Transactions : result[t] = "done" => stored[t] = Whole
-----------------------------------------------------------------------------
(* What AtomicUnlessLost rests on: a transaction not yet taken has left no *)
(* trace, no two workers have the same one, an open transaction holds but  *)
(* its worker's statements and those of transactions whose error nobody    *)
(* looked at, and a worker's transaction that is not excused has executed  *)
(* exactly the statements before the worker's place, all of them in the    *)
(* open transaction - or has been committed, though the answer to the      *)
(* COMMIT is still owed.                                                   *)
Untaken ==
  \A t \in Transactions :
    t > taken => result[t] = "none" /\ stored[t] = <<>> /\ t \notin Excused

TasksDistinct ==
  \A v, w \in Workers :
    at[v] # "idle" /\ at[w] # "idle" /\ v # w => task[v] # task[w]

OpenIsOwn ==
  \A w \in Workers :
    /\ ~inTransaction[w] => open[w] = Nothing
    /\ \A t \in Transactions \ dropped :
         open[w][t] # <<>> =>
           at[w] \in {"statement", "commit", "rollback"} /\ t = task[w]

BeforeStatements(w) == stored[task[w]] = <<>>

AmongStatements(w) ==
  /\ inTransaction[w] /\ open[w][task[w]] = First(step[w] - 1)
  /\ stored[task[w]] = <<>>

AfterStatements(w) ==
  \/ inTransaction[w] /\ open[w][task[w]] = Whole /\ stored[task[w]] = <<>>
  \/ ~inTransaction[w] /\ stored[task[w]] = Whole

Progress ==
  \A w \in Workers :
    at[w] # "idle" /\ task[w] \notin Excused =>
      /\ at[w] \in {"begin", "rollback", "failed"} => BeforeStatements(w)
      /\ at[w] = "statement" => AmongStatements(w)
      /\ at[w] = "commit" => AfterStatements(w)

PoolInv ==
  TypeOK /\ Untaken /\ TasksDistinct /\ OpenIsOwn /\ Progress /\ AtomicUnlessLost

(* What OneWorkerKeepsOrder rests on: only the pool's workers run, and a   *)
(* single one runs the transaction taken last, which - like every one that *)
(* is still open - is at least as new as what the database has seen.       *)
OpenInOrder(w) ==
  \A t \in Transactions : open[w][t] # <<>> =>
    \A i \in 1..Len(history) : \A a \in history[i] : a <= t

OrderInv ==
  /\ \A w \in Workers : at[w] # "idle" => w \in workers
  /\ \A w \in Workers \ workers : ~inTransaction[w]
  /\ Cardinality(workers) = 1 =>
       \A w \in Workers : (at[w] # "idle" => task[w] = taken) /\ OpenInOrder(w)
  /\ \A i \in 1..Len(history) : \A a \in history[i] : a <= taken
  /\ OneWorkerKeepsOrder
=============================================================================
