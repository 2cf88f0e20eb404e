# LegionCore 7.3.5: a TLA+ verification of its concurrency core

LegionCore is a server for version 7.3.5 of an online role-playing game. The `worldserver` process
is one program of many threads: network threads own the client sockets, one world thread runs the
session list and the global timers, every map has a thread of its own with a small worker pool under
it, and database threads execute what the others post. They meet in a handful of hand-written
queues, flags and hand-over protocols. This directory models those: the places where the order of
steps of several threads decides whether a packet, a session or a save survives. It also models the
two parts of the game itself whose handlers meet in the same way - the dungeon finder, and what
players own when they trade, send mail and use the auction house. No unit test of the repository
exercises any of it.

Paths below are relative to the directory `src/` inside the repository (`server/...`, `common/...`).

    tlc -config MCThreadPoolMap.cfg MCThreadPoolMap      # model-check one configuration
    tlapm ThreadPoolMapProofs.tla                        # check the proofs of one module

`PROJECT.json` lists, for tools, what this file explains: components, runs, the source lines each
definition translates, one mutant per property, findings, hazards and theorems.

## 1. The system

| Component | State it keeps | Operations | Hard behaviour | What makes it correct |
|---|---|---|---|---|
| Map worker pool (`game/Maps/ThreadPoolMap.*`, `common/Threading/SynchronizedQueue.hpp`) | task queue, frozen flag, `requestCount_` | `start`, `schedule`, `wait`, `stop`; worker loop | lost wake-ups; count before or after the push; freeze outside the mutex | `wait()` is a barrier; every task once; `stop()` returns |
| Outgoing packet queue (`common/Threading/MPSCQueue.h`) | head, tail, linked nodes | `Enqueue` from any thread, `Dequeue` on the network thread | lock-free; a producer stalled between exchange and link; reuse of addresses | FIFO, no use after free, no leak, nothing lost |
| World socket (`shared/Networking/Socket.h`, `game/Server/WorldSocket.cpp`) | `_bufferQueue`, `_writeQueue`, `_isWritingAsync`, `_closed`, `_closing` | `SendPacket`, `Update`, write handler, `DelayedCloseSocket`, `CloseSocket` | partial writes; other threads close; an unsynchronised `empty()` | the wire is a prefix of the accepted stream; a delayed close flushes and closes |
| Session list and login queue (`game/World/World.cpp`) | `m_sessions`, `m_QueuedPlayer`, `addSessQueue`, `m_disconnects`, `m_sessionCount` | `AddSession`, `AddSession_`, `UpdateSessions`, `RemoveQueuedPlayer` | reconnects replace sessions in any state; a plain counter written by many threads | list, queue, marks and counter agree; the limit holds |
| Session hand-over (`WorldSession.cpp`, `Map.cpp`, `Player.cpp`, `World.cpp`, `Main.cpp`) | `m_map`, `m_sUpdate`, `m_playerLogout`, two kinds of session lists and their queues | login, far teleport, `Update`, `LogoutPlayer`, `KickAll`, `UnloadAll` | world and map threads run freely; flags tested and then set; shutdown | one thread handles a session; nobody is forgotten; players are saved |
| Database pools (`server/database/Database`) | one `io_context` per pool, a connection per thread, `_deadlockLock` | post, execute, retry, reconnect, close | deadlocks, lost connections, a lost answer to COMMIT, shutdown | a transaction is whole or absent, in order, and answered |
| Network threads, acceptor (`NetworkThread.h`, `SocketMgr.h`, `AsyncAcceptor.h`) | socket lists, `_newSockets` under a lock | accept, add, update, stop | an acceptor races with `Stop` | every accepted socket is updated or closed |
| Authentication (`WorldSocket.cpp`) | per-socket handshake state | auth session, continued session, instance socket | asynchronous query between two packets of a client | one authenticated pair of sockets per session |
| Callback and event processors (`FunctionProcessor`, `EventProcessor`) | queues of deferred functions | add, update, kill | functions that add functions or kill the processor they run in | nothing runs after its owner died, nothing due is dropped |
| Economy (`game/Handlers/{Trade,Mail,AuctionHouse}Handler.cpp`, `game/Mails`, `game/AuctionHouse`) | trade windows, purses, inventories, mailboxes, auctions in memory; the rows of the same things | lay, accept; send, list, take, return, delete; sell, bid, buy, cancel, expire; save, log in and out | handlers that write memory at once and the rows later, readers that go past the queue; a crash between | no item in two places or none, money conserved, memory and rows agree, a trade yields what was agreed |
| Dungeon finder (`game/DungeonFinding`) | queues, cached verdicts, proposals, role checks, the data of players and groups | join, leave, role check, search, answer, expire, teleport, leave the group | answers, timeouts, departures and teleports in any order; several queues per player | the stores agree; groups fit and consist of players who agreed; the innocent go on waiting |
| Battlegrounds, groups, instances | queues, invitations, bindings | join, invite, leave, time out | expiry against entry; departures | every member ends in a state consistent with the group's |
| Black market, shop | offers of tables | bid, buy | as the auction house | money against goods |
| Entities, spells, combat, AI, scripts, quests | the game world | the game's rules | size, not protocols | - |
| Battle.net server, tools, schema updates, utilities | own processes or start-up only | - | - | - |

How they interact:

- A client's socket lives on a **network thread**. A packet out is `SendPacket` on any game thread,
  an `MPSCQueue`, `WorldSocket::Update` on the network thread, the kernel. A packet in is pushed on
  the session's `LockedQueue`.
- Authentication ends on the network thread with `World::AddSession`; the **world thread** takes the
  session from that queue in `UpdateSessions`, lists it and lets it in or queues it.
- When a character logs in, `HandlePlayerLogin` sets `m_map` and gives the session to a map's
  queue; that **map thread** lists and updates it from then on. A far teleport does the same between
  two maps; a logout clears `m_map` so that the world thread takes over again.
- A map's thread hands work to its **worker pool** and uses `wait()` as a barrier before it touches
  the same objects again.
- Everybody posts transactions to the **database threads**. Trades, mails and auctions change memory
  in the handler and post one transaction for the rows; a login waits in the same queue, but the
  listing of mails and the sweep of the expired auctions read the rows at once.
- The **dungeon finder** is driven by packets, by `World::Update`, and by the group and player scripts,
  among them a teleport that ends on a map's thread.
- At the **stop** `Main.cpp` kicks all sessions, runs one `UpdateSessions(1)`, unloads the maps and
  closes the databases, while map threads still run.

The hazards - each at the line where it bites, with the property that would catch it - are in
`PROJECT.json` under `hazards`, the components without a module under `components` with the reason.

## 2. Plan

Done, in this order: `ThreadPoolMap` (everything a map does rests on it), `FifoQueue` and
`MPSCQueue` (every packet passes through), `WorldSocket`, `LoginQueue`, `SessionOwnership`,
`DatabasePool`, then `DungeonFinder`, and the economy: `Holdings` (memory, rows and the queue between
them), `Trade`, `Mail` and `Auction` on it, `Economy` as their composition.

Next, by value:

1. **Function and event processors**: `KillAllFunctions` only sets a flag.
2. **Network thread and acceptor**, sharing the socket's ends with `WorldSocket`.
3. **Authentication** with the second (instance) socket, in front of `LoginQueue`.
4. `BattlegroundQueue` and `InstanceSave`; the group roll.

Compositions and abstract specifications: `WorldSocket` takes `_bufferQueue` as the abstract FIFO
that `MPSCQueue` is proved to implement. `Mail` and `Auction` extend `Holdings`, and `Economy` composes
all three with logins and a crash; `Holdings` takes a transaction as atomic and in order, which
`DatabasePool` is proved to give for one connection, sessions that are not lost and control commands
that do not fail. Runs are kept to a
dozen, one per question; a new component shares a run with one it is composed with.

Theorems: every safety invariant and every action property that a passing run checks is proved, the
hand-over's under the hypothesis section 6 names. Next would be the refinement of `Economy` by a
version whose handlers post their transactions at separate steps, and the components above.

## 3. Modules and code

Every module starts with a comment that names the code; `PROJECT.json` `map` gives the lines of every
definition. History variables (what a property must remember and the code does not store) are marked
`history` where they are declared. Operators whose comment begins with "Mutant:" are not part of the
model: they are deviations that each property is required to detect.

**`ThreadPoolMap`** - `ThreadPoolMap.{hpp,cpp}` with `SynchronizedQueue.hpp`. One owner (the map's
thread), the thread that unloads the maps, and `Workers`. `schedule` is three steps under `lock_`:
`ScheduleEnter` (the `frozen` test of `push`), `SchedulePush` (push and `notify_one`) and
`ScheduleCount`. `wait()` is `WaitEnter`, then `WaitReturn` if the count is zero and else `WaitSleep`:
the owner is asleep on `waitCond_` until `CountOff` reaches zero and notifies it (`NotifyOwner`) or it
wakes spuriously. Its test and its sleep are one step because the decrement and the `notify_all` are
made under the same `lock_`. `StopFreeze` / `StopJoined` are `stop()`, by the thread in
`MapManager::UnloadAll` at any point of the owner's update (it waits one second for it, not until it
ends); after `stop()` the pool is deleted and nobody's later step is described. A worker's `pop` is split where the code can be pre-empted: the `frozen` test, the mutex,
the predicate, the gap between predicate and sleep, the sleep (with spurious wake-ups), then `f()`
and the counting under `lock_`. Tasks are numbered in the order they are scheduled. `terminate()`
is reached only through `Map::TerminateThread`, which nothing outside the map classes calls, and
`try_pop()` has no caller; both are left out.

**`FifoQueue`, `MPSCQueue`** - `FifoQueue` is the promise: a sequence, a put, a take that may fail.
`MPSCQueue` is `MPSCQueueNonIntrusive` with one action per atomic access: `Allocate`, `Exchange` and
`Link` of a producer, `LoadNext`, `Advance` and `Delete` of the consumer, over a heap whose freed
addresses are handed out again. `chain`, a history variable, lists the nodes in the order of the
exchanges; `Contents` reads the values through it and is the refinement mapping.

**`WorldSocket`** - `Socket.h` and `WorldSocket.cpp`. `SendCheck` / `SendEnqueue` are the two moments
of `SendPacket`; `UpdateBegin` / `UpdateDequeue` / `UpdateEnd` are `WorldSocket::Update`, with buffers
of `BufferRoom` packets and packets too big for one; `Handle*` are the outcomes of `HandleQueue`
(nothing queued, partial write, whole buffer, failure, then the test of `_closing`); `WriteReady` is
the handler that clears `_isWritingAsync`. The closing thread runs `DelayedCloseSocket` or
`CloseSocket` step by step. Its `_writeQueue.empty()` reads a `std::queue` that another thread
changes: it is two loads in either order, and with `late` stores the values may be older than the
network thread's last push or pop (x86 store buffers; a handler starts with locked instructions, so
the buffer is empty then).

**`LoginQueue`** - the session list of `World.cpp`. The world thread's `UpdateSessions` is a loop over
`addSessQueue` (`AddSession_`, as `AddNew` or `AddReplacing`) and a loop over the list (`UpdateStays`,
`UpdateLeaves`), in any order of accounts, as of an unordered map. Network threads create sessions
(`CreateBegin` / `CreateEnd` are the load and the store of `++m_sessionCount`, so that another
thread's update can be lost), clients disconnect, query answers arrive, maps drop what they still
held. The counter is an integer modulo `Modulus`.

**`SessionOwnership`** - `WorldSession::Update` and `LogoutPlayer` and the two `UpdateSessions` around
them, the login of a character, `Player::SafeTeleport`, `KickAll`, `UnloadAll` and the destructor. One
action per step at which the threads can interleave: `UpdateTest` / `UpdateSet` for `m_sUpdate`,
`LogoutTest` / `LogoutSet` for `m_playerLogout`, `HandlePacket` for the test of `m_map` in the loop. A
teleport is a call in steps of its own: `SafeTeleport` finds the session World lists (`found`), then
come `HandOverTest`, `HandOverSetsMap` and `HandOverAdds`, once (a seamless teleport, the second place
only; `ZoneTeleport` and `TeleportToChallenge`) or twice, as in `Player.cpp:2288-2293` and
`2371-2376`, and the player's code runs on in between. A login is `HandlePlayerLogin`, which finds the
session, `LoginSetsMap`, which sets the map of its own, and `HandOverAdds`. Sessions are shared
pointers: `Referenced` says who still holds one, and `DropReference` and `DropFound` run the destructor
after the last. The sessions of a run are successive connections of one account. Two histories serve
the properties: `usurped`, the sessions whose `m_map` a thread set that was neither their owner nor
naming the same map, and `overtaken`, those listed when another one was put into a map's queue.

**`DatabasePool`** - `DatabaseWorkerPool.cpp`, `MySQLConnection.cpp`, `Transaction.cpp`. `Post`, `Take`,
one action per command of `ExecuteTransaction`, then `GiveUp`, `LockAndRetry`, `RetryAgain`,
`TimeOut` of `TransactionTask::Execute`. The server is modelled by what a session's transaction is: the
statements, of one or several transactions, that COMMIT keeps and a lost session forgets.
`BeginDropped`, `CommitDropped` and `RollbackDropped` are those three commands failing, which the
code does not look at: the statements then run by themselves or in what an earlier transaction left
open, a COMMIT that kept nothing is answered as done, and the next START TRANSACTION commits what a
ROLLBACK left. `Lose`, `LoseAnswer` and `LoseCommitAnswer` are a connection lost before a command takes effect or before its answer
arrives, followed by the reconnection and the repetition `_HandleMySQLErrno` asks for; `Abort` is five
failed reconnections; `Stop` and `Close` are the pool's `Close`.

**`DungeonFinder`** - `LFGMgr.cpp`, `LFGQueue.cpp`, the data of players and groups, `LFGScripts.cpp` and
the places of `Group.cpp` and `Player.cpp` that call them. The manager runs one handler at a time,
under its lock (`LeaveGroup`, `LFGScripts.cpp:136-193`, takes the lock for the `LeaveLfg` in its middle
only; the lines around it are taken together with it), so its stores are the fields of one record, and a function of the code is an operator from record to
record: `AddToQueue`, `FindNewGroups` with the cache of verdicts, `RemoveProposal`, `LeaveLfg`,
`MakeNewGroup`. Actions are the handlers (`JoinLfg`, `AnswerRoleCheck`, `Agree`, `Refuse`, `Leave`,
`LeaveGroup`, `FinishDungeon`; an answer may be to any proposal one is in, announced or not, because
`UpdateProposal` tests no more) and the three parts of `LFGMgr::Update` (`Expire`, `Search`,
`Announce`), which end in one another. A teleport is two actions, `Teleport` and `Arrive`, because the
second comes from another thread after anything else. A queue is one dungeon; players offer one role.
The loops over lists, queues, proposals and players are recursive functions (`FindGroups`,
`CheckCompatibility`, `Ended`, `MakeNewGroup`), each around an operator for one turn of the loop
(`TryEntry`, `CheckLonger`, `RemoveProposal`, `Enter`). `outdated` is a history variable: the dungeon
groups that took in a player while the finder still held an entry, a proposal or a role check of them.

**`Holdings`** - memory, rows and what is between them: `money`, `items`, the rows in `disk`, and
`queue`, the transactions posted and not executed. A transaction is a record of what its statements
write, and a login waits in the same queue as one that writes nothing; `RowsAfter` tells the rows after
each element and `Settled` those after the last. `Earn` and `Spend` stand for the rest of the game,
`WorkTransaction` and `WorkLogin` for the database thread. **`Trade`** is the window of two players: `SetTradeGold`, `SetTradeItem`,
`ClearTradeItem`, `UnacceptTrade`, `CancelTrade` and an accept with each of its ends (`AcceptRefused`,
`AcceptStands`, `AcceptNoRoom`, `ExecuteTrade`). **`Mail`** is `SendMail` and what a mailbox allows, with
`ListMails` as the reader that goes past the queue and `SavedBox` as `_SaveMail`. `Modified` is
`ModifyMoney`, which stops at nothing; `Charged` is the sum `-int32(COD)` takes off the payer, with the
other sign from 2^31 on (`Half`) and either at 2^31 itself, where the negation is undefined. A game
master may enclose more than it has. `Minted` is what comes into being in these two handlers, and the
history `fees` counts it. **`Auction`** is `SellItem`, `SellFails` (the deposit is gone when a later check returns), `PlaceBid`, `BuyNow`, `CancelAuction` and the sweep, which reads the expired auctions
(`SweepBegin`) and ends them one by one while players still bid. **`Economy`** puts them over the same
holdings and adds `DoLogin`, `LogOut` and `Crash`, after which memory is loaded again from the rows.

## 4. Runs

| Run | Instance | States | Question |
|---|---|---|---|
| `pool` | 2 workers, 5 tasks | 19,336 | Is `wait()` a barrier, does its sleep end, is the counter exact, does `stop()` return outside the one gap? |
| `mpsc` | 3 producers, 4 nodes, 2 values | 175,604 | Is the lock-free queue a FIFO without use after free or leaks? |
| `socket` | 1 sender, 3 packets, buffers of 2, the last one big with late stores, or none big with stores in order | 265,718 | Is the stream intact, does a delayed close flush what it could see in the write queue, and close? |
| `socket_lost` | 1 packet | violation | Is what `SendPacket` accepted written before a delayed close? |
| `login` | 4 sessions of 3 accounts, limit 1, modulus 8, with and without tolerance and staff | 1,259,114 | Do list, queue, marks and counter agree, does the limit hold? |
| `sessions` | 1 session, the world thread, 2 interchangeable map threads | 2,281,309 | One handler, one logout, nobody forgotten? |
| `sessions_two` | 2 connections of the account | violation | One online character per account? |
| `sessions_stop` | as `sessions` | violation | Is every player saved before the databases close? |
| `db` | 1 or 2 connections, 2 transactions of 2 statements, 2 failing commands, 2 losses | 254,151 | Atomic unless the session is lost or a control command fails, in order with one connection, answered? |
| `db_loss` | 1 transaction, 1 loss | violation | Is a transaction reported as done whole? |
| `lfg` | 3 players, 2 dungeons for two, alone or with a party of two | 355,201 | Do the stores agree, do groups fit and consist of who agreed, are the innocent queued again? |
| `economy` | 2 or 3 players, 2 items, ten scenarios | 268,899 | Are items conserved, is money but for what two handlers mint, do memory and rows agree, does a trade yield what was agreed? |

Why the bounds are enough for what they show:

- `pool`: five tasks over two workers allow several pushes while both workers hold tasks, both are
  asleep, or one is in each gap, and the owner to be asleep with the queue empty and one or both
  workers running; the barrier and the counter are proved for any number of both.
- `mpsc`: with three producers one can stall between exchange and link while two others finish
  behind it; four nodes with a dummy make addresses come back while a producer holds an old one. The
  FIFO property and memory safety are proved for any number.
- `socket`: two packets fill a buffer and the third overflows it or bypasses it, so a write queue of
  several buffers, among them an empty one (a big packet that meets an empty buffer queues that
  buffer first), occurs. One closing thread and the network thread itself are the only two that close
  at the same time.
- `login`: limit 1 is the smallest at which someone waits; three accounts give one in and two
  waiting, the fourth session replaces its account's session in every state it can be in. Two
  departures in one update are possible. The modulus exceeds the number of sessions, as in the code.
  Players `b` and `c` are interchangeable (symmetry); the staff account, where there is one, is `a`.
- `sessions`: two maps are needed for a teleport, the world thread for login and logout; `MaxHanded`
  bounds only how many hand-overs to one map may be pending. A map thread takes from its queue
  before every update, so a second pending hand-over of the same session adds nothing new to its
  list. The maps are interchangeable (symmetry). Two sessions and any bound are covered by the proofs.
- `db`: two transactions on two connections is the smallest instance with a deadlock, a second one
  waiting for `_deadlockLock` and reordering; two losses allow one in the transaction and one in its
  retry. Proved for any numbers.

- `lfg`: two players fill a dungeon and the third is refused, left over or fills the place of one who
  left. A scenario says which queues each player may choose, whether two of them start as a party, and
  how many joins and teleports may happen; `MaxProposals` is 2, so that a second proposal is made
  while the first is open, both in one update, or after its end. Four joins are both queues for the
  player that can join both and one for each other, or a group and its refill. Groups do
  become `outdated` within these bounds, but none outgrows its dungeon; with three proposals and six
  joins one does (section 8), and the theorem is about all that are not outdated, at any bounds.
- `economy`: a scenario gives the first rows, who is in the world and how many steps of each kind
  (trade, mail, auction, earning, login, logout, crash) may happen; together the ten let each kind of
  handler meet the others, pending transactions (at most two, `MaxPending`), a logout and a crash.
  With a bag of one item a trade or a mail is refused for lack of room, with a cap of 5 money is
  refused, and 2 buys out at once while 1 is a bid. A demand is nothing, 1, or 3, which with `Half` = 2 stands for the
  demands from 2^31 on; `p2` is a game master. A third player is there where a bid displaces
  another's. All scenarios start with the same total of money, so that none can hide a loss. Logouts
  and crashes are bounded to one, so a mail is listed at most before and after it.
  `LogTrade` is FALSE, the default of `World.cpp:964`.

`CHECK_DEADLOCK FALSE` is given wherever the program may legitimately stop: the pool after `stop()`,
a closed socket, sessions that are all gone, a stopped server, a closed database pool or all posted
transactions answered, and in `lfg` and `economy` where the bounds allow nothing more. Only `mpsc`, whose threads never end, is checked for deadlock.

## 5. Fairness

- `ThreadPoolMap`: every runnable thread runs (WF) and a thread that asks for a mutex which is free
  again and again gets it (SF). No fairness on calling `schedule` or `stop` or on spurious wake-ups: an
  owner asleep in `wait()` goes on only if it is notified.
- `MPSCQueue`: a producer inside `Enqueue` is eventually run again, the network thread polls (its
  timer is re-armed by every `Update`). Nobody is obliged to enqueue.
- `WorldSocket`: threads run on inside a call, stores become visible, the 1 ms timer fires, a stalled
  producer's packets are eventually dequeued, and a connection that has not failed keeps accepting
  data - a peer that stops reading for ever without a reset is outside `EventuallyWritten`. Nobody is
  obliged to send, close, kick or disconnect.
- `DatabasePool`: each worker of the `io_context` runs on. `TimeOut` is part of it: a retried
  transaction ends after a minute at the latest. Faults are bounded and never obliged to happen.
- `LoginQueue`, `SessionOwnership`, `DungeonFinder` and `Economy` are checked for safety only: what
  players do is never owed, and a bounded number of steps says nothing about "eventually".

## 6. Proofs

| Theorem | Module | Says |
|---|---|---|
| `PoolTypeCorrect`, `PoolCountExact`, `PoolAtMostOnce`, `PoolBarrier`, `PoolOnlyLateSleep` | `ThreadPoolMapProofs` | `Spec => []` of `TypeOK`, `RequestCountExact`, `AtMostOnce`, `WaitIsBarrier`, `OnlyLateWorkersSleep` |
| `QueueTypeCorrect`, `QueueMemorySafe`, `QueueNeverLeaks` | `MPSCQueueProofs` | `Spec => []` of `TypeOK`, `NoUseAfterFree`, `NoLeak` |
| `QueueImplementsFifo` | `MPSCQueueProofs` | `Spec => ImplementsFifo`: the lock-free queue refines `FifoQueue` |
| `SocketTypeCorrect`, `SocketStreamIntact`, `SocketDelayedCloseFlushes` | `WorldSocketProofs` | `Spec => []` of `TypeOK`, `StreamIntact`, `DelayedCloseFlushes` |
| `LoginTypeCorrect`, `LoginQueueConsistent`, `LoginCountIsSessions`, `LoginLimitRespected` | `LoginQueueProofs` | `Spec => []` of `TypeOK`, `QueueConsistent`, `CountIsSessions`, `LimitRespected` |
| `OwnershipTypeCorrect`, `OwnershipNobodyForgotten`, `OwnershipOneHandler`, `OwnershipOneInLogout` | `SessionOwnershipProofs` | `Spec => []` of `TypeOK`, `NobodyForgotten`, `OneHandler`, `OneInLogout`, for any number of connections that replace each other |
| `DatabaseTypeCorrect`, `DatabaseAtomicUnlessLost`, `DatabaseKeepsOrder` | `DatabasePoolProofs` | `Spec => []` of `TypeOK`, `AtomicUnlessLost`, `OneWorkerKeepsOrder` |
| `EconomyTypeCorrect`, `EconomyOnePlace`, `EconomyConservesMoney`, `EconomyMemoryAgrees` | `EconomyProofs` | `Spec => []` of `TypeOK`, `OneRowPerItem`, `MoneyConserved`, `MemoryAgrees` |
| `EconomyAgreedExchange` | `EconomyProofs` | `Spec => AgreedExchange`, which is about steps |
| `FinderTypeCorrect`, `FinderQueuesAgree`, `FinderGroupsKnown`, `FinderGroupsFit` | `DungeonFinderProofs` | `Spec => []` of `TypeOK`, `QueueStoresAgree`, `GroupDataAgrees`, `GroupsFit` |
| `FinderOnlyByConsent`, `FinderInnocentRequeued` | `DungeonFinderProofs` | `Spec => OnlyByConsent`, `Spec => InnocentRequeued`, which are about steps |

They hold for every value of the constants that satisfies the named assumptions, which TLC evaluates
in the runs:

- `WorkersFinite`, `MaxTasksNat`: a finite set of workers, a natural number of tasks.
- `NullIsNoNode`, `NodesNonEmpty`: a null that is no node and a non-empty heap.
- `SocketConstants`: buffers have room for a packet, and a setting says which packets are big and
  whether stores are late.
- `LoginQueueConstants`: finitely many sessions, each of an account, and a modulus above their number -
  that `m_sessionCount` does not wrap by itself.
- `OwnershipConstants`: `NoSession`, `NoMap` and `World` are no session, no map, and different.
- `DatabaseConstants`: finitely many workers, a value that is none of them, natural bounds and at least
  one statement.
- `HoldingsConstants`, `TradeConstants`, `MailConstants`, `AuctionConstants`, `EconomyConstants`: finite
  sets of players, items, mails and auctions, natural amounts, and scenarios in which everybody's
  money and items fit. `ScenariosShareTotal`: all scenarios begin with the same money.
- `FinderAssumption`: finitely many players, a sequence of queues, group sizes with the smaller one
  first, natural bounds, a party of none or at least two. A role that a dungeon does not take is masked
  out of a request, so `Role` gives one that is needed and `Needed` is at least 1 of each. Party, groups,
  players and the two empty values are different things.

Every proof has the same frame: an inductive invariant (`...Inv`), one lemma per action or group of
actions, and the listed theorem as a consequence. Lemmas about sequences, sums and folds come first.
Where something is defined by recursion over numbers or over a finite set, the induction is had from
`WFMin` - every non-empty set has a least element - applied to the set of counterexamples.

**The pool.** `WaitIsBarrier` is not inductive: it speaks of the moment `wait()` returns, when all
that the code tests is `requestCount_ = 0`. `PoolInv` adds what the counter means
(`RequestCountExact`), that the queue is the suffix of the scheduled tasks (`QueueIsSuffix`), that
each popped task ran once or is held by exactly one worker that has not run it (`HeldTasks`,
`PoppedRanOrHeld`), and that queued ones have not run (`QueuedNotRun`). A counter of zero then means
an empty queue and no busy worker, hence every task ran once. The steps that only move a worker
between waiting places are one lemma (`QuietKeepsInv`).

**The queue.** `QueueInv` ties the pointers to `chain`: it starts at `tail`, ends at `head`, has no
node twice, and between two neighbours either the link is stored or one producer is about to store
it (`ChainLinked`, `ProducersLinking`). That producer's `prev` is therefore still in the chain and
cannot have been freed, which is memory safety. `Exchange` appends to the chain and is the abstract
put, `Advance` drops its first element and is the take, a `LoadNext` that finds null leaves the
abstract queue as it is or answers that nothing is there; every other step maps to a stutter.

`NoLeak` is inductive under `QueueInv`: what `Exchange` takes from a producer it puts into the chain,
and what `Advance` takes off the chain is the node the consumer is about to delete.

**The socket.** `StreamIntact` is stated by positions: packet numbers are given out in the order of the
enqueues, so the wire is a prefix iff its n-th packet has number n. `StreamInv` says the same of what
is on the way: `HoldsExactly(writeQueue, Len(wire), Moved)` - each buffer is a run of consecutive
numbers, the buffers follow each other, and nothing between the wire's last and the last one moved is
missing. A partial write takes a prefix off the first run (`ShortenFront`), a whole buffer takes it
away (`PopFront`), `Update` appends runs (`AppendRun`), among them empty ones. `CloseInv` is about
`empty()`: the queue's length is what was pushed less what was popped (`QueueEnds`), and whichever of
the two ends the closing thread loads first, finding the other one equal means that everything it saw
pushed when `_closing` was set has been popped (`FirstLoad`, `PromiseSeen`). Where stores are seen in
order that is everything pushed (`SeenInOrder`); where they are late it is less, and so is the promise.

**The login queue.** `LoginInv` says that a session object is in exactly one place - under construction,
authenticating, pending, listed, lingering on a map (`OnePlace`) - and that queue, marks and
answers under way agree with the list (`Agree`). Then the counter is the number of objects, and each
admission keeps the limit, because `RemoveQueuedPlayer` admits at most one and only below it
(`RemoveBound`). `UpdateSessions` is a loop, so the lemmas speak of a record of the queue's state and
a list, not of variables: a reconnection removes one session and lists another in one step, and
between the two the invariant holds for the smaller list.

**Sessions.** `NobodyForgotten` rests on what a replacement may find: arrivals are new to everybody
(`ArrivalsAreNew`), a session with a map is held by a list, a queue or a visit or is dead
(`MappedAreHeld`), a visit is to the session the visitor lists (`VisitsItsOwn`), and in a map's queue
nothing older follows the listed session (`NewestLast`), so that it is never pushed off. That last part
is for a session that was not `overtaken`: a hand-over found its session before it adds it, and
if a new one has taken the place by then, the old one goes behind the new one in the map's queue.

`OneHandler` and `OneInLogout` follow from `OneOwner` and `OnePast`: a thread past the tests of `Update`
is the one that `m_map` names, or the map thread that finds a session whose place was taken, and there
is one such thread. `LoginFindsItself` keeps a login from setting a map for the wrong session. A
thread that sets `m_map` when neither the old value nor the new one is its own breaks all of this;
both properties are stated for the sessions to which that has not happened (`usurped`), and without
that exemption they are false even with one connection (section 8). The theorems need no
hypothesis about reconnections: a thread that moves the new session on behalf of the old one's player
usurps it.

**The database pool.** `PoolInv` follows each transaction that is not excused (its session lost, or
an error in its own START TRANSACTION, COMMIT or ROLLBACK dropped) through its worker's place
(`Progress`): no trace before the statements, exactly the statements so far in the session's open
transaction among them, and at COMMIT either all of them open or all of them stored with the answer
owed - the state `LoseCommitAnswer` leads to. `OpenIsOwn` says that otherwise only remains of excused
transactions are open in a session, so that committing them along touches nobody else, `Untaken` and
`TasksDistinct` keep workers apart. `OrderInv` is separate: a single worker runs the transaction taken
last, nothing in the history is newer, and what is still open is not older.

**The economy.** What is true of the rows after everything is executed does not follow from what is true
of the rows now: a transaction overwrites rows without looking at them. So `EconomyInv` speaks of
`RowsAfter(disk, queue)[n]` for every n: each of these rows is `Sound`, that is typed, with every item
in one place, everybody's money and bag within bounds and the wealth of the beginning. After a crash
the first of them is all there is, and each of the others may be later. Memory agrees with the last of them (`PursesAgree`, `BoxesOK`, `HouseOK`),
and posting a transaction adds one more that must be shown sound, under the new memory (`PostStep`,
`PostTwo`). The one thing that reads the rows early, a login or the first listing of a mailbox, is
covered by stillness: what it will read of purse, bag or mails changes in none of the elements behind
it (`LoginsWait`, `Unread`).

The handlers come down to a few shapes. Letters (`LettersStep`): new rows of mail with what they carry,
for every mail of the game and of the auction house. A mailbox that is saved (`Cleared`): between
deleting and emptying the old mails and sending the new ones lies a state of rows that is sound but
for what is in the player's hands. The exchange of a trade: `Exchanged` moves slot by slot, and
`Halfway` tells what lies where after k of them; at the end two bags have swapped what was laid
(`Swap`), because no item is laid twice (`TradesOK`). That an accept is taken back by every change of
the offer, except to an amount that is refused, is also in `TradesOK` and gives `AgreedExchange`.
`EconomyInvariant` holds the invariant and the vocabulary of what is posted, `EconomyProofs` all lemmas
and theorems.

What money is conserved with is the ledger `fees`: postage, deposits and cuts that leave the game, less
what `Minted` brings into it, so it may be negative. Each posted transaction carries its own share, and
the lemmas about letters, mailboxes and posts are stated for any share. The theorem says that money
comes into being in those two handlers, by exactly these amounts, and nowhere else: not in a trade, a
bid, a return or a logout, in whatever order transactions and crashes fall. With demands below 2^31 and
no game master, the ledger only grows.

**The dungeon finder.** The handlers call each other on the same stores, so nothing can be said of an
action as a whole: for each function there is a lemma from what holds of the stores L it is given to
what holds of the stores M it leaves. `Good(L)` is that they have their types and agree - a listed or
cached entry has data, a single player's entry stands for that player, a proposal's players are of its
entries. `QLess(L, M)` is that M holds no more than L, and that whoever is in a proposal that
disappeared is listed or has no data; it composes along a chain of calls, so it holds of everything
that ends a proposal, leaves a queue or disbands a group. `GSame`, `Removed` and `Success` say what
became of the groups, `Searched` what a search adds to its queue, and joining, role checks and
announcements, which move nobody and end no proposal, are `Soft`. Where the code recurses or loops, the
recursive function is followed number by number, with `NumberInduction`.

`FinderInv` is the invariant: `Sound(lfg)` - `Good`; what is known of the groups is so (`Known`); the
groups still to be made are nowhere (`NewGroups`), because a proposal's number becomes its group's;
every proposal is of players that fit and nobody has refused one that is still held (`Fits`) - and
`Announcing`: in the steps of `Update`, the proposal made last is still there whenever it is to be
announced, and only members of the group it fills have agreed to it (`Unanswered`), for `Update` holds
the lock since it was made. Without this `Announce` could read a proposal that is gone.

`GroupsFit` needs more, because a proposal fits only together with the group it refills as that group
was when it was listed. `Fit(lfg, g)` says that whatever the finder holds of g - entry, proposal, role
check - is of all its members and that these fit. Every step keeps it for a group that takes in
nobody, or that takes in somebody and is then no longer in the finder (`Fitted`). This is the
weakest exemption the proof found: `outdated` collects the groups for which it fails, and there the
property is really false.

`OnlyByConsent` and `InnocentRequeued` are conjuncts of `StepOK`, what each action is shown to do from
`FinderInv`. The second rests on `QLess` along each of the chains of calls that remove proposals -
an answer, a timeout among others in the same `Update`, a departure inside the making of another
group. Of the proposal that succeeds, those who came on their own have no data left, because the answer's
ticket names the queue; where it does not, at an announcement that needs no answer, nobody but the
members of the refilled group had agreed.

Only model-checked: every liveness property (`WaitReturns`, `StopReturnsUnlessLate`, `EventuallyTaken`,
`EventuallyWritten`, `DelayedCloseClosesInOrder`, `EventuallyAnswered`), which depends on fairness
and is out of the prover's reach.

## 7. What is left out

Within the modelled components:

- Packets, tasks and values are numbers or names; encryption is the order of the wire. Reading from
  sockets, header parsing and the IOCP variant of the write path are not modelled.
- Times are choices: a tolerance that is zero or not, a retry that times out or not, a session whose
  idle time has run out or not.
- `LoginQueue`: a second CMSG_ENABLE_ENCRYPTION_ACK of one connection, which the client does not send
  and the code does not test for (`WorldSocket.cpp:1059-1066`); `KickAll`, `.server plimit`, instance sockets and the scaling of the answer to
  `GetActiveSessionCount` above 50 sessions.
- `SessionOwnership`: of the packet handlers only a login and a teleport; instance sockets and zone
  threads; the inside of `LogoutPlayer` beyond saving the player; a `CreateMap` that yields no map.
  `World::FindSession` is taken as one step although it reads an unordered map without a lock.
- `DatabasePool`: single statements, queries and their callbacks, query holders, synchronous
  connections, KeepAlive, preparing statements. Transactions have at least one statement: of an empty
  one `ExecuteTransaction` returns at once.
- `DungeonFinder`: a ticket other than that of the proposal - the code takes the queue to leave from the
  `Ticket.Id` the client sends back (`LFGMgr.cpp:1230`, `1283-1284`), and the client echoes what it was
  sent; steps of others between the lines of `LeaveGroup` outside the lock; the vote to kick, logging in and out, invitations into the group, a choice of several
  dungeons or roles, locks by item or level, waiting times, rewards and the role checks of
  battlegrounds.
- `Holdings`, `Trade`, `Mail`, `Auction`: the seventh slot of a trade (a spell on an item) and the client's
  state index; stacks and their split; an auction of part of a stack, which clones the item
  (`AuctionHouseHandler.cpp:292-355`), and the spell of an accept (`TradeHandler.cpp:356-430`); mails with
  several items, expiry (`ObjectMgr.cpp:4322-4437`), delay and templates; a return of a mail that is
  not from a player (`MailHandler.cpp:358-398`; the client offers Return for players' mails only); the
  mail that announces a pending sale; the auction bot and second auction houses; amounts beyond 32 bits,
  which the rows truncate (`Player.cpp:25646-25647`, `AuctionHouseHandler.cpp:439`). Handlers are atomic: data
  races between two map threads inside a handler are out of scope. One connection executes the
  transactions, in order.

The other components are listed with their reasons in `PROJECT.json`: planned ones (section 2);
game rules, scripts and object graphs whose state TLC cannot enumerate usefully; serialisation,
tables and I/O; separate processes and offline tools; vendored code.

## 8. Findings

Each is a run that TLC ends with a counterexample to what the repository itself says.

1. `socket_lost`, `Socket.h:172`: a delayed close looks only at `_writeQueue`. An error packet sent just
   before it (`WorldSocket.cpp:705-707`) is still in `_bufferQueue`, the socket closes at once and the
   client never sees it. `Socket.h:166`: "Marks the socket for closing after write buffer becomes
   empty". What was in `_writeQueue` is safe if the closing thread sees the network thread's stores in
   their order (`DelayedCloseFlushes`); a push it cannot see yet may be cut off as well.
2. `sessions_two`, `World.cpp:307`: a reconnect replaces the account's session at once and leaves the
   old player to a map thread; the new session can log a character in before. `WorldSession.cpp:741`:
   "Since each account can only have one online character at any given time".
3. `sessions_stop`, `Main.cpp:303`: at the stop a map thread inside `Update` makes the last
   `UpdateSessions` skip the session, then finds `m_map` changed and forgets it. The player is not
   saved before the databases close. `Main.cpp:302-303`: "save and kick all players".
4. `db_loss`, `MySQLConnection.cpp:270`: the retry of one statement after a lost connection also happens
   inside a transaction. The earlier statements were rolled back with the session, the later ones run
   one by one in the new one, and the transaction reports success.
   `AuctionHouseHandler.cpp:462`: "Mails must be under transaction control too to prevent data loss".

Two properties are stated with the exact gap in which they fail: `StopReturnsUnlessLate` and
`OnlyLateWorkersSleep` exempt a worker that is between the predicate and the sleep when `freeze()`
stores its flag without the mutex - such a worker sleeps for ever and `stop()` with it. `WaitReturns`
exempts a wait for tasks that `stop()` froze in the queue and one whose pool is gone. Likewise
`LimitRespected` and `CountIsSessions` exempt states after a lost update of the counter,
`OneHandler` and `OneInLogout` sessions that were `usurped` and `NobodyForgotten` those `overtaken`,
`DelayedCloseClosesInOrder` runs where stores are seen late, `DelayedCloseFlushes` there the buffers whose
push the closing thread cannot see yet, `AgreedExchange` an amount that was
changed and refused, `AtomicUnlessLost` a transaction that lost its session or whose own control
command failed, `MoneyConserved` the two amounts that `Minted` counts,
`MemoryAgrees` mails posted but not executed when the mailbox was listed,
`OneRowPerItem` items the code deletes, and `GroupsFit` dungeon groups that took in a player while the
finder still held them (below).

Observed while reading. Some are the reason for such an exemption; of the others the repository does
not say clearly enough what should happen to make them a run:

Threads, sockets, sessions and databases

- `MapManager.cpp:376`: `UnloadAll` gives the map threads a second and then destroys the maps, whose
  destructor stops the worker pool. A tick that takes longer may wait for tasks that the freeze left in
  the queue - for ever - or go on using the pool after it is deleted (`WaitReturns` exempts both).
- `Socket.h:172`: called from another thread, `empty()` may miss the last pop while the network thread has
  already read `_closing` as false; the socket stays open. It may also miss the last push and close over
  that buffer. Both need a store that is seen late.
- `World.cpp:325`: the limit is compared with the number of session objects, also those still on their
  way to the world: two players arriving at an empty server with one place are both queued until a
  session ends (`worldserver.conf.dist:774-776` promises a queue beyond the limit).

- `World.cpp:384` computes `difftime` with its arguments the wrong way round: an account that ever left
  skips the login queue until the next restart (the model does the same).
- `SafeTeleport` hands the session over twice (`Player.cpp:2288-2293` and `2371-2376`). After the first
  time the receiving map's thread may handle its packets, log the player out and delete him while
  `SafeTeleport` still runs on him. If the session has moved on by then, the second `SetMap` takes it
  from its owner, and a second thread gets into a packet handler (51 steps from the start with one
  connection) or into `LogoutPlayer` (55 steps): hence `usurped`.
- With a reconnect, `SafeTeleport` hands over `sWorld->FindSession(account)`, the new session, for the
  old one's player, which also usurps it. One found before the reconnect is put into the map's queue
  behind the new session and pushes it off the map's list: nobody visits the new session again, and its
  player stays in the world (36 steps with two connections; hence `overtaken`).
- A thread that entered `Update` before a hand-over clears `m_sUpdate` under the next owner; the test
  of `m_map` in the packet loop is what keeps the two apart.
- `WorldSession.cpp:443` says that the logout procedure happens only in `World::UpdateSessions`; map
  threads call `LogoutPlayer` as well.
- `MySQLConnection.cpp:393-406` drops the results of START TRANSACTION, COMMIT and ROLLBACK. A COMMIT
  that fails other than by a lost connection is answered as done with nothing stored; after a failed
  START TRANSACTION the statements take effect one by one; what a failed ROLLBACK leaves open is committed
  by the next START TRANSACTION (`BeginDropped`, `CommitDropped`, `RollbackDropped`; `AtomicUnlessLost`
  excuses these transactions and shows that no other suffers).
- `DatabaseWorkerPool::Close` stops the `io_context` first, which drops the transactions still queued.
- `MapManager::UnloadAll` waits a second and logs out only the sessions its maps still list; the others
  are destroyed with `World`'s static instance, after the databases.
- Raising the limit with `.server plimit` lets nobody in until a session ends.
- `FunctionProcessor::KillAllFunctions` sets a flag: functions added between it and the next update are
  thrown away with the old ones.

Dungeon finder

- A dungeon group can outgrow its dungeon. `JoinLfg` (`LFGMgr.cpp:502`) removes an entry only if its
  state is QUEUED and refuses no one whose state is PROPOSAL, so a leader can ask for a refill again
  while a proposal with the group is out. The next search proposes the group to another player; both
  proposals can be agreed to, and neither `MakeNewGroup` nor `Group::AddMember` looks at the size. With
  a dungeon for two, three players and three proposals this takes 17 steps: group 1 has one member
  left, proposal 2 offers the place to one player and proposal 3 to another. The same comes of a finished
  group that joins a second queue while it is listed in the first.
- `JoinLfg` does not refuse a player whose state is PROPOSAL or WAITE, so an entry can be listed twice
  (`LFGQueue.cpp:451` logs it). The other way round, `LFGMgr.cpp:502` removes the entry before the
  restrictions are checked, and a match that finds a player in a wrong state drops an entry without a
  proposal (`LFGQueue.cpp:285-290`): players are QUEUED without being listed.
- A cached "no" of a party's former entry is found again by its next one.
- A player who agreed, was teleported (WAITE) and left the queue is still put into the group. The
  teleport also overwrites DUNGEON, because the list of the player's dungeons is not cleared.
- One member's `LeaveLfg` while the group is queued for a refill resets the group's state.
- Of two proposals made in one update only the last is announced (`LFGMgr.cpp:377`, and the FIXME
  above it); the first runs into its timeout.
- `MakeNewGroup` passes over players who are being teleported (`LFGMgr.cpp:1133-1135`). Role checks that
  end in WRONG_ROLES or ABORTED leave their players in ROLECHECK. `LFG_TIME_ROLECHECK` is in
  milliseconds and added to seconds (`LFGMgr.h:104`).

Trade, mail, auctions

- `SetMoney` (`TradeData.cpp:120-141`) stores an amount before it tests whether the player has it, and on
  refusal leaves the partner's accept standing. An accept is not tied to the offer its sender saw: the
  test of the state index is commented out (`TradeHandler.cpp:257-263`).
- An item in a trade window can be mailed or auctioned, though not destroyed
  (`ItemHandler.cpp:293`) or split. An accept that ends with "items can't be traded" leaves both accepts set.
- `_LoadMail` reads past the queue: a mail posted but not yet executed stays invisible until the next
  login. Heirlooms are left out of the receiver's listed copy of a mail.
- `AuctionHouseObject::Update` deletes the auction and then reads its item's guid
  (`AuctionHouseMgr.cpp:526-527`).
- With `GM.LogTrade` off, the default, the account of a winner who is not in the world is not looked up
  (`AuctionHouseMgr.cpp:117-155`), so his item is deleted where line 182 says "bidder doesn't exist,
  delete the item" - and outside the sale's transaction: after a crash between the two the row of the
  auction remains without an item, `CHAR_SEL_AUCTIONS` never loads it, and the seller is not paid.
- `CHAR_UPD_MAIL` and `CHAR_UPD_AUCTION_BID` write 64-bit money as 32 bits. `HandleMailDelete` deletes a
  mail with money in it, and `ReturnOrDeleteOldMails` one with money and no items.
- `HandleAuctionSellItem` takes the deposit (`AuctionHouseHandler.cpp:222`) before checks that may still
  return (230-247): the money is gone and nothing is offered (`SellFails`).
- `HandleMailTakeItem` compares the COD as 64 bits and takes it off with `-int32(COD)`
  (`MailHandler.cpp:426`, `485`). From 2^31 up the payer is given money instead, while the sender is paid the
  whole demand; at exactly 2^31 the negation is undefined.
- A game master is not asked whether he has the money he encloses (`MailHandler.cpp:156`); `ModifyMoney`
  stops at nothing, and the rest comes into being.
