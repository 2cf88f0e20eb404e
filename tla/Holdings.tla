------------------------------ MODULE Holdings ------------------------------
(***************************************************************************)
(* What players own: money and items in the memory of the server, the rows *)
(* of the characters database, and the queue of transactions between them. *)
(* A handler changes memory at once and posts one transaction; a database  *)
(* worker executes what was posted in order (DatabasePool, one connection);*)
(* some queries read the rows at once, past the queue.  The modules Trade, *)
(* Mail and Auction add the handlers, Economy composes them.               *)
(* Sources: Entities/Player/Player.cpp, the statements named in            *)
(* database/Database/Implementation/CharacterDatabase.cpp.                 *)
(***************************************************************************)
EXTENDS Integers, Sequences, FiniteSets, SequencesExt

CONSTANTS
    Players,        \* characters
    Items,          \* item guids
    MailIds,        \* a bound: mails that exist at the same time
    Lots,           \* a bound: auctions that exist at the same time
    Nobody,         \* no player, no mail, no item
    Space,          \* items each character can carry
    Cap,            \* MAX_MONEY_AMOUNT
    MaxPending      \* a bound: transactions that wait for the worker

ASSUME HoldingsConstants ==
    /\ IsFiniteSet(Players) /\ IsFiniteSet(Items)
    /\ MailIds \subseteq Nat /\ IsFiniteSet(MailIds) /\ IsFiniteSet(Lots)
    /\ Nobody \notin Players \cup MailIds \cup Items
    /\ Space \in [Players -> Nat] /\ Cap \in Nat /\ MaxPending \in Nat

VARIABLES
    online,         \* characters in the world
    money,          \* PLAYER_FIELD_COINAGE of those in the world
    net,            \* history: what each gained from the world (loot, vendors,
                    \* less the deposits of sales that failed)
    items,          \* the inventory of those in the world
    disk,           \* the rows
    queue           \* what is posted and not executed yet

holdings == <<online, money, net, items, disk, queue>>

NoLot == [item |-> Nobody, owner |-> Nobody, bidder |-> Nobody, bid |-> 0]
NoMail == [to |-> Nobody, from |-> Nobody, player |-> FALSE,
           money |-> 0, cod |-> 0]

Override(f, g) == [x \in DOMAIN f \cup DOMAIN g |->
                      IF x \in DOMAIN g THEN g[x] ELSE f[x]]
None == [x \in {} |-> Nobody]
Total(f, S) == FoldFunctionOnSet(+, 0, f, S)

(***************************************************************************)
(* A transaction is what it writes: characters.money (with the history     *)
(* that goes with it), rows of character_inventory, new rows of mail,      *)
(* money and cod of old ones, deleted mails, rows of mail_items, deleted   *)
(* rows of item_instance, rows of auctionhouse; fees is history: the money *)
(* that the transaction takes out of the economy (negative when it brings  *)
(* money in).  The queries of a login wait in the same queue and write     *)
(* nothing.                                                                *)
(***************************************************************************)
Blank == [money |-> None, net |-> None, row |-> None, post |-> None,
          paid |-> None, drop |-> {}, attach |-> None, lost |-> {},
          lot |-> None, fees |-> 0, login |-> Nobody]

(* One row of mail after a transaction: REPLACE, DELETE, or an UPDATE that *)
(* finds the row.                                                          *)
MailRow(d, t, id) ==
    IF id \in DOMAIN t.post THEN t.post[id]
    ELSE IF id \in t.drop \/ d.mail[id] = NoMail THEN NoMail
    ELSE IF id \in DOMAIN t.paid
         THEN [d.mail[id] EXCEPT !.money = t.paid[id].money,
                                 !.cod = t.paid[id].cod]
         ELSE d.mail[id]

(* One row of mail_items: keyed by the item; DELETE by mail precedes the   *)
(* REPLACE that attaches the item elsewhere.                               *)
AttachRow(d, t, i) ==
    IF i \in DOMAIN t.attach THEN t.attach[i]
    ELSE IF d.attach[i] \in t.drop THEN Nobody ELSE d.attach[i]

Execute(d, t) ==
    [money  |-> Override(d.money, t.money),
     net    |-> Override(d.net, t.net),
     row    |-> Override(d.row, t.row),
     mail   |-> [id \in MailIds |-> MailRow(d, t, id)],
     attach |-> [i \in Items |-> AttachRow(d, t, i)],
     kept   |-> d.kept \ t.lost,
     lot    |-> Override(d.lot, t.lot),
     fees   |-> d.fees + t.fees]

IsLogin(e) == e.login # Nobody

(* The rows after each element of q, beginning with the rows d, ...        *)
RowsAfter(d, q) ==
    LET rows[n \in 0..Len(q)] ==
            IF n = 0 THEN d ELSE Execute(rows[n - 1], q[n])
    IN rows

(* ... and once everything posted has been executed.                       *)
Settled == RowsAfter(disk, queue)[Len(queue)]

RoomFor(n) == Len(queue) + n <= MaxPending
Post(t) == queue' = Append(queue, t)

(* Player::ModifyMoney.                                                    *)
Modified(m, amount) ==
    IF amount < 0 THEN (IF m > -amount THEN m + amount ELSE 0)
    ELSE IF m < Cap - amount THEN m + amount ELSE m

(* Player::CanStoreItem.                                                   *)
CanStore(p, inv) == Cardinality(inv[p]) < Space[p]

(* Player::SaveInventoryAndGoldToDB of the players S, with the items each  *)
(* has in its update queue; every handler here saves what it queued, so    *)
(* that queue is empty between handlers.                                   *)
Saving(t, S, m, n, queued) ==
    [t EXCEPT !.money = Override(@, [p \in S |-> m[p]]),
              !.net = Override(@, [p \in S |-> n[p]]),
              !.row = Override(@, [i \in UNION {queued[p] : p \in S} |->
                                      CHOOSE p \in S : i \in queued[p]])]

NothingQueued == [p \in Players |-> {}]

-----------------------------------------------------------------------------
(* Money from and to the world: loot, vendors.  Saved with the next save.  *)
Earn(p) ==
    /\ p \in online
    /\ money[p] + 1 < Cap
    /\ money' = [money EXCEPT ![p] = @ + 1]
    /\ net' = [net EXCEPT ![p] = @ + 1]
    /\ UNCHANGED <<online, items, disk, queue>>

Spend(p) ==
    /\ p \in online
    /\ money[p] > 0
    /\ money' = [money EXCEPT ![p] = @ - 1]
    /\ net' = [net EXCEPT ![p] = @ - 1]
    /\ UNCHANGED <<online, items, disk, queue>>

(* HandlePlayerLogin posts the login queries behind the saves.             *)
RequestLogin(p) ==
    /\ p \notin online
    /\ \A k \in DOMAIN queue : queue[k].login # p
    /\ RoomFor(1)
    /\ Post([Blank EXCEPT !.login = p])
    /\ UNCHANGED <<online, money, net, items, disk>>

(* The worker executes the oldest element: a transaction, or the queries   *)
(* of a login, whose answer puts the character into the world.             *)
WorkTransaction ==
    /\ queue # <<>>
    /\ ~IsLogin(Head(queue))
    /\ disk' = Execute(disk, Head(queue))
    /\ queue' = Tail(queue)
    /\ UNCHANGED <<online, money, net, items>>

WorkLogin ==
    /\ queue # <<>>
    /\ IsLogin(Head(queue))
    /\ \E p \in {Head(queue).login} :
          /\ online' = online \cup {p}
          /\ money' = [money EXCEPT ![p] = disk.money[p]]
          /\ net' = [net EXCEPT ![p] = disk.net[p]]
          /\ items' = [items EXCEPT ![p] =
                          {i \in disk.kept : disk.row[i] = p}]
    /\ queue' = Tail(queue)
    /\ UNCHANGED disk

(* A player's memory is gone: after the logout's save, or in a crash.      *)
Leave(S) ==
    /\ online' = online \ S
    /\ money' = [p \in Players |-> IF p \in S THEN 0 ELSE money[p]]
    /\ net' = [p \in Players |-> IF p \in S THEN 0 ELSE net[p]]
    /\ items' = [p \in Players |-> IF p \in S THEN {} ELSE items[p]]
=============================================================================
