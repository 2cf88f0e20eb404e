-------------------------- MODULE EconomyInvariant --------------------------
(***************************************************************************)
(* The inductive invariant of Economy, for the proofs.                     *)
(*                                                                         *)
(* It speaks of the rows after every element of the queue: each of them    *)
(* may be all there is after a crash.  What is in memory is compared with  *)
(* the last of them.  The parts have the rows and the memory as parameters *)
(* because a handler may pass through several of both.                     *)
(*                                                                         *)
(* After it, the vocabulary of what is posted: a transaction by its parts, *)
(* the rows it leaves, and the letters it sends.                           *)
(***************************************************************************)
EXTENDS Economy

(* Rows.                                                                    *)
Mails == [to : Players, from : Players \cup {Nobody}, player : BOOLEAN,
          money : Int, cod : Nat]
Auctioned == [item : Items, owner : Players, bidder : Players \cup {Nobody},
              bid : Nat]
Database ==
    [money : [Players -> 0..Cap], net : [Players -> Int],
     row : [Items -> Players \cup {Nobody}],
     mail : [MailIds -> Mails \cup {NoMail}],
     attach : [Items -> MailIds \cup {Nobody}], kept : SUBSET Items,
     lot : [Lots -> Auctioned \cup {NoLot}], fees : Int]

(* A returned mail has a sender, only players demand, nobody has bid       *)
(* nothing, and what is attached is attached to a mail.                    *)
Proper(d) ==
    /\ \A id \in MailIds : d.mail[id].player => d.mail[id].from \in Players
    /\ \A id \in MailIds : d.mail[id].cod > 0 => d.mail[id].player
    /\ \A a \in Lots : d.lot[a].bidder = Nobody => d.lot[a].bid = 0
    /\ \A i \in Items : d.attach[i] # Nobody => d.mail[d.attach[i]] # NoMail

LotsOf(d, i) == {a \in Lots : d.lot[a].item = i}
Placed(d, i) ==
    IF i \in d.kept
    THEN \/ d.row[i] \in Players /\ d.attach[i] = Nobody /\ LotsOf(d, i) = {}
         \/ d.row[i] = Nobody /\ d.attach[i] \in MailIds /\ LotsOf(d, i) = {}
         \/ d.row[i] = Nobody /\ d.attach[i] = Nobody
            /\ \E a \in Lots : LotsOf(d, i) = {a}
    ELSE d.row[i] = Nobody /\ d.attach[i] = Nobody
OnePlace(d) == \A i \in Items : Placed(d, i)

Bag(d, p) == {i \in Items : d.row[i] = p}
BagsFit(d) == \A p \in Players : Cardinality(Bag(d, p)) <= Space[p]
Conserved(d) == \A s \in Starts : Wealth(d) = Total(s.money, Players)
Sound(d) == /\ d \in Database
            /\ Proper(d)
            /\ OnePlace(d)
            /\ BagsFit(d)
            /\ Conserved(d)

IsQueue(q) == \E T : q \in Seq(T)
Final(d, q) == RowsAfter(d, q)[Len(q)]
RowsSound(d, q) == \A n \in 0..Len(q) : Sound(RowsAfter(d, q)[n])

(* What those in the world carry and what the rows will be.                 *)
PursesAgree(s, on, mo, ne, it) ==
    \A p \in on : s.money[p] - s.net[p] = mo[p] - ne[p] /\ it[p] = Bag(s, p)

(* Mailboxes.                                                               *)
Attached(s, id) == {i \in Items : s.attach[i] = id}
Shown(s, id, st) ==
    [from |-> s.mail[id].from, player |-> s.mail[id].player,
     money |-> s.mail[id].money, cod |-> s.mail[id].cod,
     items |-> Attached(s, id), removed |-> {}, state |-> st]
BoxShape(b) ==
    /\ b = [loaded |-> b.loaded, mails |-> b.mails, missed |-> b.missed]
    /\ b.loaded \in BOOLEAN
    /\ b.mails = [id \in DOMAIN b.mails |-> b.mails[id]]
    /\ DOMAIN b.mails \subseteq MailIds
    /\ \A id \in DOMAIN b.mails : b.mails[id].state \in {"same", "deleted"}
BoxShows(s, b, p) ==
    \A id \in DOMAIN b.mails :
        s.mail[id].to = p /\ b.mails[id] = Shown(s, id, b.mails[id].state)
BoxFull(s, b, p) ==
    \A id \in MailIds : s.mail[id].to = p => id \in DOMAIN b.mails \cup b.missed
BoxGone(b, gn) ==
    \A id \in DOMAIN b.mails :
        b.mails[id].state = "deleted" => b.mails[id].items \subseteq gn
BoxOK(s, b, p, gn) == /\ BoxShape(b)
                      /\ BoxShows(s, b, p)
                      /\ ~b.loaded => b = NoBox
                      /\ b.loaded => BoxFull(s, b, p)
                      /\ BoxGone(b, gn)
BoxesOK(s, bx, on, gn) ==
    /\ bx = [p \in Players |-> bx[p]]
    /\ \A p \in Players : BoxOK(s, bx[p], p, gn)
    /\ \A p \in Players \ on : bx[p] = NoBox
    /\ Items \ s.kept \subseteq gn

(* A character whose login waits, or whose mailbox is not listed yet, will *)
(* read rows that are final.                                               *)
SamePurse(d, e, p) ==
    d.money[p] = e.money[p] /\ d.net[p] = e.net[p] /\ Bag(d, p) = Bag(e, p)
SameMails(d, e, p) ==
    \A id \in MailIds : d.mail[id].to = p =>
        e.mail[id] = d.mail[id] /\ Attached(e, id) = Attached(d, id)
PurseStill(d, q, p, k) ==
    \A n \in k..Len(q) : SamePurse(RowsAfter(d, q)[n], Final(d, q), p)
MailStill(d, q, p, k) ==
    \A n \in k..Len(q) : SameMails(RowsAfter(d, q)[n], Final(d, q), p)
LoginsWait(d, q, on) ==
    \A k \in 1..Len(q) : IsLogin(q[k]) =>
        /\ q[k].login \in Players \ on
        /\ q[k] = [Blank EXCEPT !.login = q[k].login]
        /\ PurseStill(d, q, q[k].login, k)
        /\ MailStill(d, q, q[k].login, k)
        /\ \A n \in 1..Len(q) : q[n].login = q[k].login => n = k
Unread(d, q, on, bx) == \A p \in on : ~bx[p].loaded => MailStill(d, q, p, 0)

HouseOK(s, au, ai, du) ==
    /\ au = LoadedAuctions(s)
    /\ \A a \in Lots : au[a] # NoLot => au[a].item \in ai
    /\ ai \subseteq Items /\ du \subseteq Lots

(* The two ends of a trade; no item is laid twice; what was agreed to is    *)
(* what the partner offers.                                                 *)
Distinct(sl) == \A s, o \in TradeSlots : sl[s] = sl[o] /\ sl[s] # Nobody => s = o
Slots == {sl \in [TradeSlots -> Items \cup {Nobody}] : Distinct(sl)}
Offers == [gold : Nat, slots : Slots]
Trades == [with : Players \cup {Nobody}, offer : Offers, accepted : BOOLEAN,
           agreed : Offers, refused : BOOLEAN]
TradesOK(tr, on) ==
    /\ tr \in [Players -> Trades]
    /\ \A p \in Players : tr[p] # NoTrade =>
          /\ p \in on /\ tr[p].with \in on \ {p}
          /\ tr[tr[p].with].with = p
          /\ tr[p].accepted =>
                /\ tr[p].agreed.slots = tr[tr[p].with].offer.slots
                /\ ~tr[p].refused =>
                      tr[p].agreed.gold = tr[tr[p].with].offer.gold

MemoryTyped(on, mo, ne, it) ==
    /\ on \subseteq Players
    /\ mo \in [Players -> 0..Cap]
    /\ ne \in [Players -> Int]
    /\ it \in [Players -> SUBSET Items]
    /\ \A p \in Players \ on : it[p] = {}

EconomyInv ==
    /\ IsQueue(queue) /\ Len(queue) <= MaxPending
    /\ MemoryTyped(online, money, net, items)
    /\ RowsSound(disk, queue)
    /\ PursesAgree(Settled, online, money, net, items)
    /\ BoxesOK(Settled, box, online, gone)
    /\ LoginsWait(disk, queue, online)
    /\ Unread(disk, queue, online, box)
    /\ HouseOK(Settled, auctions, aitems, due)
    /\ TradesOK(trade, online)

-----------------------------------------------------------------------------
(* Transactions by their parts.                                             *)
Trans(mo, ne, ro, po, pa, dr, at, lo, lt, fe) ==
    [money |-> mo, net |-> ne, row |-> ro, post |-> po, paid |-> pa, drop |-> dr,
     attach |-> at, lost |-> lo, lot |-> lt, fees |-> fe, login |-> Nobody]

NewRows(ls) == [id \in Ids(ls) |-> Row(LetterOf(ls, id))]
NewAttached(ls) == [i \in UNION {ls[k].items : k \in DOMAIN ls} |->
                       NewId(CHOOSE k \in DOMAIN ls : i \in ls[k].items)]
QueuedRows(S, queued) == [i \in UNION {queued[p] : p \in S} |->
                             CHOOSE p \in S : i \in queued[p]]

(* What a transaction leaves.                                               *)
Executed(d, e, mo, ne, ro, po, pa, dr, at, lo, lt, fe) ==
    /\ e = [money |-> e.money, net |-> e.net, row |-> e.row, mail |-> e.mail,
            attach |-> e.attach, kept |-> e.kept, lot |-> e.lot, fees |-> e.fees]
    /\ e.money = [p \in Players |-> IF p \in DOMAIN mo THEN mo[p] ELSE d.money[p]]
    /\ e.net = [p \in Players |-> IF p \in DOMAIN ne THEN ne[p] ELSE d.net[p]]
    /\ e.row = [i \in Items |-> IF i \in DOMAIN ro THEN ro[i] ELSE d.row[i]]
    /\ e.mail = [id \in MailIds |->
          IF id \in DOMAIN po THEN po[id]
          ELSE IF id \in dr \/ d.mail[id] = NoMail THEN NoMail
          ELSE IF id \in DOMAIN pa
               THEN [d.mail[id] EXCEPT !.money = pa[id].money, !.cod = pa[id].cod]
               ELSE d.mail[id]]
    /\ e.attach = [i \in Items |->
          IF i \in DOMAIN at THEN at[i]
          ELSE IF d.attach[i] \in dr THEN Nobody ELSE d.attach[i]]
    /\ e.kept = d.kept \ lo
    /\ e.lot = [a \in Lots |-> IF a \in DOMAIN lt THEN lt[a] ELSE d.lot[a]]
    /\ e.fees = d.fees + fe

-----------------------------------------------------------------------------
Letters == [to : Players, from : Players \cup {Nobody}, player : BOOLEAN,
            money : Int, cod : Nat, items : SUBSET Items]
(* Letters that may be sent: at most three, of which only one encloses items.*)
Sendable(ls) ==
    /\ ls \in Seq(Letters) /\ Len(ls) <= 3
    /\ \A k \in 1..Len(ls) : /\ ls[k].player => ls[k].from \in Players
                             /\ ls[k].cod > 0 => ls[k].player
    /\ \A j, k \in 1..Len(ls) : j # k => ls[j].items \cap ls[k].items = {}


(* Sending letters: what holds of rows s and mailboxes bx that do not know  *)
(* their ids holds of the rows e that have them and of the mailboxes they   *)
(* are delivered to.                                                        *)
Enclosed(ls) == UNION {ls[k].items : k \in DOMAIN ls}
MailTyped(s) ==
    /\ s.mail \in [MailIds -> Mails \cup {NoMail}]
    /\ s.attach \in [Items -> MailIds \cup {Nobody}]
    /\ \A id \in MailIds : s.mail[id].player => s.mail[id].from \in Players
    /\ \A id \in MailIds : s.mail[id].cod > 0 => s.mail[id].player
    /\ \A i \in Items : s.attach[i] # Nobody => s.mail[s.attach[i]] # NoMail
Fresh(s, bx, ls) ==
    /\ Len(ls) \in 0..3 /\ DOMAIN ls = 1..Len(ls)
    /\ \A k \in 1..Len(ls) :
          /\ NewId(k) \in Ids(ls) /\ NewId(k) \in MailIds
          /\ LetterOf(ls, NewId(k)) = ls[k] /\ ls[k] \in Letters
    /\ \A j, k \in 1..Len(ls) : NewId(j) = NewId(k) => j = k
    /\ \A id \in Ids(ls) :
          /\ id \in MailIds /\ s.mail[id] = NoMail
          /\ Attached(s, id) = {}
          /\ \A p \in Players : id \notin DOMAIN bx[p].mails
          /\ \E k \in 1..Len(ls) : id = NewId(k)
    /\ \A i \in Enclosed(ls) : s.attach[i] = Nobody
Sent(s, e, ls) ==
    /\ e.mail = [id \in MailIds |-> IF id \in Ids(ls) THEN Row(LetterOf(ls, id))
                                   ELSE s.mail[id]]
    /\ e.attach = [i \in Items |-> IF i \in Enclosed(ls) THEN NewAttached(ls)[i]
                                   ELSE s.attach[i]]

(* Sums: Total is the fold of + over a set.                                 *)
SumOn(f, S, it) ==
  it = [s \in SUBSET S |->
          IF s = {} THEN 0 ELSE LET x == CHOOSE x \in s : TRUE IN f[x] + it[s \ {x}]]
(* The rows after each element of a queue.                                  *)
Chain(d, q, rows) ==
  rows = [n \in 0..Len(q) |-> IF n = 0 THEN d ELSE Execute(rows[n - 1], q[n])]
Below(S, m) == {x \in S : x < m}
(* Wealth, part by part.                                                    *)
PurseSum(d) == Total([p \in Players |-> d.money[p] - d.net[p]], Players)
MailSum(d) == Total([id \in MailIds |-> d.mail[id].money], MailIds)
Worth(lot) == IF lot = NoLot THEN 0 ELSE lot.bid + Deposit
LotSum(d) == Total([a \in Lots |-> Worth(d.lot[a])], Lots)
(* Up to three new mails.                                                   *)
Three(w, n) == IF n = 0 THEN 0 ELSE IF n = 1 THEN w[1]
               ELSE IF n = 2 THEN w[1] + w[2] ELSE (w[1] + w[2]) + w[3]
Filled(f, g, S, n, nid, w) ==
    /\ IsFiniteSet(S) /\ n \in 0..3
    /\ \A k \in 1..n : nid[k] \in S
    /\ \A j, k \in 1..n : nid[j] = nid[k] => j = k
    /\ \A x \in S : f[x] \in Int /\ g[x] \in Int
    /\ \A k \in 1..n : f[nid[k]] = 0
    /\ \A k \in 1..n : g[nid[k]] = w[k]
    /\ \A x \in S : (\A k \in 1..n : nid[k] # x) => g[x] = f[x]
(* One character's purse and bag are saved.                                 *)
Saves(e, p, v) ==
    /\ e.money = [q \in Players |-> IF q = p THEN v ELSE Settled.money[q]]
    /\ e.net = [q \in Players |-> IF q = p THEN net[p] ELSE Settled.net[q]]
    /\ e.row = [i \in Items |-> e.row[i]]
    /\ \A i \in Items : \/ e.row[i] = Settled.row[i]
                        \/ {e.row[i], Settled.row[i]} \subseteq {p, Nobody}
    /\ Cardinality(Bag(e, p)) <= Space[p]
(* Trades.                                                                  *)
StandsBy(tr, p) ==
    tr[p].accepted =>
        /\ tr[p].agreed.slots = tr[tr[p].with].offer.slots
        /\ ~tr[p].refused => tr[p].agreed.gold = tr[tr[p].with].offer.gold
Stopped(r) == [r EXCEPT !.accepted = FALSE, !.refused = FALSE]
Offering(r, o) == [r EXCEPT !.offer = o]
IsMap(u) == u = [x \in Players |-> u[x]]
Accepting(r, o) == [r EXCEPT !.accepted = TRUE, !.agreed = o, !.refused = FALSE]
(* Handlers that save one purse and bag, send letters and write auctions.   *)
Cash(ls) == Three([k \in 1..Len(ls) |-> ls[k].money], Len(ls))
At(p, m) == [x \in {p} |-> m[x]]
(* The rows e after such a transaction on the rows s.                       *)
OneRow(s, e, p, v, n, R, ls, L, fe) ==
    /\ e = [money |-> e.money, net |-> e.net, row |-> e.row, mail |-> e.mail,
            attach |-> e.attach, kept |-> e.kept, lot |-> e.lot, fees |-> e.fees]
    /\ e.money = [q \in Players |-> IF q = p THEN v ELSE s.money[q]]
    /\ e.net = [q \in Players |-> IF q = p THEN n ELSE s.net[q]]
    /\ e.row = [i \in Items |-> IF i \in R THEN Nobody ELSE s.row[i]]
    /\ Sent(s, e, ls)
    /\ e.kept = s.kept
    /\ e.lot = [a \in Lots |-> IF a \in DOMAIN L THEN L[a] ELSE s.lot[a]]
    /\ e.fees = s.fees + fe
OneTrans(p, m, n, R, ls, L, fe) ==
    Saving(Mailed(Trans(None, None, [i \in R |-> Nobody], None, None, {}, None, {},
                        L, fe), ls), {p}, m, n, NothingQueued)
(* Such a transaction keeps the invariant when it keeps the sum and leaves  *)
(* each item one place.                                                     *)
OneMemory(p, v, R, ls) ==
    /\ disk' = disk /\ online' = online /\ net' = net /\ gone' = gone /\ trade' = trade
    /\ money' = [money EXCEPT ![p] = v]
    /\ items' = [items EXCEPT ![p] = items[p] \ R]
    /\ box' = Delivered(box, ls)
    /\ RoomFor(1) /\ RoomForMails(Len(ls))
LotsTyped(L) ==
    /\ DOMAIN L \subseteq Lots
    /\ \A a \in DOMAIN L : /\ L[a] \in Auctioned \/ L[a] = NoLot
                           /\ L[a].bidder = Nobody => L[a].bid = 0
FourMove(a, b, c, f, a2, b2, c2, f2, v, m, w, fe) ==
    /\ a \in Int /\ b \in Int /\ c \in Int /\ f \in Int /\ c2 \in Int
    /\ v \in Int /\ m \in Int /\ w \in Int /\ fe \in Int
    /\ a2 = a + (v - m) /\ b2 = b + w /\ f2 = f + fe
    /\ (v - m) + w + (c2 - c) + fe = 0
(* Writing one auction.                                                     *)
OneLot(s, e, a, lot) ==
    e.lot[a] = lot /\ \A b \in Lots \ {a} : e.lot[b] = s.lot[b]
(* A listed auction changes hands, or ends with its item in a letter.       *)
LotPosted(p, v, a, lot, ls, fe) ==
    /\ disk' = disk /\ online' = online /\ net' = net /\ items' = items
    /\ gone' = gone /\ trade' = trade /\ due' = due
    /\ money' = [money EXCEPT ![p] = v]
    /\ queue' = Append(queue,
           Saving(Mailed([Blank EXCEPT !.lot = [x \in {a} |-> lot], !.fees = fe], ls),
                  {p}, money', net, NothingQueued))
    /\ box' = Delivered(box, ls)
    /\ auctions' = [auctions EXCEPT ![a] = lot]
    /\ aitems' = aitems \ Enclosed(ls)
    /\ RoomFor(1) /\ RoomForMails(Len(ls))
Bought(old, lot, ls) ==
    \/ lot \in Auctioned /\ lot.item = old.item /\ Enclosed(ls) = {}
       /\ lot.bidder # Nobody
    \/ lot = NoLot /\ Enclosed(ls) = {old.item}
Bid(r, p, n) == [r EXCEPT !.bidder = p, !.bid = n]
(* Letters on rows s and mailboxes bx that are not those of the state.      *)
MailsSame(s, e) == \A p \in Players : SameMails(s, e, p)
PursesSame(s, e) == \A p \in Players : SamePurse(s, e, p)
StillLoaded(bx, ls) == \A p \in Players : Delivered(bx, ls)[p].loaded = bx[p].loaded
(* The world ends an auction.                                               *)
EndTrans(a, ls, fe) ==
    Mailed([Blank EXCEPT !.lot = [x \in {a} |-> NoLot], !.fees = fe], ls)
Settling(s, a, old, ls, fe) ==
    /\ Sound(s) /\ s.lot[a] = old /\ old \in Auctioned /\ LotsOf(s, old.item) = {a}
    /\ Sendable(ls) /\ Fresh(s, box, ls)
    /\ fe \in Int /\ Cash(ls) - (old.bid + Deposit) + fe = 0
    /\ \/ /\ Enclosed(ls) = {old.item} /\ old.item \in s.kept
          /\ s.row[old.item] = Nobody
       \/ Enclosed(ls) = {} /\ old.item \notin s.kept
(* What the save of a mailbox does to the rows of mail before letters are   *)
(* sent: the mails D are deleted, the mail c becomes r, the items I leave   *)
(* it, and the items X of deleted mails cease to exist.                     *)
Cleared(s, D, c, r, I, X) ==
    [mail |-> [id \in MailIds |-> IF id \in D THEN NoMail
                                  ELSE IF id = c THEN r ELSE s.mail[id]],
     attach |-> [i \in Items |-> IF i \in I \/ s.attach[i] \in D THEN Nobody
                                 ELSE s.attach[i]],
     kept |-> s.kept \ X]
Repaid(m, r, p) == /\ m.to = p /\ r \in Mails /\ r.to = p
                   /\ r.player => r.from \in Players
                   /\ r.cod > 0 => r.player
Clears(s, p, D, c, r, I, X) ==
    /\ D \subseteq MailIds /\ \A x \in D : s.mail[x].to = p
    /\ c \in MailIds \ D \/ c = Nobody
    /\ c # Nobody => Repaid(s.mail[c], r, p)
    /\ I \subseteq Items /\ \A i \in I : c # Nobody /\ s.attach[i] = c
    /\ X \subseteq Items /\ \A i \in X : s.attach[i] \in D
MoneyIn(s, D) == Total([id \in D |-> s.mail[id].money], D)
LeftShown(s1, b, D, M, gn) ==
    /\ M = [x \in DOMAIN b.mails \ D |-> M[x]]
    /\ \A x \in DOMAIN b.mails \ D : /\ M[x].state \in {"same", "deleted"}
                                     /\ M[x] = Shown(s1, x, M[x].state)
                                     /\ M[x].state = "deleted" => M[x].items \subseteq gn
(* The rows e after such a save of p and its letters.                       *)
OneClear(s, e, p, I, s1, ls, fe) ==
    /\ e = [money |-> e.money, net |-> e.net, row |-> e.row, mail |-> e.mail,
            attach |-> e.attach, kept |-> e.kept, lot |-> e.lot, fees |-> e.fees]
    /\ e.row = [i \in Items |-> IF i \in I THEN p ELSE s.row[i]]
    /\ Sent(s1, e, ls)
    /\ e.kept = s1.kept
    /\ e.lot = [a \in Lots |-> s.lot[a]]
    /\ e.fees = s.fees + fe
Accounts(s, D, X, ls) ==
    /\ \A i \in Enclosed(ls) : s.attach[i] \in D /\ i \notin X
    /\ \A i \in Items : s.attach[i] \in D => i \in Enclosed(ls) \cup X
(* The purse and the bag of p, saved or not touched.                        *)
Pursed(e, p, v, I) ==
    /\ e.money \in [Players -> 0..Cap] /\ e.net \in [Players -> Int]
    /\ e.row \in [Items -> Players \cup {Nobody}] /\ BagsFit(e)
    /\ PursesAgree(e, online, [money EXCEPT ![p] = v], net,
                   [items EXCEPT ![p] = items[p] \cup I])
    /\ MemoryTyped(online, [money EXCEPT ![p] = v], net,
                   [items EXCEPT ![p] = items[p] \cup I])
    /\ \A q \in Players \ online : SamePurse(Settled, e, q)
    /\ PurseSum(e) = PurseSum(Settled) + (v - money[p])
(* A handler that saves a mailbox, ...                                      *)
ClearMemory(p, v, I, b1, ls) ==
    /\ disk' = disk /\ online' = online /\ net' = net /\ gone' = gone /\ trade' = trade
    /\ auctions' = auctions /\ aitems' = aitems /\ due' = due
    /\ money' = [money EXCEPT ![p] = v]
    /\ items' = [items EXCEPT ![p] = items[p] \cup I]
    /\ box' = Delivered([box EXCEPT ![p] = b1], ls)
    /\ RoomFor(1) /\ RoomForMails(Len(ls))
(* ... by a transaction with these writes.                                  *)
ClearWrites(s, p, D, c, r, I, X, ls, pa, at) ==
    /\ \/ c = Nobody /\ DOMAIN pa = {}
       \/ /\ DOMAIN pa = {c} /\ s.mail[c] # NoMail
          /\ r = [s.mail[c] EXCEPT !.money = pa[c].money, !.cod = pa[c].cod]
    /\ DOMAIN at = Enclosed(ls) \cup I
    /\ \A i \in Enclosed(ls) : at[i] = NewAttached(ls)[i]
    /\ \A i \in I : at[i] = Nobody
(* The save of a mailbox: what _SaveMail writes.                            *)
PaidRows(p, b) == [id \in InState(p, b, "changed") |->
                      [money |-> b[p].mails[id].money, cod |-> b[p].mails[id].cod]]
Erased(p, b) == [i \in UNION {b[p].mails[id].removed : id \in InState(p, b, "changed")}
                    |-> Nobody]
LostIn(p, b) == UNION {b[p].mails[id].items : id \in InState(p, b, "deleted")}
ThrownAway(p, b) == Total([id \in InState(p, b, "deleted") |-> b[p].mails[id].money],
                          InState(p, b, "deleted"))
BoxTrans(p, b, ls, f, m, n, queued) ==
    Saving(SavingMail(Mailed([Blank EXCEPT !.fees = f], ls), p, b), {p}, m, n, queued)
(* ... when the mailbox b is that of the state but for the mail c, which    *)
(* has become the row r and has lost the items I.                           *)
Touched(b, p, c, r, I) ==
    /\ DOMAIN b[p].mails = DOMAIN box[p].mails
    /\ \A x \in DOMAIN box[p].mails : x # c => b[p].mails[x] = box[p].mails[x]
    /\ \/ c = Nobody /\ I = {}
       \/ /\ c \in DOMAIN box[p].mails /\ box[p].mails[c].state = "same"
          /\ b[p].mails[c] = [from |-> r.from, player |-> r.player, money |-> r.money,
                              cod |-> r.cod, items |-> Attached(Settled, c) \ I,
                              removed |-> I, state |-> "changed"]
BoxWrites(b, p, c, r, I, D) ==
    /\ LostIn(p, b) = {i \in Items : Settled.attach[i] \in D}
    /\ LostIn(p, b) \subseteq gone
    /\ ThrownAway(p, b) = MoneyIn(Settled, D)
    /\ DOMAIN Erased(p, b) = I /\ \A i \in I : Erased(p, b)[i] = Nobody
    /\ c = Nobody => DOMAIN PaidRows(p, b) = {}
    /\ c # Nobody => /\ DOMAIN PaidRows(p, b) = {c}
                     /\ PaidRows(p, b)[c].money = r.money
                     /\ PaidRows(p, b)[c].cod = r.cod
(* What the mail c may become.                                              *)
Recast(s, p, c, r, I) ==
    /\ c \in MailIds /\ s.mail[c] # NoMail /\ s.mail[c].to = p
    /\ r = [s.mail[c] EXCEPT !.money = r.money, !.cod = r.cod]
    /\ r.money \in Int /\ r.cod \in Nat
    /\ r.cod > 0 => r.player
    /\ I \subseteq Attached(s, c)
(* What such a save leaves in the rows, with letters that enclose no items. *)
BoxSaved(p, b, c, r, I, D, X, ls, f, v, m, queued, t) ==
    /\ Touched(b, p, c, r, I)
    /\ c # Nobody => Recast(Settled, p, c, r, I)
    /\ D = InState(p, b, "deleted") /\ X = LostIn(p, b)
    /\ Sendable(ls) /\ Enclosed(ls) = {} /\ f \in Int
    /\ m[p] = v /\ queued[p] = I
    /\ Cardinality(items[p] \cup I) <= Space[p]
    /\ t = BoxTrans(p, b, ls, f, m, net, queued)
Gain(c, r) == IF c = Nobody THEN 0 ELSE r.money - Settled.mail[c].money
(* ... and in the mailbox.                                                  *)
SavedMails(p, b) ==
    [id \in DOMAIN b[p].mails \ InState(p, b, "deleted") |->
        [b[p].mails[id] EXCEPT !.state = "same", !.removed = {}]]
Settle(m) == [m EXCEPT !.state = "same", !.removed = {}]
WithMails(p, mm) == [box EXCEPT ![p].mails = mm]
(* Such a save keeps the invariant when what the purse gains is what mail   *)
(* and letters lose.                                                        *)
BoxMemory(p, b, v, I, ls) ==
    /\ disk' = disk /\ online' = online /\ net' = net /\ gone' = gone /\ trade' = trade
    /\ auctions' = auctions /\ aitems' = aitems /\ due' = due
    /\ money' = [money EXCEPT ![p] = v]
    /\ items' = [items EXCEPT ![p] = items[p] \cup I]
    /\ box' = Delivered(SavedBox(b, p), ls)
    /\ RoomFor(1) /\ RoomForMails(Len(ls))
(* One mail of the mailbox is changed.                                      *)
Altered(r, J, I) == [from |-> r.from, player |-> r.player, money |-> r.money, cod |-> r.cod,
                     items |-> J, removed |-> I, state |-> "changed"]
ItemTaken(m, i) == [m EXCEPT !.items = m.items \ {i}, !.removed = m.removed \cup {i},
                             !.cod = 0, !.state = "changed"]
MoneyTaken(m) == [m EXCEPT !.money = 0, !.state = "changed"]
Repriced(m, a, c) == [m EXCEPT !.money = a, !.cod = c]
(* The exchange of a trade.  Items that are laid are carried, once.         *)
Sides(p, q) ==
    /\ p \in online /\ q \in online /\ p # q
    /\ trade[p] \in Trades /\ trade[q] \in Trades
    /\ CanStoreAll(p, q) /\ CanStoreAll(q, p)
(* What p carries after k slots.                                            *)
Gets(p, q, k) == (items[p] \ AllLaid(p)) \cup UNION {Laid(q, s) : s \in 1..k}
Halfway(p, q, k) ==
    [x \in Players |-> IF x = p THEN Gets(p, q, k)
                       ELSE IF x = q THEN Gets(q, p, k) ELSE items[x]]
LaidAside(p, q) == [items EXCEPT ![p] = @ \ AllLaid(p), ![q] = @ \ AllLaid(q)]
Moving(p, q, m) ==
    m = [s \in 0..SlotCount |-> IF s = 0 THEN LaidAside(p, q)
                                ELSE MoveSlot(m[s - 1], p, q, s)]
(* In the end everything laid has changed hands.                            *)
Swap(p, q) ==
    [x \in Players |-> IF x = p THEN (items[p] \ AllLaid(p)) \cup AllLaid(q)
                       ELSE IF x = q THEN (items[q] \ AllLaid(q)) \cup AllLaid(p)
                       ELSE items[x]]
(* What the transaction of an exchange writes.                              *)
BothQueued(p, q) == [NothingQueued EXCEPT ![p] = AllLaid(q), ![q] = AllLaid(p)]
Switched(p, q, ro) ==
    /\ DOMAIN ro = AllLaid(p) \cup AllLaid(q)
    /\ \A i \in AllLaid(p) : ro[i] = q
    /\ \A i \in AllLaid(q) : ro[i] = p
    /\ AllLaid(p) \cap AllLaid(q) = {} /\ AllLaid(p) \cup AllLaid(q) \subseteq Items
Swapped(s, e, p, q, v, w) ==
    /\ e = [money |-> e.money, net |-> e.net, row |-> e.row, mail |-> e.mail,
            attach |-> e.attach, kept |-> e.kept, lot |-> e.lot, fees |-> e.fees]
    /\ e.money = [x \in Players |-> IF x = p THEN v ELSE IF x = q THEN w ELSE s.money[x]]
    /\ e.net = [x \in Players |-> IF x \in {p, q} THEN net[x] ELSE s.net[x]]
    /\ e.row = [i \in Items |-> IF i \in AllLaid(p) THEN q
                                ELSE IF i \in AllLaid(q) THEN p ELSE s.row[i]]
    /\ Sent(s, e, << >>)
    /\ e.kept = s.kept
    /\ e.lot = [a \in Lots |-> s.lot[a]]
    /\ e.fees = s.fees
(* A trade that ends with money or items moved, and its two ends in the     *)
(* world, was executed by one of them.                                      *)
Ends(p, q) ==
    /\ p # q /\ Trading(p) /\ Partner(p) = q /\ trade[p].accepted
    /\ trade'[p] = NoTrade
    /\ <<money, items>>' # <<money, items>>
    /\ {p, q} \subseteq online'
Receives(p, q) ==
    /\ items'[p] \ items[p] = {trade[p].agreed.slots[s] : s \in TradeSlots} \cap items[q]
    /\ ~trade[p].refused =>
         money'[p] = money[p] - trade[p].offer.gold + trade[p].agreed.gold
=============================================================================
