------------------------------ MODULE Auction ------------------------------
(***************************************************************************)
(* The auction house: the list of auctions in memory, their items, and the *)
(* sweep of the world thread, which reads the expired ones from the rows   *)
(* at once while players still sell, bid and cancel.                       *)
(* Sources: Handlers/AuctionHouseHandler.cpp,                              *)
(* AuctionHouse/AuctionHouseMgr.{h,cpp}.                                   *)
(***************************************************************************)
EXTENDS Mail

CONSTANTS
    Deposit, Cut,   \* GetAuctionDeposit and GetAuctionCut, as fixed amounts
    Buyout,         \* the buyout price of every auction
    LogTrade        \* GM.LogTrade

ASSUME AuctionConstants ==
    /\ {Deposit, Cut, Buyout} \subseteq Nat
    /\ LogTrade \in BOOLEAN

VARIABLES
    auctions,       \* AuctionsMap
    aitems,         \* the keys of mAitems
    due             \* what the sweep still has in its result set

house == <<auctions, aitems, due>>

(* GenerateAuctionID: an id that nothing refers to.                        *)
FreeLots == {a \in Lots :
                /\ auctions[a] = NoLot /\ disk.lot[a] = NoLot /\ a \notin due
                /\ \A k \in DOMAIN queue : a \notin DOMAIN queue[k].lot}

Listed(a) == auctions[a] # NoLot

(* The mails of AuctionHouseMgr; a receiver exists, so it gets them.  What *)
(* carries an item is not sent when mAitems does not know it.              *)
FromHouse(to, gold, its) == << Letter(to, Nobody, FALSE, gold, 0, its) >>
OutbidMail(lot) ==
    IF lot.bidder = Nobody THEN << >> ELSE FromHouse(lot.bidder, lot.bid, {})
SuccessfulMail(lot) == FromHouse(lot.owner, lot.bid + Deposit - Cut, {})
Known(lot) == lot.item \in aitems
ExpiredMail(lot) ==
    IF Known(lot) THEN FromHouse(lot.owner, 0, {lot.item}) ELSE << >>

(* SendAuctionWonMail: the account of a bidder who is not in the world is  *)
(* looked up only when trades of game masters are logged; without it the   *)
(* item is deleted, in a transaction of its own.                           *)
WonIsSent(lot) == lot.bidder \in online \/ LogTrade
WonMail(lot) ==
    IF Known(lot) /\ WonIsSent(lot)
    THEN FromHouse(lot.bidder, 0, {lot.item}) ELSE << >>
Destroying(lot) == [Blank EXCEPT !.lost = {lot.item}]

-----------------------------------------------------------------------------
(* HandleAuctionSellItem of one whole stack.                               *)
SellItem(p, i) ==
    /\ p \in online
    /\ i \in items[p] \ aitems
    /\ money[p] >= Deposit
    /\ RoomFor(1)
    /\ FreeLots # {}
    /\ \E a \in {CHOOSE x \in FreeLots : TRUE},
          lot \in {[NoLot EXCEPT !.item = i, !.owner = p]} :
          /\ auctions' = [auctions EXCEPT ![a] = lot]
          /\ aitems' = aitems \cup {i}
          /\ money' = [money EXCEPT ![p] = Modified(@, -Deposit)]
          /\ items' = [items EXCEPT ![p] = @ \ {i}]
          /\ Post(Saving([Blank EXCEPT !.row = [x \in {i} |-> Nobody],
                                       !.lot = [x \in {a} |-> lot]],
                         {p}, money', net, NothingQueued))
    /\ UNCHANGED <<online, net, disk, mailbox, due>>

(* A sale that fails once the deposit is taken: the data of the auctioneer *)
(* is missing.  The world has the deposit; nothing is saved.               *)
SellFails(p, i) ==
    /\ p \in online
    /\ i \in items[p] \ aitems
    /\ money[p] >= Deposit
    /\ money' = [money EXCEPT ![p] = Modified(@, -Deposit)]
    /\ net' = [net EXCEPT ![p] = @ - Deposit]
    /\ UNCHANGED <<online, items, disk, queue, mailbox, house>>

(* HandleAuctionPlaceBid: what the bidder has to pay on top of an own bid. *)
MayBid(p, a, amount) ==
    /\ p \in online
    /\ Listed(a)
    /\ auctions[a].owner # p
    /\ amount > auctions[a].bid
    /\ money[p] >= amount

Price(p, a, amount) ==
    IF auctions[a].bidder = p THEN amount - auctions[a].bid ELSE amount
(* Mutant: whoever raises an own bid gets the old one back by mail.        *)
DisplacedSelf(p, a) == OutbidMail(auctions[a])
Displaced(p, a) ==
    IF auctions[a].bidder = p THEN << >> ELSE OutbidMail(auctions[a])

PlaceBid(p, a, amount) ==
    /\ MayBid(p, a, amount)
    /\ amount < Buyout
    /\ RoomFor(1) /\ RoomForMails(Len(Displaced(p, a)))
    /\ \E lot \in {[auctions[a] EXCEPT !.bidder = p, !.bid = amount]} :
          /\ auctions' = [auctions EXCEPT ![a] = lot]
          /\ money' = [money EXCEPT ![p] = Modified(@, -Price(p, a, amount))]
          /\ Post(Saving(Mailed([Blank EXCEPT !.lot = [x \in {a} |-> lot]],
                                Displaced(p, a)),
                         {p}, money', net, NothingQueued))
          /\ box' = Delivered(box, Displaced(p, a))
    /\ UNCHANGED <<online, net, items, disk, gone, aitems, due>>

BuyNow(p, a) ==
    /\ MayBid(p, a, Buyout)
    /\ \E lot \in {[auctions[a] EXCEPT !.bidder = p, !.bid = Buyout]} :
       \E ls \in {Displaced(p, a) \o SuccessfulMail(lot) \o WonMail(lot)} :
          /\ RoomFor(1) /\ RoomForMails(Len(ls))
          /\ money' = [money EXCEPT ![p] = Modified(@, -Price(p, a, Buyout))]
          /\ Post(Saving(Mailed([Blank EXCEPT !.lot = [x \in {a} |-> NoLot],
                                              !.fees = Cut], ls),
                         {p}, money', net, NothingQueued))
          /\ box' = Delivered(box, ls)
          /\ aitems' = aitems \ {lot.item}
          /\ auctions' = [auctions EXCEPT ![a] = NoLot]
    /\ UNCHANGED <<online, net, items, disk, gone, due>>

(* HandleAuctionRemoveItem: the owner cancels and pays the cut to a bidder *)
(* who gets the bid back.                                                  *)
CancelAuction(p, a) ==
    /\ p \in online
    /\ Listed(a)
    /\ auctions[a].owner = p
    /\ auctions[a].item \in aitems
    /\ \E lot \in {auctions[a]} :
       \E penalty \in {IF lot.bidder = Nobody THEN 0 ELSE Cut},
          ls \in {OutbidMail(lot) \o ExpiredMail(lot)} :
          /\ money[p] >= penalty
          /\ RoomFor(1) /\ RoomForMails(Len(ls))
          /\ money' = [money EXCEPT ![p] = Modified(@, -penalty)]
          /\ Post(Saving(Mailed([Blank EXCEPT !.lot = [x \in {a} |-> NoLot],
                                              !.fees = penalty + Deposit], ls),
                         {p}, money', net, NothingQueued))
          /\ box' = Delivered(box, ls)
          /\ aitems' = aitems \ {lot.item}
          /\ auctions' = [auctions EXCEPT ![a] = NoLot]
    /\ UNCHANGED <<online, net, items, disk, gone, due>>

-----------------------------------------------------------------------------
(* AuctionHouseObject::Update: the query reads the rows, ...               *)
SweepBegin(S) ==
    /\ due = {}
    /\ S # {}
    /\ S \subseteq {a \in Lots : disk.lot[a] # NoLot}
    /\ due' = S
    /\ UNCHANGED <<holdings, mailbox, auctions, aitems>>

(* ... an auction that is gone from memory is skipped, ...                 *)
SweepSkip(a) ==
    /\ a \in due
    /\ ~Listed(a)
    /\ due' = due \ {a}
    /\ UNCHANGED <<holdings, mailbox, auctions, aitems>>

(* ... and the others end.  RemoveAItem takes the item's guid out of the   *)
(* auction RemoveAuction has just deleted: it may be another number by     *)
(* then, and the entry stays.                                              *)
Ending(a) ==
    LET lot == auctions[a] IN
    IF lot.bidder = Nobody THEN ExpiredMail(lot)
    ELSE SuccessfulMail(lot) \o WonMail(lot)

Destroyed(lot) == lot.bidder # Nobody /\ Known(lot) /\ ~WonIsSent(lot)

SweepEnd(a) ==
    /\ a \in due
    /\ Listed(a)
    /\ \E lot \in {auctions[a]}, ls \in {Ending(a)} :
       \E t \in {Mailed([Blank EXCEPT !.lot = [x \in {a} |-> NoLot],
                           !.fees = IF lot.bidder = Nobody THEN Deposit
                                    ELSE Cut], ls)} :
          /\ RoomFor(2) /\ RoomForMails(Len(ls))
          /\ queue' = queue \o (IF Destroyed(lot)
                                THEN << Destroying(lot), t >> ELSE << t >>)
          /\ box' = Delivered(box, ls)
          /\ \/ aitems' = aitems \ {lot.item}
             \/ ~Destroyed(lot) /\ aitems' = aitems
          /\ gone' = gone \cup (IF Destroyed(lot) /\ lot.bidder \notin online
                                 THEN {lot.item} ELSE {})
    /\ auctions' = [auctions EXCEPT ![a] = NoLot]
    /\ due' = due \ {a}
    /\ UNCHANGED <<online, money, net, items, disk>>

AuctionStep(p, Gold) ==
    \/ \E i \in items[p] : SellItem(p, i) \/ SellFails(p, i)
    \/ \E a \in Lots, amount \in Gold \ {0} : PlaceBid(p, a, amount)
    \/ \E a \in Lots : BuyNow(p, a) \/ CancelAuction(p, a)

(* LoadAuctionItems and LoadAuctions at start: the query joins the rows of *)
(* the items, so a row whose item is gone is neither loaded nor deleted.   *)
LoadedAuctions(d) ==
    [a \in Lots |-> IF d.lot[a].item \in d.kept THEN d.lot[a] ELSE NoLot]
LoadedItems(d) == {d.lot[a].item : a \in Lots} \cap d.kept

-----------------------------------------------------------------------------
(* The list in memory and the rows tell the same of every auction, and     *)
(* each has its item in mAitems.                                           *)
AuctionsAgree ==
    /\ auctions = LoadedAuctions(Settled)
    /\ \A a \in Lots : Listed(a) => auctions[a].item \in aitems
=============================================================================
