------------------------------- MODULE Trade -------------------------------
(***************************************************************************)
(* The trade of two players: both lay items and money into a window, both  *)
(* accept, and the second accept executes the exchange in one step.        *)
(* Sources: Handlers/TradeHandler.cpp, Entities/Player/TradeData.cpp,      *)
(* Player::TradeCancel.                                                    *)
(***************************************************************************)
EXTENDS Holdings

CONSTANT SlotCount      \* TRADE_SLOT_TRADED_COUNT

ASSUME TradeConstants == SlotCount \in Nat

TradeSlots == 1..SlotCount

VARIABLE trade          \* m_trade of each player

NoOffer == [gold |-> 0, slots |-> [s \in TradeSlots |-> Nobody]]
NoTrade == [with |-> Nobody, offer |-> NoOffer, accepted |-> FALSE,
            agreed |-> NoOffer, refused |-> FALSE]

(* with: _trader; offer: _money and _items; accepted: _accepted; agreed is *)
(* history: the partner's offer at the accept; refused is history: the     *)
(* partner named an amount it had not got since this player's accept.      *)
NewTrade(q) == [NoTrade EXCEPT !.with = q]

Trading(p) == trade[p] # NoTrade
Partner(p) == trade[p].with

(* TradeData::GetItem: by guid, in the inventory of its owner.             *)
Laid(p, s) == IF trade[p].offer.slots[s] \in items[p]
              THEN {trade[p].offer.slots[s]} ELSE {}
AllLaid(p) == UNION {Laid(p, s) : s \in TradeSlots}

Unaccepted(t, S) ==
    [p \in Players |-> IF p \in S THEN [t[p] EXCEPT !.accepted = FALSE,
                                                    !.refused = FALSE]
                       ELSE t[p]]
Ended(t, S) == [p \in Players |-> IF p \in S THEN NoTrade ELSE t[p]]

-----------------------------------------------------------------------------
(* HandleInitiateTrade, once alive, near, of one side and not ignored.     *)
InitiateTrade(p, q) ==
    /\ p # q
    /\ {p, q} \subseteq online
    /\ ~Trading(p) /\ ~Trading(q)
    /\ trade' = [trade EXCEPT ![p] = NewTrade(q), ![q] = NewTrade(p)]
    /\ UNCHANGED holdings

(* HandleSetTradeGold, TradeData::SetMoney: the amount is stored before it *)
(* is tested; an amount the player has not got leaves the accepts alone.   *)
SetTradeGold(p, m) ==
    /\ Trading(p)
    /\ trade[p].offer.gold # m
    /\ LET t == [trade EXCEPT ![p].offer.gold = m] IN
       trade' = IF money[p] >= m THEN Unaccepted(t, {p, Partner(p)})
                ELSE [t EXCEPT ![Partner(p)].refused = TRUE]
    /\ UNCHANGED holdings

(* Mutant: an item is laid without taking the accepts back.                *)
SetTradeItemQuiet(p, s, i) ==
    /\ Trading(p)
    /\ i \in items[p]
    /\ \A other \in TradeSlots : trade[p].offer.slots[other] # i
    /\ trade' = [trade EXCEPT ![p].offer.slots[s] = i]
    /\ UNCHANGED holdings

(* HandleSetTradeItem and HandleClearTradeItem, TradeData::SetItem.        *)
SetTradeItem(p, s, i) ==
    /\ Trading(p)
    /\ i \in items[p]
    /\ \A other \in TradeSlots : trade[p].offer.slots[other] # i
    /\ trade' = Unaccepted([trade EXCEPT ![p].offer.slots[s] = i],
                           {p, Partner(p)})
    /\ UNCHANGED holdings

ClearTradeItem(p, s) ==
    /\ Trading(p)
    /\ trade[p].offer.slots[s] # Nobody
    /\ trade' = Unaccepted([trade EXCEPT ![p].offer.slots[s] = Nobody],
                           {p, Partner(p)})
    /\ UNCHANGED holdings

(* HandleUnacceptTrade.                                                    *)
UnacceptTrade(p) ==
    /\ Trading(p)
    /\ trade[p].accepted
    /\ trade' = Unaccepted(trade, {p})
    /\ UNCHANGED holdings

(* Mutant: only one side of the trade is ended.                            *)
CancelTradeAlone(p) ==
    /\ Trading(p)
    /\ trade' = Ended(trade, {p})
    /\ UNCHANGED holdings

(* Player::TradeCancel, from HandleCancelTrade, a flight or a bag swap.    *)
CancelTrade(p) ==
    /\ Trading(p)
    /\ trade' = Ended(trade, {p, Partner(p)})
    /\ UNCHANGED holdings

-----------------------------------------------------------------------------
(* HandleAcceptTrade.  The accept is noted before the checks.              *)
Accepted(p) == [trade EXCEPT ![p].accepted = TRUE,
                             ![p].agreed = trade[Partner(p)].offer,
                             ![p].refused = FALSE]

Affords(p) == money[p] >= trade[p].offer.gold
Holds(p, q) == money[p] < Cap - trade[q].offer.gold

(* Whom the checks of distance and money make unaccept, in their order.    *)
Refused(p, near) ==
    LET q == Partner(p) IN
    IF ~near \/ ~Affords(p) THEN {p}
    ELSE IF ~Affords(q) THEN {q}
    ELSE IF ~Holds(p, q) THEN {p}
    ELSE IF ~Holds(q, p) THEN {q} ELSE {}

AcceptRefused(p, near) ==
    /\ Trading(p)
    /\ Refused(p, near) # {}
    /\ trade' = Unaccepted(Accepted(p), Refused(p, near))
    /\ UNCHANGED holdings

(* The partner has not accepted, or an item can no longer be traded: the   *)
(* accept stands.                                                          *)
AcceptStands(p, tradable) ==
    /\ Trading(p)
    /\ Refused(p, TRUE) = {}
    /\ ~tradable \/ ~trade[Partner(p)].accepted
    /\ trade' = Accepted(p)
    /\ UNCHANGED holdings

(* Player::CanStoreItems, with what is about to leave taken as gone.       *)
CanStoreAll(p, q) ==
    Cardinality((items[p] \ AllLaid(p)) \cup AllLaid(q)) <= Space[p]

AcceptNoRoom(p) ==
    /\ Trading(p)
    /\ Refused(p, TRUE) = {}
    /\ trade[Partner(p)].accepted
    /\ ~(CanStoreAll(p, Partner(p)) /\ CanStoreAll(Partner(p), p))
    /\ trade' = Unaccepted(Accepted(p), {p, Partner(p)})
    /\ UNCHANGED holdings

(* moveItems, slot by slot: both sides or neither.  What cannot be stored  *)
(* goes back to its owner, or nowhere.                                     *)
MoveSlot(inv, p, q, s) ==
    LET mine == Laid(p, s)
        his  == Laid(q, s)
        Fits(who, x) == x = {} \/ CanStore(who, inv)
        Back(who, x) == IF CanStore(who, inv) THEN inv[who] \cup x ELSE inv[who]
    IN IF Fits(q, mine) /\ Fits(p, his)
       THEN [inv EXCEPT ![q] = @ \cup mine, ![p] = @ \cup his]
       ELSE [inv EXCEPT ![p] = Back(p, mine), ![q] = Back(q, his)]

Exchanged(p, q) ==
    LET taken == [items EXCEPT ![p] = @ \ AllLaid(p), ![q] = @ \ AllLaid(q)]
        moved[s \in 0..SlotCount] ==
            IF s = 0 THEN taken ELSE MoveSlot(moved[s - 1], p, q, s)
    IN moved[SlotCount]

Purse(p, q) == Modified(Modified(money[p], -trade[p].offer.gold),
                        trade[q].offer.gold)

(* Mutant: the one who accepts last is saved, the partner only later.      *)
TradeSaveOne(p, q, inv, m) ==
    Saving(Blank, {p}, m, net,
           [NothingQueued EXCEPT ![p] = inv[p] \cap AllLaid(q)])
TradeSave(p, q, inv, m) ==
    Saving(Blank, {p, q}, m, net,
           [NothingQueued EXCEPT ![p] = inv[p] \cap AllLaid(q),
                                 ![q] = inv[q] \cap AllLaid(p)])

(* Both have accepted: items move, money moves, the trade ends, and one    *)
(* transaction saves both.                                                 *)
ExecuteTrade(p) ==
    /\ Trading(p)
    /\ Refused(p, TRUE) = {}
    /\ RoomFor(1)
    /\ \E q \in {Partner(p)} :
          /\ trade[q].accepted
          /\ CanStoreAll(p, q) /\ CanStoreAll(q, p)
          /\ items' = Exchanged(p, q)
          /\ money' = [money EXCEPT ![p] = Purse(p, q), ![q] = Purse(q, p)]
          /\ Post(TradeSave(p, q, items', money'))
          /\ trade' = Ended(trade, {p, q})
    /\ UNCHANGED <<online, net, disk>>

TradeStep(p, Gold) ==
    \/ \E q \in Players : InitiateTrade(p, q)
    \/ \E m \in Gold : SetTradeGold(p, m)
    \/ \E s \in TradeSlots, i \in items[p] : SetTradeItem(p, s, i)
    \/ \E s \in TradeSlots : ClearTradeItem(p, s)
    \/ UnacceptTrade(p)
    \/ CancelTrade(p)
    \/ \E near \in BOOLEAN : AcceptRefused(p, near)
    \/ \E tradable \in BOOLEAN : AcceptStands(p, tradable)
    \/ AcceptNoRoom(p)
    \/ ExecuteTrade(p)

-----------------------------------------------------------------------------
(* The two ends of a trade name each other.                                *)
TradesPaired ==
    \A p \in Players : Trading(p) =>
        /\ Partner(p) \in online \ {p}
        /\ p \in online
        /\ Partner(Partner(p)) = p

(* What comes out of a trade is what the one who accepted first agreed to: *)
(* the items laid in the slots it saw, as far as their owner still has     *)
(* them, and the money, unless the partner named an amount it had not got  *)
(* since - SetMoney stores that amount and leaves the accept as it is.     *)
AgreedExchange ==
    [][\A p, q \in Players :
        (/\ p # q /\ Trading(p) /\ Partner(p) = q /\ trade[p].accepted
         /\ trade'[p] = NoTrade
         /\ <<money, items>>' # <<money, items>>
         /\ {p, q} \subseteq online')
        => /\ items'[p] \ items[p]
                = {trade[p].agreed.slots[s] : s \in TradeSlots} \cap items[q]
           /\ ~trade[p].refused =>
                money'[p] = money[p] - trade[p].offer.gold
                            + trade[p].agreed.gold]_<<holdings, trade>>
=============================================================================
