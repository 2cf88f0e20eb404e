------------------------------ MODULE Economy ------------------------------
(***************************************************************************)
(* Trade, mail and the auction house over the same purses, inventories and *)
(* rows, with logins, logouts and a crash of the server.                   *)
(***************************************************************************)
EXTENDS Trade, Auction

CONSTANTS
    Gold,           \* a bound: the amounts that are laid, sent and bid
    Demands,        \* a bound: the amounts that mails demand
    Starts          \* scenarios: first rows, and how much may happen

ASSUME EconomyConstants ==
    /\ Gold \subseteq Nat /\ Demands \subseteq Nat
    /\ \A s \in Starts :
          /\ s.online \subseteq Players
          /\ s.money \in [Players -> 0..Cap]
          /\ s.owner \in [Items -> Players]
          /\ \A p \in Players :
                Cardinality({i \in Items : s.owner[i] = p}) <= Space[p]

ASSUME ScenariosShareTotal ==
    \A s, t \in Starts : Total(s.money, Players) = Total(t.money, Players)

VARIABLE left       \* a bound: what may still happen, of each kind

vars == <<holdings, mailbox, house, trade, left>>

(* A scenario gives each player money and items, tells who is in the world *)
(* (loaded, with nothing to save) and the number of steps of each kind.    *)
FirstRows(s) ==
    [money |-> s.money, net |-> [p \in Players |-> 0], row |-> s.owner,
     mail |-> [id \in MailIds |-> NoMail],
     attach |-> [i \in Items |-> Nobody], kept |-> Items,
     lot |-> [a \in Lots |-> NoLot], fees |-> 0]

Init ==
    \E s \in Starts :
        /\ disk = FirstRows(s)
        /\ left = s.left
        /\ online = s.online /\ queue = << >>
        /\ money = [p \in Players |-> IF p \in online THEN s.money[p] ELSE 0]
        /\ net = [p \in Players |-> 0]
        /\ items = [p \in Players |->
                        {i \in Items : p \in online /\ s.owner[i] = p}]
        /\ box = [p \in Players |-> NoBox] /\ gone = {}
        /\ auctions = [a \in Lots |-> NoLot] /\ aitems = {} /\ due = {}
        /\ trade = [p \in Players |-> NoTrade]

Spent(kind) == left[kind] > 0 /\ left' = [left EXCEPT ![kind] = @ - 1]

DoTrade == /\ \E p \in online : TradeStep(p, Gold)
           /\ Spent("trade")
           /\ UNCHANGED <<mailbox, house>>
DoMail == /\ \E p \in online : MailStep(p, Gold, Demands)
          /\ Spent("mail")
          /\ UNCHANGED <<house, trade>>
DoList == /\ \E p \in online : ListMails(p)
          /\ UNCHANGED <<house, trade, left>>
DoAuction == /\ \E p \in online : AuctionStep(p, Gold)
             /\ Spent("auction")
             /\ UNCHANGED trade
DoSweep == /\ \/ \E S \in SUBSET Lots : SweepBegin(S)
              \/ \E a \in Lots : SweepSkip(a) \/ SweepEnd(a)
           /\ UNCHANGED <<trade, left>>
DoWorld == /\ \E p \in online : Earn(p) \/ Spend(p)
           /\ Spent("world")
           /\ UNCHANGED <<mailbox, house, trade>>

DoWork == /\ WorkTransaction \/ WorkLogin
          /\ UNCHANGED <<mailbox, house, trade, left>>

DoLogin == /\ \E p \in Players : RequestLogin(p)
           /\ Spent("login")
           /\ UNCHANGED <<mailbox, house, trade>>

(* LogoutPlayer: the trade is cancelled, everything is saved.              *)
LogOut(p) ==
    /\ p \in online
    /\ RoomFor(1)
    /\ Post(Saving(SavingMail(Blank, p, box), {p}, money, net, NothingQueued))
    /\ box' = [box EXCEPT ![p] = NoBox]
    /\ trade' = IF Trading(p) THEN Ended(trade, {p, Partner(p)}) ELSE trade
    /\ Leave({p})
    /\ Spent("logout")
    /\ UNCHANGED <<disk, gone, house>>

(* The server dies and starts again: the rows are all there is.            *)
Crash ==
    /\ Spent("crash")
    /\ Leave(Players)
    /\ queue' = << >>
    /\ box' = [p \in Players |-> NoBox]
    /\ trade' = [p \in Players |-> NoTrade]
    /\ auctions' = LoadedAuctions(disk)
    /\ aitems' = LoadedItems(disk)
    /\ due' = {}
    /\ UNCHANGED <<disk, gone>>

Next ==
    \/ DoTrade \/ DoMail \/ DoList \/ DoAuction \/ DoSweep \/ DoWorld
    \/ DoWork \/ DoLogin \/ Crash
    \/ \E p \in online : LogOut(p)

Spec == Init /\ [][Next]_vars

-----------------------------------------------------------------------------
TypeOK ==
    /\ online \subseteq Players
    /\ money \in [Players -> 0..Cap]
    /\ net \in [Players -> Int]
    /\ items \in [Players -> SUBSET Items]
    /\ disk.money \in [Players -> 0..Cap]
    /\ disk.row \in [Items -> Players \cup {Nobody}]
    /\ disk.attach \in [Items -> MailIds \cup {Nobody}]
    /\ \A p \in Players : Cardinality(items[p]) <= Space[p]
    /\ \A p \in Players \ online : items[p] = {} /\ box[p] = NoBox
    /\ Len(queue) <= MaxPending
    /\ aitems \subseteq Items /\ due \subseteq Lots
    /\ TradesPaired

(* Wherever the server dies, the rows tell of each item one place: an      *)
(* inventory, a mail or an auction.  None ceases to exist but in a mail    *)
(* its receiver deleted, or when it is won by somebody out of the world.   *)
Places(d, i) ==
    Cardinality({p \in Players : d.row[i] = p})
    + Cardinality({id \in MailIds : d.attach[i] = id})
    + Cardinality({a \in Lots : d.lot[a].item = i})
OneRowPerItem ==
    /\ \A i \in disk.kept : Places(disk, i) = 1
    /\ Items \ Settled.kept \subseteq gone

(* What the rows hold of money, less what came from the world, plus what   *)
(* was paid for services or thrown away with a mail, never changes:        *)
(* trades, bids, outbids, demands and fees only move it.  Money comes into *)
(* being in two handlers only, which count it in fees: when a game master  *)
(* encloses more than he has, and when a demand of 2^31 or more is paid.   *)
Wealth(d) ==
    Total([p \in Players |-> d.money[p] - d.net[p]], Players)
    + Total([id \in MailIds |-> d.mail[id].money], MailIds)
    + Total([a \in Lots |-> IF d.lot[a] = NoLot THEN 0
                            ELSE d.lot[a].bid + Deposit], Lots)
    + d.fees
Origin == {Total(s.money, Players) : s \in Starts}
MoneyConserved == \A total \in Origin : Wealth(disk) = total

(* What a player got from, or gave to, another is on its way to the rows   *)
(* when the handler ends: a crash undoes whole exchanges only.             *)
ExchangesSaved ==
    \A d \in {Settled} : \A p \in online :
        /\ d.money[p] - d.net[p] = money[p] - net[p]
        /\ {i \in Items : d.row[i] = p} = items[p]

(* What the memory shows of purses, bags, mailboxes and auctions is what   *)
(* the rows will be once everything posted is executed.                    *)
MemoryAgrees ==
    /\ ExchangesSaved
    /\ MailboxAgrees
    /\ EveryMailListed
    /\ AuctionsAgree
=============================================================================
