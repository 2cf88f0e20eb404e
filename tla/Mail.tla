-------------------------------- MODULE Mail --------------------------------
(***************************************************************************)
(* Mails: rows that only transactions write, and the mailbox a character   *)
(* in the world has listed, which is read once past the queue of           *)
(* transactions and then kept up to date in memory.                        *)
(* Sources: Handlers/MailHandler.cpp, Mails/Mail.cpp, Player::_LoadMail,   *)
(* Player::_SaveMail.                                                      *)
(***************************************************************************)
EXTENDS Holdings

CONSTANTS
    Postage,        \* 30 copper for each attachment, or for none
    Half,           \* 2^31, where an int32 turns negative
    GameMasters     \* characters that isGameMaster() is true of

ASSUME MailConstants ==
    /\ Postage \in Nat /\ Half \in Nat \ {0}
    /\ GameMasters \subseteq Players

VARIABLES
    box,        \* m_mail and m_mailsLoaded of each character
    gone        \* history: items that the code deletes: those in mails their
                \* receiver deleted, those won by somebody out of the world

mailbox == <<box, gone>>

(* missed is history: the mails that were posted but not executed when the *)
(* mailbox was listed.                                                     *)
NoBox == [loaded |-> FALSE, mails |-> None, missed |-> {}]

(* A mail that is being sent: MailDraft with its receiver and sender;      *)
(* player tells mails of players from those of the auction house.          *)
Letter(to, from, player, gold, cod, its) ==
    [to |-> to, from |-> from, player |-> player,
     money |-> gold, cod |-> cod, items |-> its]

Row(l) == [to |-> l.to, from |-> l.from, player |-> l.player,
           money |-> l.money, cod |-> l.cod]

(* ObjectMgr::GenerateMailID: an id that nothing refers to.                *)
Taken == {id \in MailIds : disk.mail[id] # NoMail}
         \cup (UNION {DOMAIN queue[k].post : k \in DOMAIN queue})
         \cup (UNION {DOMAIN box[p].mails : p \in Players})
FreeIds == MailIds \ Taken
NewId(k) == CHOOSE id \in FreeIds :
                Cardinality({x \in FreeIds : x < id}) = k - 1

RoomForMails(n) == Cardinality(FreeIds) >= n

(* MailDraft::SendMailTo of the letters ls: their rows in the transaction, *)
(* and a copy for a receiver whose mailbox is listed.                      *)
LetterOf(ls, id) == ls[CHOOSE k \in DOMAIN ls : NewId(k) = id]
Ids(ls) == {NewId(k) : k \in DOMAIN ls}

Mailed(t, ls) ==
    [t EXCEPT
        !.post = Override(@, [id \in Ids(ls) |-> Row(LetterOf(ls, id))]),
        !.attach = Override(@,
            [i \in UNION {ls[k].items : k \in DOMAIN ls} |->
                NewId(CHOOSE k \in DOMAIN ls : i \in ls[k].items)])]

Copy(l) == [from |-> l.from, player |-> l.player, money |-> l.money,
            cod |-> l.cod, items |-> l.items, removed |-> {}, state |-> "same"]

Delivered(b, ls) ==
    [p \in Players |->
        IF p \in online /\ b[p].loaded
        THEN [b[p] EXCEPT !.mails = Override(@,
                [id \in {x \in Ids(ls) : LetterOf(ls, x).to = p} |->
                    Copy(LetterOf(ls, id))])]
        ELSE b[p]]

(* Player::_SaveMail: what changed and what was deleted since.             *)
InState(p, b, state) == {id \in DOMAIN b[p].mails : b[p].mails[id].state = state}

(* Mutant: the rows of taken items stay with the mail.                     *)
SavingMailKeepsTaken(t, p, b) ==
    LET changed == InState(p, b, "changed")
        deleted == InState(p, b, "deleted")
    IN [t EXCEPT
          !.paid = [id \in changed |-> [money |-> b[p].mails[id].money,
                                        cod |-> b[p].mails[id].cod]],
          !.drop = @ \cup deleted,
          !.fees = @ + Total([id \in deleted |-> b[p].mails[id].money], deleted),
          !.lost = @ \cup UNION {b[p].mails[id].items : id \in deleted}]
SavingMail(t, p, b) ==
    LET changed == InState(p, b, "changed")
        deleted == InState(p, b, "deleted")
    IN [t EXCEPT
          !.paid = [id \in changed |-> [money |-> b[p].mails[id].money,
                                        cod |-> b[p].mails[id].cod]],
          !.attach = Override(@, [i \in UNION {b[p].mails[id].removed :
                                                 id \in changed} |-> Nobody]),
          !.drop = @ \cup deleted,
          !.fees = @ + Total([id \in deleted |-> b[p].mails[id].money], deleted),
          !.lost = @ \cup UNION {b[p].mails[id].items : id \in deleted}]

SavedBox(b, p) ==
    [b EXCEPT ![p].mails =
        [id \in DOMAIN b[p].mails \ InState(p, b, "deleted") |->
            [b[p].mails[id] EXCEPT !.state = "same", !.removed = {}]]]

Opened(p, id) == /\ p \in online
                 /\ id \in DOMAIN box[p].mails
                 /\ box[p].mails[id].state # "deleted"

(* What ModifyMoney(-int32(COD)) takes for a demand: the demand without    *)
(* the bits above the 32nd and with a sign, so that one of 2^31 or more may*)
(* give instead; at 2^31 the negation overflows and either may happen.     *)
Charged(cod) == {c \in -Half..Half : (cod - c) % (2 * Half) = 0}

(* What is not covered when p owes a sum and amount is taken.              *)
Minted(p, owed, amount) == owed - (money[p] - Modified(money[p], -amount))

-----------------------------------------------------------------------------
(* HandleSendMail: S attached, gold enclosed, cod demanded.  A game master *)
(* may enclose more than he has.                                           *)
SendMail(p, q, S, gold, cod) ==
    LET cost == Postage * (IF S = {} THEN 1 ELSE Cardinality(S))
        ls == << Letter(q, p, TRUE, gold, cod, S) >>
        gift == IF p \in GameMasters THEN Minted(p, cost + gold, cost + gold)
                ELSE 0
    IN
    /\ p \in online /\ p # q
    /\ S \subseteq items[p]
    /\ money[p] >= cost + gold \/ p \in GameMasters
    /\ RoomFor(1) /\ RoomForMails(1)
    /\ money' = [money EXCEPT ![p] = Modified(@, -(cost + gold))]
    /\ items' = [items EXCEPT ![p] = @ \ S]
    /\ Post(Saving(Mailed([Blank EXCEPT !.row = [i \in S |-> Nobody],
                                        !.fees = cost - gift], ls),
                   {p}, money', net, NothingQueued))
    /\ box' = Delivered(box, ls)
    /\ UNCHANGED <<online, net, disk, gone>>

(* HandleGetMailList: the first time _LoadMail reads the rows, at once.    *)
ReadMail(p, id) ==
    [from |-> disk.mail[id].from, player |-> disk.mail[id].player,
     money |-> disk.mail[id].money, cod |-> disk.mail[id].cod,
     items |-> {i \in disk.kept : disk.attach[i] = id},
     removed |-> {}, state |-> "same"]

ListMails(p) ==
    /\ p \in online
    /\ ~box[p].loaded
    /\ box' = [box EXCEPT ![p] =
          [loaded |-> TRUE,
           mails  |-> [id \in {x \in MailIds : disk.mail[x].to = p} |->
                          ReadMail(p, id)],
           missed |-> {x \in MailIds : Settled.mail[x].to = p
                                       /\ disk.mail[x].to # p}]]
    /\ UNCHANGED <<holdings, gone>>

(* HandleMailDelete: in memory, until the next _SaveMail.                  *)
DeleteMail(p, id) ==
    /\ Opened(p, id)
    /\ box[p].mails[id].cod = 0
    /\ box' = [box EXCEPT ![p].mails[id].state = "deleted"]
    /\ gone' = gone \cup box[p].mails[id].items
    /\ UNCHANGED holdings

(* HandleMailReturnToSender, SendReturnToSender, for a player's mail.      *)
ReturnToSender(p, id) ==
    LET m == box[p].mails[id]
        ls == << Letter(m.from, p, TRUE, m.money, 0, m.items) >>
    IN
    /\ Opened(p, id)
    /\ m.player
    /\ RoomFor(1) /\ RoomForMails(1)
    /\ Post(Mailed([Blank EXCEPT !.drop = {id}], ls))
    /\ box' = Delivered([box EXCEPT ![p].mails =
                 [x \in DOMAIN box[p].mails \ {id} |-> box[p].mails[x]]], ls)
    /\ UNCHANGED <<online, money, net, items, disk, gone>>

(* HandleMailTakeItem: the first item of a mail with a demand pays for it, *)
(* by a mail to the sender of the whole demand.                            *)
TakeMailItem(p, id, i) ==
    LET m == box[p].mails[id]
        ls == IF m.cod > 0 THEN << Letter(m.from, p, TRUE, m.cod, 0, {}) >>
              ELSE << >>
        b == [box EXCEPT ![p].mails[id] =
                [m EXCEPT !.items = @ \ {i}, !.removed = @ \cup {i},
                          !.cod = 0, !.state = "changed"]]
    IN
    /\ Opened(p, id)
    /\ i \in m.items
    /\ money[p] >= m.cod
    /\ CanStore(p, items)
    /\ RoomFor(1) /\ RoomForMails(Len(ls))
    /\ items' = [items EXCEPT ![p] = @ \cup {i}]
    /\ \E charge \in Charged(m.cod) :
       \E gift \in {IF m.cod < Half THEN 0 ELSE Minted(p, m.cod, charge)} :
          /\ money' = [money EXCEPT ![p] = Modified(@, -charge)]
          /\ Post(Saving(SavingMail(Mailed([Blank EXCEPT !.fees = -gift], ls),
                                    p, b),
                         {p}, money', net, [NothingQueued EXCEPT ![p] = {i}]))
    /\ box' = Delivered(SavedBox(b, p), ls)
    /\ UNCHANGED <<online, net, disk, gone>>

(* HandleMailTakeMoney.                                                    *)
TakeMailMoney(p, id) ==
    LET m == box[p].mails[id]
        b == [box EXCEPT ![p].mails[id].money = 0,
                         ![p].mails[id].state = "changed"]
    IN
    /\ Opened(p, id)
    /\ m.money > 0
    /\ money[p] < Cap - m.money
    /\ RoomFor(1)
    /\ money' = [money EXCEPT ![p] = Modified(@, m.money)]
    /\ Post(Saving(SavingMail(Blank, p, b), {p}, money', net, NothingQueued))
    /\ box' = SavedBox(b, p)
    /\ UNCHANGED <<online, net, items, disk, gone>>

MailStep(p, Gold, Demands) ==
    \/ \E q \in Players, i \in items[p], cod \in Demands :
          SendMail(p, q, {i}, 0, cod)
    \/ \E q \in Players, gold \in Gold \ {0} : SendMail(p, q, {}, gold, 0)
    \/ \E id \in DOMAIN box[p].mails :
          \/ DeleteMail(p, id)
          \/ ReturnToSender(p, id)
          \/ \E i \in box[p].mails[id].items : TakeMailItem(p, id, i)
          \/ TakeMailMoney(p, id)

-----------------------------------------------------------------------------
(* Every mail a character can open stands in the rows, once everything     *)
(* posted is executed, with the same contents: nothing is taken twice.     *)
MailboxAgrees ==
    \A d \in {Settled} : \A p \in online : \A id \in DOMAIN box[p].mails :
        LET m == box[p].mails[id] IN
        m.state = "same" =>
            /\ d.mail[id] = [to |-> p, from |-> m.from, player |-> m.player,
                             money |-> m.money, cod |-> m.cod]
            /\ m.items = {i \in Items : d.attach[i] = id}

(* Every mail to a character whose mailbox is listed is in it, except what *)
(* was posted and not executed yet when the list was read.                 *)
EveryMailListed ==
    \A d \in {Settled} : \A p \in online : box[p].loaded =>
        \A id \in MailIds : d.mail[id].to = p =>
            id \in DOMAIN box[p].mails \cup box[p].missed
=============================================================================
