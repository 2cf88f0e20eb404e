SPECIFICATION Spec
CONSTANTS
    p1 = p1
    p2 = p2
    p3 = p3
    i1 = i1
    i2 = i2
    a1 = a1
    a2 = a2
    Players <- MCPlayers
    Items <- MCItems
    MailIds <- MCMailIds
    Lots <- MCLots
    SlotCount = 2
    Gold <- MCGold
    Demands <- MCDemands
    Starts <- MCStarts
    Nobody = Nobody
    Space <- MCSpace
    Cap = 5
    MaxPending = 2
    Postage = 1
    Half = 2
    GameMasters <- MCGameMasters
    Deposit = 1
    Cut = 1
    Buyout = 2
    LogTrade = FALSE
INVARIANTS
    TypeOK
    OneRowPerItem
    MoneyConserved
    MemoryAgrees
PROPERTIES
    AgreedExchange
CHECK_DEADLOCK FALSE
