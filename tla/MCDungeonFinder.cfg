SPECIFICATION Spec
CONSTANTS
    p1 = p1
    p2 = p2
    p3 = p3
    qA = qA
    qB = qB
    party = party
    Players <- MCPlayers
    QueueOrder <- MCQueueOrder
    Party = party
    Starts <- MCStarts
    NoGroup = NoGroup
    NoQueue = NoQueue
    Role <- MCRole
    Needed <- MCNeeded
    MinSize = 2
    MaxSize = 2
    MaxQueues = 2
    MaxProposals = 2
INVARIANTS
    TypeOK
    QueueStoresAgree
    GroupDataAgrees
    GroupsFit
PROPERTIES
    OnlyByConsent
    InnocentRequeued
CHECK_DEADLOCK FALSE
