\* Twelve plans of the surroundings, each two or three of: messages of the user, of a peer,
\* a background result, an interrupt, a compaction, a /clear, quitting.
SPECIFICATION FairSpec
CONSTANTS
    Task = {1, 2, 3}
    NoTask = NoTask
    Human = {1, 2}
    Peer = {p1, p2}
    Result = {r1}
    InboxCap = 2
    Plans <- MCPlans
INVARIANTS
    TypeOK
    MessagesKept
    PeersAccounted
    TurnIsOwned
PROPERTIES
    FinalSaveIsLockFree
    QuitEnds
    QueueIsServed
    ResultIsDelivered

\* The app may have exited.
CHECK_DEADLOCK FALSE
