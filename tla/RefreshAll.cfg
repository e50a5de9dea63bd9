\* Five plans: a login and a cancelled turn, three tasks of one process, a coarse clock, a
\* fault and a crash, and a server that keeps its refresh tokens with a login and a logout.
SPECIFICATION FairSpec
CONSTANTS
    p1 = p1
    p2 = p2
    t1 = t1
    t2 = t2
    t3 = t3
    u1 = u1
    Procs <- MCProcs
    Task <- MCTask
    Home <- MCHome
    NoCred = NoCred
    MaxGrants = 3
    Plans <- MCPlans
INVARIANTS
    TypeOK
    GateKept
    ChainKept
    RefusedForCause
PROPERTIES
    LoginsKept
    CallsEnd
CHECK_DEADLOCK FALSE
