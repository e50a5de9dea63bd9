\* Three processes on either platform, two failures and a crash.
SPECIFICATION FairSpec
CONSTANTS
    Proc = {p1, p2, p3}
    NoProc = NoProc
    MaxSave = 3
    MaxOpen = 2
    MaxFail = 2
    MaxCrash = 1
    Allowed = {}
INVARIANTS
    TypeOK
    OneWorker
    ClaimedOnce
    CommittedSnapshotKept
PROPERTIES
    CommitIsRecovered

\* Every process may be gone.
CHECK_DEADLOCK FALSE
