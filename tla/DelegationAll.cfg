\* Five plans: MCDelegation names what each of them allows.
SPECIFICATION FairSpec
CONSTANTS
    r1 = r1
    r2 = r2
    w1 = w1
    Job <- MCJob
    NoJob = NoJob
    Writers <- MCWriters
    Cap <- MCCap
    Steer = {s1}
    Brief = Brief
    MaxCost = 3
    Plans <- MCPlans
INVARIANTS
    TypeOK
    SlotsBound
    OvershootBounded
    SteersHeard
    ResultsAccounted
    RunningIsReal
PROPERTIES
    RowsSettle
