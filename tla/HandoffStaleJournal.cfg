\* A session goes on after its handoff was claimed.
SPECIFICATION Spec
CONSTANTS
    Proc = {p1, p2, p3}
    NoProc = NoProc
    MaxSave = 3
    MaxOpen = 2
    MaxFail = 0
    MaxCrash = 0
    Allowed = {}
PROPERTIES
    OnlyHandoffBlocksResume

\* Every process may be gone.
CHECK_DEADLOCK FALSE
