\* A session left, extended by another process and opened again.
SPECIFICATION Spec
CONSTANTS
    Proc = {p1, p2}
    Session = {s1}
    NoProc = NoProc
    NoSession = NoSession
    MaxMsg = 5
    MaxFail = 0
    MaxStart = 0
    ChanCap = 3
    CompactHeads = {2}
    Attached = {}
    Allowed = {"switch"}
INVARIANTS
    AdoptedRoundsSurvive

\* A process that has exited or crashed may stay down.
CHECK_DEADLOCK FALSE
