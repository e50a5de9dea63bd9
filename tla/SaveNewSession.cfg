\* /new, then a first message.
SPECIFICATION Spec
CONSTANTS
    Proc = {p1}
    Session = {s1, s2}
    NoProc = NoProc
    NoSession = NoSession
    MaxMsg = 4
    MaxFail = 0
    MaxStart = 0
    ChanCap = 3
    CompactHeads = {2}
    Attached = {}
    Allowed = {"switch"}
INVARIANTS
    SessionsApart

\* A process that has exited or crashed may stay down.
CHECK_DEADLOCK FALSE
