\* Quitting after an earlier save.
SPECIFICATION Spec
CONSTANTS
    Proc = {p1}
    Session = {s1}
    NoProc = NoProc
    NoSession = NoSession
    MaxMsg = 3
    MaxFail = 0
    MaxStart = 0
    ChanCap = 3
    CompactHeads = {2}
    Attached = {}
    Allowed = {"quit"}
PROPERTIES
    ExitAfterLastWrite

\* A process that has exited or crashed may stay down.
CHECK_DEADLOCK FALSE
