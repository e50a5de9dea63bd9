\* Two processes that pass one session between them by dying, whatever is in flight.
SPECIFICATION Spec
CONSTANTS
    Proc = {p1, p2}
    Session = {s1}
    NoProc = NoProc
    NoSession = NoSession
    MaxMsg = 5
    MaxFail = 1
    MaxStart = 1
    ChanCap = 3
    CompactHeads = {2}
    Attached = {}
    Allowed = {}
PROPERTIES
    DiskNeverOlder

\* A process that has exited or crashed may stay down.
CHECK_DEADLOCK FALSE
