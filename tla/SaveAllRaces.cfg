\* One process, two sessions, every race and every way out, with room in the
\* channel for every message.
SPECIFICATION FairSpec
CONSTANTS
    Proc = {p1}
    Session = {s1, s2}
    NoProc = NoProc
    NoSession = NoSession
    MaxMsg = 3
    MaxFail = 0
    MaxStart = 1
    ChanCap = 8
    CompactHeads = {2}
    Attached = {}
    Allowed = {"abortLag", "switch", "typeAhead", "lateWrite", "quit"}
INVARIANTS
    SnapshotKeepsItsSession
PROPERTIES
    QuitTerminates

\* A process that has exited or crashed may stay down.
CHECK_DEADLOCK FALSE
