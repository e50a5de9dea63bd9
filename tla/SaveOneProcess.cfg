\* One process, one session: rounds, compactions, failed writes, a crash and a resume.
SPECIFICATION Spec
CONSTANTS
    Proc = {p1}
    Session = {s1}
    NoProc = NoProc
    NoSession = NoSession
    MaxMsg = 6
    MaxFail = 1
    MaxStart = 1
    ChanCap = 3
    CompactHeads = {2}
    Attached = {6}
    Allowed = {}
INVARIANTS
    TypeOK
    OneWriter
    CursorMatchesFiles
    AdoptedRoundsSurvive
    QuietMeansDurable
    NoMessageTwice
PROPERTIES
    ImplementsLatestWins

\* A process that has exited or crashed may stay down.
CHECK_DEADLOCK FALSE
