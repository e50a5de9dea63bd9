\* Two windows that save, sweep and collect, with a crash or a failure.
SPECIFICATION Spec
CONSTANTS
    Task = {t1, t2}
    NoTask = NoTask
    Sweeper = {t1, t2}
    Session = {s1, s2}
    UserNamed = {s2}
    Blob = {b1}
    MaxSave = 2
    MaxFault = 1
    Allowed = {"unguarded"}
SYMMETRY Symmetry
INVARIANTS
    TypeOK
    StoreExclusion
PROPERTIES
    NamedBlobsKept
    SessionsKept
