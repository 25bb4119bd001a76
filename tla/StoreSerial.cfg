SPECIFICATION Spec
CONSTANTS
    Procs = {p1, p2}
    v1 = v1
    v2 = v2
    Versions = {v1, v2}
    Size <- MCLongSize
    MaxSize = 3
    ChunkLen = 2
    MetaEvery = 2
    MaxName = 2
    Concurrent = FALSE
    Nil = Nil
    Hole = Hole
    p1 = p1
    p2 = p2
SYMMETRY Perms
INVARIANTS
    TypeOK
    FinalIntact
    DeliveredAtAck
PROPERTIES
    ProgressKept
    OverwriteByConsent
