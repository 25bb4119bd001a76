SPECIFICATION TransferSpec
CONSTANTS
    p1 = p1
    p2 = p2
    v1 = v1
    v2 = v2
    Nil = Nil
    Hole = Hole
    Procs = {p1, p2}
    Versions = {v1, v2}
    Size <- MCEvenSize
    MaxSize = 2
    ChunkLen = 1
    MetaEvery = 2
    MaxName = 1
    Concurrent = FALSE
    Window = 2
    MaxFaults = 2
    MaxEdits = 1
SYMMETRY Perms
INVARIANTS
    ResumeVerified
