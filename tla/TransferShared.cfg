SPECIFICATION TransferSpec
CONSTANTS
    p1 = p1
    p2 = p2
    v1 = v1
    v2 = v2
    Nil = Nil
    Hole = Hole
    Procs = {p1, p2}
    Versions = {v1, v2}
    Size <- MCSize
    MaxSize = 2
    ChunkLen = 1
    MetaEvery = 2
    MaxName = 1
    Concurrent = TRUE
    Window = 1
    MaxFaults = 1
    MaxEdits = 1
SYMMETRY Perms
INVARIANTS
    SuccessIsDone
PROPERTIES
    ImplementsStore
