SPECIFICATION PowerSpec
CONSTANTS
    Procs = {p1, p2}
    v1 = v1
    v2 = v2
    Versions = {v1, v2}
    Size <- MCSize
    MaxSize = 2
    ChunkLen = 1
    MetaEvery = 2
    MaxName = 1
    Concurrent = FALSE
    Nil = Nil
    Hole = Hole
    Dir = Dir
    MaxOutages = 1
    p1 = p1
    p2 = p2
SYMMETRY Perms
INVARIANTS
    PowerTypeOK
    DiskFinalWhole
    DurableAtAck
    DeliveredAtAck
