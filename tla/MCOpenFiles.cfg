CONSTANTS
    Paths = {p1, p2}
    Buffers = {b1, b2, b3}
    Clients = {c1, c2, c3}
    Nil = Nil
SPECIFICATION FairSpec
INVARIANTS
    TypeOK
    RefCountIsHandles
    NoLeak
PROPERTIES
    OnlyStaleReleaseEvicts
    CallsReturn
    UnusedLeavesTable
