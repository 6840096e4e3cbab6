CONSTANTS
    Sessions = {s1, s2}
    Conns = {c1, c2}
    Tokens = {t1, t2}
    MaxPerOwner = 1
    RingBytes = 2
    HighWater = 1
    AckEvery = 1
    Chunks = {1, 3}
    TokenTtl = 0
    IdleMs = 0
    GraceMs = 0
    MaxTime = 1
SPECIFICATION FairSpec
INVARIANTS TypeOK FlowControl MeterWithinReplay MemoryBound TokenSingleUse ReceiptsTellTheStory
PROPERTY FlowResumes
CHECK_DEADLOCK FALSE
