CONSTANTS
    Turns = {t1, t2, t3}
    Convs = {a, b, u}
    Keyed = {a, b}
    Configs <- MCConfigs
    None = None
    Ttl = 0
    MaxTime = 1
    MaxRestarts = 1
SPECIFICATION Spec
INVARIANTS TypeOK SpendsApproved HonestMessages
SYMMETRY Symmetry
CHECK_DEADLOCK FALSE
