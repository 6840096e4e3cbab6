CONSTANTS
    Nodes = {n1, n2, n3}
    Strangers = {n3}
    Broken = {n2}
    FleetMax = 2
    MaxInput = 3
    MaxJobs = 2
    MaxConns = 2
SPECIFICATION FairSpec
INVARIANTS TypeOK CreditWhereDue
PROPERTIES WorkGoesOn ImplementsJobLedger
CHECK_DEADLOCK FALSE
