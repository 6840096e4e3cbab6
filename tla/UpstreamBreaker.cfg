CONSTANTS
    Requests = {r1, r2, r3, r4}
    Threshold = 2
    Cooldown = 1
    Enabled = TRUE
    NoProbe = NoProbe
    MaxTime = 3
SPECIFICATION FairSpec
INVARIANTS TypeOK SingleProbe CountedFailures
PROPERTIES OnlyProbeSettles ProbeSlotFreed ImplementsCircuitBreaker
CHECK_DEADLOCK FALSE
