CONSTANTS
    Logs = {tap, terminal}
    MaxLines = 2
    MaxReceipts = 4
    MaxFaults = 0
SPECIFICATION Spec
INVARIANT OneChain
CHECK_DEADLOCK FALSE
