CONSTANTS
    Logs = {tap}
    MaxLines = 2
    MaxReceipts = 6
    MaxFaults = 3
SPECIFICATION Spec
INVARIANTS TypeOK AckedOnDisk MemoryIsDisk DamageOnlyByTornRotation
PROPERTY AppendOnly
CHECK_DEADLOCK FALSE
