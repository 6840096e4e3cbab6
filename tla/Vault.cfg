CONSTANTS
    Procs = {a, b}
    Secrets = {x, y, z}
    MaxCrashes = 1
SPECIFICATION FairSpec
INVARIANTS TypeOK SecretsSafe
PROPERTIES LockFreed ImplementsSecretStore
CHECK_DEADLOCK FALSE
