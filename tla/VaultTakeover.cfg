CONSTANTS
    Procs = {a, b, c}
    Secrets = {x, y, z}
    MaxCrashes = 1
SPECIFICATION Spec
INVARIANT SecretsSafe
CHECK_DEADLOCK FALSE
