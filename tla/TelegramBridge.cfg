CONSTANTS
    Msgs = {m1, m2}
    MaxTokens = 3
    SoftChars = 2
    EditFailureMax = 2
    MaxRing = 1
    SynthEvery = 1
    SynthRows = 1
    MaxForgets = 1
    MaxCrashes = 1
SYMMETRY Interchangeable
SPECIFICATION BridgeSpec
INVARIANTS ReplyNeverLost ForgottenStaysForgotten
CHECK_DEADLOCK FALSE
