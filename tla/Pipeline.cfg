CONSTANTS
    N = 3
    Defs = {d1, d2}
    Texts = {t1, t2}
    NoText = NoText
    MaxEdits = 2
    MaxFaults = 1
SPECIFICATION Spec
INVARIANTS EndsCurrent
PROPERTIES EditRespected
SYMMETRY Interchangeable
