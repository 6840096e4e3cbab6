CONSTANTS
    Requests = {r1, r2, r3}
    Intents = {double, square}
    Near <- MCNear
    Inputs = {1, 2, 3}
    Outputs = {2, 9}
    Width = 4
    MaxFaults = 1
SYMMETRY Interchangeable
SPECIFICATION LearnSpec
INVARIANTS GroundedSkills LearnsOverNight
CHECK_DEADLOCK FALSE
