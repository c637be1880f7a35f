SPECIFICATION Spec
CONSTANTS
    Ids = {a, b}
    Outputs = {1, 3}
    IdSets <- MCIdSets
    InputLists <- MCInputLists
    MaxCalls = 3
    MaxSends = 2
    MaxFrames = 1
SYMMETRY Symmetry
INVARIANTS TypeOK OnlyWhenDue Heard HeldForHost
CHECK_DEADLOCK FALSE
