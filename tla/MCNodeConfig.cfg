SPECIFICATION Spec
CONSTANTS
    A = A
    B = B
    Boards = {A, B}
    NoBoard = NoBoard
    Dip <- MCDip
    UserIds = {0, 1}
    Groups = {0}
    StartingPort = 0
    MaxSends = 2
    MaxCalls = 3
    MaxSetups = 1
    MaxWorks = 1
    MaxReboots = 1
INVARIANTS TypeOK OnlyAddressed AnswerMeansDone HostViewHolds
CHECK_DEADLOCK FALSE
