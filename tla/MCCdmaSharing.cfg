SPECIFICATION CdmaSpec
CONSTANTS
    NumBoot = 2
    NumMain = 3
    NumIsr = 4
    MaxErrors = 2
INVARIANTS
    CdmaTypeOK
    NoneForgotten
PROPERTIES
    KeepsPromise
    CallsReturn
CHECK_DEADLOCK FALSE
