SPECIFICATION CdmaSpec
CONSTANTS
    NumBoot = 2
    NumMain = 3
    NumIsr = 4
    MaxErrors = 0
INVARIANT WaitsForDma
CHECK_DEADLOCK FALSE
