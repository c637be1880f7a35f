CONSTANTS
    NumHdr = 5
    NumBD = 10
    MaxPkts = 6
    MaxFails = 0
SPECIFICATION Spec
INVARIANTS
    HeaderIntact
