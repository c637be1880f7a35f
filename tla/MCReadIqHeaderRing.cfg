CONSTANTS
    NumHdr = 5
    NumBD = 7
    MaxPkts = 8
    MaxFails = 1
SPECIFICATION FairSpec
INVARIANTS
    TypeOK
    HeaderIntact
PROPERTIES
    StreamSpec
    ReadEnds
