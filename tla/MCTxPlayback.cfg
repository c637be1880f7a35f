CONSTANTS
    RF = {"A", "B"}
    Chunk = 3
    NumChunks = 4
    Lengths = {0, 8}
    ContLengths = {6, 12}
    Starts = {0, 3}
    PacketLen = 2
    MaxWrites = 1
    MaxTx = 2
    MaxLag = 3
    Careful = TRUE
SPECIFICATION FairSpec
INVARIANTS TypeOK Played Reloaded
PROPERTY TransmissionEnds
