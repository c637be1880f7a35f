SPECIFICATION FairSpec
CONSTANTS
    NumPkts = 3
    CheckChksum = TRUE
    Jumbo = TRUE
    MaxRetry = 1
    MaxEarly = 1
    MaxTransfers = 2
    MaxLoss = 2
    MaxBusy = 1
    MaxFlight = 2
    MaxLate = 1
CHECK_DEADLOCK FALSE
INVARIANTS TypeOK AckMeansWritten SlowPrefixWritten
PROPERTIES OneLossRepaired TransferEnds
