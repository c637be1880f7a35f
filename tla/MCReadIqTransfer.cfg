SPECIFICATION FairSpec
CONSTANTS
    NumSamples = 7
    MaxSamp = 2
    UsefulPkts = 3
    MaxRetry = 2
    MaxIqRetry = 2
    Patient = TRUE
    MaxReads = 2
    MaxLoss = 2
    MaxDefer = 2
CHECK_DEADLOCK FALSE
INVARIANTS TypeOK ReturnsThisRead NothingLeftOver WithinOutput
PROPERTY Completes
