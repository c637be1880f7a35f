SPECIFICATION Spec
CONSTANTS
    NumSamples = 7
    MaxSamp = 2
    UsefulPkts = 2
    MaxRetry = 2
    MaxIqRetry = 1
    Patient = TRUE
    MaxReads = 1
    MaxLoss = 0
    MaxDefer = 0
CHECK_DEADLOCK FALSE
INVARIANT WithinOutput
