CONSTANTS
    Workers = {w1, w2}
    NumParts = 3
    PartSize <- MCPartSize
    MaxFaults = 1
    RetryCap = 1
    RetryAfterOn5xx = FALSE
    FinishModes = {FALSE, TRUE}
    MaxCrashes = 1
    PageSize = 2
SPECIFICATION Spec
INVARIANT NoLostUpdate
INVARIANT FinishedFileIsComplete
INVARIANT FinishRequestDense
PROPERTY EventuallyFinished
PROPERTY ImplementsSession
