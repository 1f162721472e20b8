CONSTANTS
    Workers = {w1, w2}
    NumParts = 4
    PartSize <- MCPartSize
    MaxFaults = 0
    RetryCap = 1
    RetryAfterOn5xx = FALSE
    FinishModes = {TRUE}
    MaxCrashes = 0
    PageSize = 2
SPECIFICATION Spec
PROPERTY FinishNamesFirstGap
