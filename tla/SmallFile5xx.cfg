CONSTANTS
    Uploaders = {u1, u2}
    MaxFaults = 2
    RetryCap = 2
    RetryAfterOn5xx = TRUE
SPECIFICATION Spec
INVARIANT RejectedLeaseNeverReused
