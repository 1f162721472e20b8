\* Delays in milliseconds around the 30 s cap; rand.Float64() in quarters.
CONSTANTS
    Q = 4
    Second = 1000
    Delays = {0, 1000, 10000, 15000, 16000, 20000, 30000, 31000, 60000}
SPECIFICATION Spec
INVARIANT BackoffWithinSpec
