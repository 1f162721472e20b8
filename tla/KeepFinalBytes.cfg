CONSTANTS
    Sizes = {0, 1, 39, 40, 41, 47, 81, 120}
SPECIFICATION Spec
INVARIANT CapturesFinalBytes
CHECK_DEADLOCK FALSE
