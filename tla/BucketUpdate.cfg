\* Two clients updating one bucket's settings; B2 applies at most three
\* updates and may lose one reply.  Bucket.Update returns a Bucket without
\* its revision, so a second Update from it is unconditional.
CONSTANTS
    Clients = {c1, c2}
    MaxUpdates = 3
    MaxFaults = 1
SPECIFICATION Spec
PROPERTY UpdateIsConditional
