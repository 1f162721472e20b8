\* Two request goroutines, two re-authorizations.
CONSTANTS
    Readers = {r1, r2}
    MaxGen = 2
SPECIFICATION Spec
INVARIANT RequestFromOneSession
