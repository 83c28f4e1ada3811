\* Two keys with room for one, three callers, a response kept longer than a lease.
CONSTANTS
    Keys = {k1, k2}
    Callers = {c1, c2, c3}
    Responses = {v1, v2}
    None = None
    Ttl = 3
    InProgressTimeout = 2
    MaxEntries = 1
    Horizon = 3
SYMMETRY Symmetry
SPECIFICATION Spec
INVARIANTS
    OneExecutor
PROPERTIES
    CompletedOnce
    OvershootOnlyFresh
