\* Three requests over two authorizations, one verification retry, one crash, with the
\* replay guard or, as by default, without.
CONSTANTS
    Keys = {k1, k2}
    Ops = {r1, r2, r3}
    Generations = {g1, g2, g3}
    None = None
    Capacity = 2
    Ttl = 1
    SweepLimit = 1
    MaxInstant = 2
    MaxRetries = 1
    GuardModes = {TRUE, FALSE}
    MaxCrashes = 1
SYMMETRY Symmetry
SPECIFICATION GateSpec
INVARIANTS
    FairExchange
    OneCopyAtWork
    NothingLeaks
PROPERTIES
    NoEarlyReplay
