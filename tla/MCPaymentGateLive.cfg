\* Two fair requests over two authorizations that compete for one slot of the
\* guard; no symmetry, because the property is a liveness property.
CONSTANTS
    Keys = {k1, k2}
    Ops = {r1, r2}
    Generations = {g1, g2}
    None = None
    Capacity = 1
    Ttl = 1
    SweepLimit = 1
    MaxInstant = 2
    MaxRetries = 1
    GuardModes = {TRUE}
    MaxCrashes = 1
SPECIFICATION FairGateSpec
PROPERTIES
    EveryRequestEnds
