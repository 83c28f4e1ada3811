\* Counting challenges: one request is enough, no crash resets the counters.
CONSTANTS
    Keys = {k1}
    Ops = {r1, r2}
    Generations = {g1, g2}
    None = None
    Capacity = 1
    Ttl = 1
    SweepLimit = 1
    MaxInstant = 1
    MaxRetries = 1
    GuardModes = {TRUE}
    MaxCrashes = 0
SPECIFICATION GateSpec
INVARIANTS
    ChallengesCounted
