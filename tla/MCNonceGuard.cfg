\* Three keys, two concurrent callers, a table with room for two keys, and a
\* sweep that reclaims a single key at a time.
CONSTANTS
    Keys = {k1, k2, k3}
    Ops = {o1, o2}
    Generations = {g1, g2, g3, g4}
    None = None
    Capacity = 2
    Ttl = 1
    SweepLimit = 1
    MaxInstant = 3
SYMMETRY Symmetry
SPECIFICATION Spec
INVARIANTS
    PendingProtected
    TableSound
    RetentionHeld
PROPERTIES
    RefusedForCause
    OrphanHarmless
    ImplementsReplayProtection
