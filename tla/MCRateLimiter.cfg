\* Three clients and two requests; a bucket of a token and a third that refills in
\* two seconds, room for two buckets, one reclaimed per sweep.  A bucket idles
\* longer than it takes to refill plus the longest wait for the mutex.
CONSTANTS
    Clients = {c1, c2, c3}
    Ops = {o1, o2}
    None = None
    Cost = 3
    Burst = 4
    Second = 2
    IdleTimeout = 5
    MaxClients = 2
    SweepLimit = 1
    MaxLag = 1
    MaxInstant = 7
SYMMETRY Symmetry
SPECIFICATION Spec
INVARIANTS
    CacheSound
PROPERTIES
    FullOnlyWhenRecent
    RetryAfterHonest
    ImplementsClientQuota
