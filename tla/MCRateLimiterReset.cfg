\* A short idle timeout, and a request that waits half a second for the
\* mutex while another client's request reclaims its bucket.
CONSTANTS
    Clients = {c1, c2}
    Ops = {o1, o2}
    None = None
    Cost = 1
    Burst = 2
    Second = 2
    IdleTimeout = 2
    MaxClients = 2
    SweepLimit = 1
    MaxLag = 1
    MaxInstant = 4
SPECIFICATION Spec
INVARIANTS
    NoEarlyReset
