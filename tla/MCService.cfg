\* Three connections, four requests, two permits.
CONSTANTS
    Requests = {r1, r2, r3}
    None = None
    MaxConcurrent = 2
    MaxRequests = 4
SYMMETRY Symmetry
SPECIFICATION Spec
INVARIANTS
    SlotsConserved
    CountsExact
    MetricsOrdered
