\* A scrape of /metrics/x402 beside a request that pays.
CONSTANTS
    Requests = {r1, r2}
    None = None
    MaxConcurrent = 1
    MaxRequests = 2
SPECIFICATION Spec
INVARIANTS
    SnapshotPointInTime
