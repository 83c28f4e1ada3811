\* One small instance of each part; the bounds are discussed in README.md.
CONSTANTS
    Networks = {n1, n2}
    Hashes = {h1}
    Accounts = {a1, a2}
    Amounts = {1}
    Spellings = {"lower", "ascii_upper"}
    NoHash = NoHash
    NoRecord = NoRecord
    RequestedRecords = 1
    LeastRecords = 3
    MaxVolume = 1
    Targets = 2
    MaxDeliveryRetries = 1
    QueueSizes = {0, 1, 3}
    MaxDeliveries = 6
    WindowKeys = {w1, w2}
    Limits = {0, 1, 2}
    Window = 2
    Epochs = {0, 2}
    WindowHorizon = 5
    NoVerdict = NoVerdict
    Signatures = {s1, s2}
    Verdicts = {TRUE, FALSE}
    CustomTtls = {0, 1}
    DefaultTtl = 2
    CacheHorizon = 4
    NoEntry = NoEntry
    RetryLimits = {0, 1, 4}
    InitialBackoffs = {0, 1, 3}
    MaxBackoff = 7
    MaxFactor = 4
    MaxDuration = 10
    ProbeNetworks = {"net1", "net2"}
    AnyNetwork = "any"
    PathSegments = {"v1", "a", ".."}
    MaxSegments = 2
    HeaderNames = {"connection", "x-payment", "authorization", "x-local"}
    AuthHeader = "authorization"
    Hosts = {"h1", "h2"}
    Ports = {80, 81}
    MAX_REDIRECTS = 3
    MAX_BODY = 2
    Chunk = 3
    Sites = {p1, p2}
    NoOrigin = NoOrigin
    Star = Star
    Nothing = Nothing
    Width = 2
    MappedBits = 2
    MaxProxies = 2
    Garbage = Garbage
    Unreadable = Unreadable
    Error = Error
    IpWidth = 2
    MaxRules = 3
    MaxSeconds = 4
    Drifts = {0, 2}
    Minimums = {0, 1, 2}
    Unread = Unread
    Alphabet = {"0", "7", ".", "$", " ", "-"}
    MaxLength = 4
    MainnetDecimals = 1
    TestnetDecimals = 2
    Blank = Blank
    Unparsable = Unparsable
    Illegible = Illegible
    Off = Off
SPECIFICATION PartsSpec
INVARIANTS
    LookupsAgree
    DeliveriesAccounted
    WindowQuota
    
    AnswersCurrent
    CallHonest
    UpstreamHears
    ChargedForWhole
    CachedAnswersFit
    NotFooled
    DenialsHold
    PricedExactly
    StartedSafely
PROPERTIES
    ConfirmationImmutable
    LeavesForCause
    WindowRespected
