SPECIFICATION Spec
CONSTANTS
    e1 = e1  e2 = e2  e3 = e3  b1 = b1  b2 = b2  h1 = h1  h2 = h2  h3 = h3  t1 = t1  p1 = p1  s1 = s1
    g1 = g1  g2 = g2
    LogEntries = {e1, e2, e3}
    Unverifiable = {e3}
    Size <- MCSize
    PageBytes = 2
    PageEntries = 2
    PagesPerRound = 1
    MaxWriterRestores = 1
    MaxReplicaStops = 1
    MaxPeerFaults = 1
    Pushes = {b1, b2}
    Unframeable = {b2}
    ChunkCount <- MCChunkCount
    PushClass <- MCPushClass
    QueueCap <- MCQueueCap
    RecentCap = 1
    MaxInflight = 1
    MaxMishaps = 1
    MaxAir = 1
    Burst = 3
    Rate = 1
    Caps <- MCCaps
    FrameSizes = {1, 3, 4}
    MaxClock = 2
    MaxSetBacks = 1
    MaxOffers = 2
    Tries = {1, 2}
    MaxSessions = 2
    PairSkew = 1
    PendingTtl = 1
    MaxRequests = 1
    MaxLog = 3
    LastTick = 1
    MaxFaults = 1
    Holders = {h1, h2, h3}
    HolderSets = {{h1, h2}, {h1, h2, h3}}
    Thresholds = {2, 3}
    MaxKeys = 2
    MaxSplits = 2
    MaxEntries = 2
    MaxStops = 2
    Amounts = {1, 2}
    Cap = 2
    CertExpires = 0
    DeliveryGrace = 1
    SpendSkew = 0
    ProposalTtl = 0
    MaxItems = 2
    ShopDrift = 1
    MaxSigned = 3
    LastHour = 1
    MaxTears = 1
    Timers = {t1}
    Phones = {p1}
    Sockets = {s1}
    MaxCalls = 3
    Goods = {g1, g2}
    Relevance <- MCRelevance
    AskedPrices = {1, 2}
    Expiries = {1, 9}
    Units = {1, 2}
    LastMoment = 2
    MaxSales = 1
    MaxMisses = 1
INVARIANTS PulledIsHeld NoPhantoms NeverStranded BudgetKept DispatchedOnce CursorCoversEvents
    HolderIsNotConvicted AcceptedIsHonoured SweepsAreNotCut NobodyWaitsInVain BrowseIsTheLog
PROPERTIES ReplicaCatchesUp RowsSettleOnce LedgerOutlivesStops
CHECK_DEADLOCK FALSE
