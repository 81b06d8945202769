SPECIFICATION StandingSpec
CONSTANTS
    p1 = p1  p2 = p2  p3 = p3  p4 = p4  p5 = p5
    People = {p1, p2, p3, p4, p5}
    FounderSet = {p1, p4}
    Trades <- MCTrades
    StartLogs <- MCStartLogs
    Suspects = {p2}
    Increment = 3
    DimensionMax = 4
    DecayRate = 1
    WindowWeeks = 1
    WeightTrade = 1
    WeightAttestation = 1
    AnchorCap = 1
    MemberMin = 4
    GraceThreshold = 1
    RepSkew = 1
    LastWeek = 2
    MaxEntries = 14
INVARIANTS
    BundleIsTheProfile
CHECK_DEADLOCK FALSE
