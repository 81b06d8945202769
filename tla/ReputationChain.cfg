SPECIFICATION AnchorSpec
CONSTANTS
    r1 = r1  r2 = r2  r3 = r3  a = a  b = b  m = m  x = x
    People = {r1, r2, r3, a, b, m, x}
    FounderSet = {r1, r2, r3}
    Trades <- MCTrades
    StartLogs <- MCStartLogs
    Suspects = {}
    Increment = 2
    DimensionMax = 4
    DecayRate = 1
    WindowWeeks = 1
    WeightTrade = 1
    WeightAttestation = 1
    AnchorCap = 1
    MemberMin = 3
    GraceThreshold = 1
    RepSkew = 1
    LastWeek = 2
    MaxEntries = 24
INVARIANTS
    AnchorTravels
CHECK_DEADLOCK FALSE
