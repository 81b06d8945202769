SPECIFICATION Spec
CONSTANTS
    f1 = f1  f2 = f2  m3 = m3  c1 = c1  c2 = c2  c3 = c3
    a1 = a1  a2 = a2  s1 = s1  x1 = x1  d1 = d1  d2 = d2  d3 = d3
    j1 = j1  j2 = j2  j3 = j3  j4 = j4  i1 = i1  b1 = b1
    Charters = {c1, c2, c3}
    Genesis = c1
    Amends <- MCAmends
    CharterTerms <- MCCharterTerms
    Motions = {a1, a2, s1, x1}
    MotionOf <- MCMotionOf
    Standings <- MCStandings
    GraceBelow = 2
    CosignBar = 1
    MeasureGrace = 1
    UndeclaredGrace = 1
    CrisisSpans = {2}
    LastDay = 3
    MaxTurns = 1
    BallotChoices = {"yes", "no"}
    Electorates <- MCElectorates
    Declarations = {d1, d2, d3}
    DeclaredBy <- MCDeclaredBy
    Requested <- MCRequested
    DurationFloor = 1
    DurationCeiling = 2
    DeclarationPct = 67
    DeclarationTtl = 1
    ChainMax = 3
    Cooldown = 2
    MaxRenewals = 1
    MaxInstant = 4
    MaxRecords = 7
    MaxEvidence = 1
    PanelSize = 3
    JurorResponse = 1
    Draws <- MCDraws
    Voters = {f1}
    DisputeWindow = 2
    AppealWindow = 1
    EscalationWindow = 1
    EscalationQuorum = 60
    EscalationApproval = 50
    LastInstant = 3
    MaxClockTurns = 1
    MaxRedraws = 1
    EqDraws <- MCEqDraws
    EqWindow = 1
    EqLastInstant = 2
    EqMaxTurns = 1
    EqMaxRounds = 2
    EqMaxRedraws = 1
    NoOffer = NoOffer
    Inquiries = {i1}
    Buyer <- MCBuyer
    Payments = {1, 2}
    Prices = {1, 2}
    Stocks = {1, 2}
    Offers <- MCOffers
    Notes = {1}
    Stamps = {0}
    InquiryTtl = 0
    Periods = 3
    Notice = 0
    ChargesPerSweep = 1
    MarketLastDay = 2
    MaxItems = 2
    p1 = p1  p2 = p2  p3 = p3  p4 = p4  p5 = p5
    People = {p1, p2, p3, p4, p5}
    FounderSet = {p1, p4}
    Trades <- MCTrades
    StartLogs <- MCRepLogs
    Suspects = {p2}
    Increment = 3
    DimensionMax = 4
    DecayRate = 1
    WindowWeeks = 1
    WeightTrade = 1
    WeightAttestation = 1
    AnchorCap = 1
    MemberMin = 4
    GraceThreshold = 1
    RepSkew = 1
    LastWeek = 2
    MaxEntries = 14
INVARIANTS ContractIsSelfContained
CHECK_DEADLOCK FALSE
