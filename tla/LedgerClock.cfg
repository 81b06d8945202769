SPECIFICATION FairSpec
CONSTANTS
    Anna = Anna
    Bo = Bo
    Station = Station
    NoCert = NoCert
    Parties <- MCParties
    Offers <- ClockOffers
    Requests <- NoRecords
    Charges <- ClockCharges
    Window <- MCWindow
    DebtFloor <- MCDebtFloor
    Tier2Floor = 2
    Tier3Floor = 3
    Skew = 0
    CertValidity = 1
    CertGrace = 0
    CertMaxCap = 2
    CertMaxOutstanding = 1
    MaxEvidence = 3
    MaxTime = 3
    MaxBackSteps = 1
PROPERTIES
    ConfirmedIsResolved
CHECK_DEADLOCK FALSE
