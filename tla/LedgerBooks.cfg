SPECIFICATION Spec
CONSTANTS
    Anna = Anna
    Bo = Bo
    Station = Station
    NoCert = NoCert
    Parties <- MCParties
    Offers <- BookOffers
    Requests <- EscrowRequests
    Charges <- CreditCharges
    Window <- MCWindow
    DebtFloor <- EscrowDebtFloor
    Tier2Floor = 2
    Tier3Floor = 4
    Skew = 1
    CertValidity = 0
    CertGrace = 0
    CertMaxCap = 3
    CertMaxOutstanding = 1
    MaxEvidence = 3
    MaxTime = 3
    MaxBackSteps = 0
INVARIANTS
    FloorRespected
    CertSpendsWithinCap
    NoReplay
    OverspendsAreProven
PROPERTIES
    ImplementsCreditLine
VIEW MonotoneView
ACTION_CONSTRAINT OneBook
CHECK_DEADLOCK FALSE
