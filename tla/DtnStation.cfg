SPECIFICATION Spec
CONSTANTS
    Pays = {p1, p2, p3}
    Notes = {n1}
    MaxBundle = 2
    MaxRestores = 1
    MaxCrashes = 1
    MaxBags = 1
    MaxMail = 1
    MaxErrands = 1
    MaxDamage = 1
INVARIANTS
    AnswersAreTrue
    ChangedAnswerQueuedUncut
    HonestChain
    ForksAreRecorded
ACTION_CONSTRAINTS
    OneStory
    FateLater
SYMMETRY PaySymmetry
CHECK_DEADLOCK FALSE
