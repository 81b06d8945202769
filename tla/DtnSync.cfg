SPECIFICATION FairSpec
CONSTANTS
    Pays = {p1}
    Notes = {n1}
    MaxBundle = 2
    MaxRestores = 0
    MaxCrashes = 0
    MaxBags = 1
    MaxMail = 0
    MaxErrands = 0
    MaxDamage = 0
PROPERTIES
    EventuallyAnswered
CHECK_DEADLOCK FALSE
