SPECIFICATION Spec
CONSTANTS
    Pays = {p1, p2, p3}
    Notes = {}
    MaxBundle = 1
    MaxRestores = 1
    MaxCrashes = 0
    MaxBags = 1
    MaxMail = 0
    MaxErrands = 0
    MaxDamage = 0
INVARIANTS
    NoSelfFork
SYMMETRY PaySymmetry
CHECK_DEADLOCK FALSE
