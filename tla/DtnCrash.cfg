SPECIFICATION Spec
CONSTANTS
    Pays = {}
    Notes = {n1}
    MaxBundle = 1
    MaxRestores = 0
    MaxCrashes = 1
    MaxBags = 0
    MaxMail = 1
    MaxErrands = 1
    MaxDamage = 0
INVARIANTS
    ChangedAnswerIsQueued
CHECK_DEADLOCK FALSE
