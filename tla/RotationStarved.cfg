SPECIFICATION FairSpec
CONSTANTS
    f1 = f1  f2 = f2  f3 = f3  f4 = f4
    Finding = {f1, f2, f3, f4}
    Filed = {f1, f2, f3}
    Quarantined = {f4}
    Stuck = {f1, f2}
    Part = 2
    NoDataRequired = 2
PROPERTY EveryFindingLookedAt
