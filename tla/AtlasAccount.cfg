SPECIFICATION MCSpec
CONSTANTS
    w1 = w1  w2 = w2  w3 = w3
    f1 = f1  f2 = f2  f3 = f3  f4 = f4
    Finding = {f1, f2, f3, f4}
    Filed = {f1, f2, f3}
    Quarantined = {f4}
    Stuck = {f1}
    Part = 2
    NoDataRequired = 2
    Worker = {w1, w2, w3}
    Pings = 3  Overlap = FALSE
    Cap = 10
    Margin = 2
    MaxPolls = 2
    MaxRetries = 1
INVARIANTS
    NeverRefused
PROPERTIES
    EveryoneFires
    RetestedOnceANight
    EveryFindingLookedAt
