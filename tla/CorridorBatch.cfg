SPECIFICATION Spec
CONSTANTS
    a = a  b = b  t = t
    f1 = f1  f2 = f2
    w1 = w1  w2 = w2
    m1 = m1  m2 = m2  m3 = m3
    Network = {a, b, t}
    Backlog <- MCBacklog
    Finding = {f1, f2}
    RetestPair <- MCRetestPair
    Worker = {w1, w2}
    Main = Main
    Mid = {m1, m2}
    MaxAttempts = 2
    MaxTargetIps = 2
    MaxCrash = 1
    Fresh = Fresh
    NoJob = NoJob
    NoMid = NoMid
    NoEntry = NoEntry
SYMMETRY Symmetry
INVARIANTS
    TypeOK
    OneJobPerSource
    FiledAtMostOnce
    NothingMislaid
    RetestOnce
PROPERTIES
    FreshPickedOncePerRun
    LedgerKept
