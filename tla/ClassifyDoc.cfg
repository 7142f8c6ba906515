SPECIFICATION MCSpec
CONSTANTS
    u1 = u1  u2 = u2  x = x  tgt = tgt
    c1 = c1  c2 = c2  sfo = sfo  syd = syd
    Asn = {u1, u2, x, tgt}
    Network = {u1, u2, x, tgt}
    Fishbowl = {u1, u2, tgt}
    City = {sfo, syd}
    Unmapped = Unmapped
    None = None  NULL = None
    Economy = {c1, c2}
    EconomyOf <- MCEconomyOf
    Target <- MCTarget
    Traces <- MCTraces
    Addr = {1, 2, 3, 4, 5, 6, 7, 8, 9}
    Resolution <- MCResolution
    IxCity <- MCIxCity
    Global = {2, 3, 4, 5, 6, 7, 8, 9}
    LocatedIn <- MCLocatedIn
    KnownLoops = {3}
    Proxies = {}
    RisPaths <- MCRisPaths
    TargetAsn = tgt
    TargetAddr = 8
    HubFloor <- MCHubFloor
    ViaFloor <- MCViaFloor
    LOCAL_IXP_LATENCY_THRESHOLD_MS = 2
    TTL_EXCESS_THRESHOLD = 5
    Raws <- MCRaws
    MaxRuns = 1  MaxFailures = 1
INVARIANTS
    ExternalUpstreamEscalates
CHECK_DEADLOCK FALSE
