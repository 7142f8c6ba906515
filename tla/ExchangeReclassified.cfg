SPECIFICATION MCSpec
CONSTANTS
  Asn = {1, 2, 3}
  EconomyOf <- MCEconomyOf
  Announcing = {1, 2, 3}
  Probe = {"p", "q"}
  HostOf <- MCHostOf
  External = {}
  Quarantined = {}
  WholesaleOnly = {}
  Siblings = {}
  Domestic = {"FJ"}
  Seeds = {}
  Listings <- MCListings
  Registries <- MCRegistries
  Neighbourhoods <- MCNeighbourhoods
  Nowhere = "nowhere"
  MaxRuns = 2
  MaxCuts = 1
  None = None
  WeekAsn = {1}
  Home <- MCHome
  Supplementary = {}
  WeekProbe = {"p"}
  Host <- MCHost
  Economy = {"A", "B"}
  Own = {"p"}
  ProtocolOf <- MCProtocolOf
  MaxPolls = 2
  Retries = 3
  MaxLag = 2
  MaxErrors = 1
  Ix = {1}
  Local = {}
  Decision = {"out"}
  Owner = {7}
  Addr = {"lan", "hop"}
  Private = {}
  LanOf <- MCLanOf
  OverrideLans = {}
  PortOf <- MCPortOf
  RouteServer = RouteServer
  PrefixOwner <- MCPrefixOwner
  OriginsOf <- MCOriginsOf
  Member <- MCMember
  Worker = {v, w}
  Traces = {{"lan"}, {"hop"}}
  Worlds <- MCWorlds
  PROBE_ASN_OVERRIDES <- MCAsnOverrides
  PROBE_ECONOMY_OVERRIDES <- MCEconomyOverrides
  AsnToCc <- MCAsnToCc
  SAME_NETWORK_ASN_GROUPS = {{31, 15}}
  Network = {11, 12, 14, 21, 31}
  Outset <- MCOutset
  PrefixesOf <- MCPrefixesOf
  PROBE_COUNT = 2
  MAX_TARGET_IP_ATTEMPTS = 2
  HopAddr = {"be1", "be2", "solo", "near", "in2", "in3"}
  NotGlobal = {"near"}
  ProbeOf <- MCProbeOf
  ScopeEconomy <- MCScopeEconomy
  ProbeNetwork <- MCProbeNetwork
  Target <- MCTarget
  Hops <- MCHops
  NetworkCache <- MCNetworkCache
  Overrides <- MCOverrides
  Table <- MCTable
  DeviceOf <- MCDeviceOf
  Zones <- MCZones
  Fishbowls <- MCFishbowls
  MIN_PAIR_TRACES = 2
  MIN_SOURCE_ECONOMIES = 1
  MIN_TARGET_ECONOMIES = 2
INVARIANT ClassifiedIsUsed
CHECK_DEADLOCK FALSE
