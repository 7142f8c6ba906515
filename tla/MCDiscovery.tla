----------------------------- MODULE MCDiscovery -----------------------------
(***************************************************************************)
(* What a corridor is chosen from and read with: the weekly pipeline, the  *)
(* backlog, the Atlas client, and the addresses of a trace.  Their files   *)
(* are different ones, and what one of them takes from another is an input *)
(* of its own module.  So a behaviour is that of one of them, with the     *)
(* others at rest.  The backlog is extended, the others are instances.     *)
(***************************************************************************)
EXTENDS Backlog, TLC

CONSTANTS
    None,
    \* Of the pipeline, what is not the backlog's as well.
    WeekAsn, Home, Supplementary, WeekProbe, Host, Economy,
    \* Of the Atlas client.
    Own, ProtocolOf, MaxPolls, Retries, MaxLag, MaxErrors,
    \* Of the exchanges and the addresses in traces.
    Ix, Local, Decision, Owner, Addr, Private, LanOf, OverrideLans, PortOf, RouteServer,
    PrefixOwner, OriginsOf, Member, Worker, Traces,
    \* Of a retest.
    Worlds, PROBE_ASN_OVERRIDES, PROBE_ECONOMY_OVERRIDES, AsnToCc, SAME_NETWORK_ASN_GROUPS,
    Network, Outset, PrefixesOf, PROBE_COUNT, MAX_TARGET_IP_ATTEMPTS,
    \* Of the convergence report.
    HopAddr, NotGlobal, ProbeOf, ScopeEconomy, ProbeNetwork, Target, Hops, NetworkCache, Overrides,
    Table, DeviceOf, Zones, Fishbowls, MIN_PAIR_TRACES, MIN_SOURCE_ECONOMIES, MIN_TARGET_ECONOMIES

\* The supplements are networks APNIC could have; a measurement that has ended
\* is indexed, and its requests fail, within the retries; hops are addresses.
ASSUME DiscoveryAssumption ==
    /\ Supplementary \subseteq WeekAsn
    /\ MaxLag \in Nat \ {0} /\ MaxErrors \in Nat /\ Retries \in Nat
    /\ MaxLag + MaxErrors <= Retries
    /\ Traces \subseteq SUBSET Addr

\* A probe has a country, an ASN and a status, and never leaves Atlas; findings
\* and overrides are of the region, and nothing is called None but what is not there.
ASSUME RetestAssumption ==
    /\ \A w \in Worlds :
         /\ \A x \in Worlds : DOMAIN x = DOMAIN w
         /\ \A o \in Outset : o.latest.probes \subseteq DOMAIN w
         /\ \A p \in DOMAIN w : /\ w[p] = [cc |-> w[p].cc, asn |-> w[p].asn, connected |-> w[p].connected]
                                /\ w[p].asn \in Network
    /\ \A p \in DOMAIN PROBE_ASN_OVERRIDES : PROBE_ASN_OVERRIDES[p] \in Network
    /\ \A p \in DOMAIN PROBE_ECONOMY_OVERRIDES : PROBE_ECONOMY_OVERRIDES[p] \in Economy
    /\ \A o \in Outset : o.latest.cc \in Economy
    /\ None \notin Economy /\ None \notin Network
    /\ \A cc \in Economy, asn \in Network : [cc |-> cc, asn |-> asn] # None

\* Finitely many addresses and neighbors; every host name has a device or none,
\* which is not called like an address.
ASSUME ConvergenceAssumption ==
    /\ IsFiniteSet(HopAddr)
    /\ \A t \in DOMAIN ProbeOf : UNION {Hops[t][i] : i \in DOMAIN Hops[t]} \subseteq HopAddr
    /\ Zones \subseteq [HopAddr -> DOMAIN DeviceOf \cup {None}]
    /\ \A n \in DOMAIN DeviceOf : DeviceOf[n] \notin HopAddr
    /\ \A f \in Fishbowls : \A a \in DOMAIN ScopeEconomy : IsFiniteSet(DOMAIN f[a])
    /\ IsFiniteSet(DOMAIN ScopeEconomy)

VARIABLES
    job,
    excluded, scope, rawPaths, rawV6, pdbCache,
    fishbowl, leads, probes, quarantine, step, results, cut, ris, judged,
    status, reported, readable, at, asked, seen, polls, attempt, errors, got,
    raw, parsed, blame,
    lans, held, said, cache, loaded, overlap, handed,
    traces, dns, ptrCache, neighbors, names, report, weeks,
    finding, atlas, probeListing, probeRegistry, latest, still

pipelineVars == <<excluded, scope, rawPaths, rawV6,
                  pdbCache, fishbowl, leads, probes, quarantine, step, results,
                  cut, ris, judged>>
clientVars == <<status, reported, readable, at, asked, seen, polls, attempt, errors,
                got, raw, parsed, blame>>
addressVars == <<lans, held, said, cache, loaded, overlap, handed>>
convergenceVars == <<traces, dns, ptrCache, neighbors, names, report, weeks>>
retestVars == <<finding, atlas, probeListing, probeRegistry, latest, still>>
mcVars == <<job, vars, pipelineVars, clientVars, addressVars, convergenceVars, retestVars>>

\* One probe's country, and another one's.
MCEconomyOf == 1 :> "PG" @@ 2 :> "FJ" @@ 3 :> "FJ"
MCHostOf == "p" :> 1 @@ "q" :> 2
MCListings == {"p" :> "PG" @@ "q" :> "FJ", "p" :> Nowhere @@ "q" :> "PG"}
MCRegistries == {Probe}
MCNeighbourhoods == {1 :> {2} @@ 2 :> {1} @@ 3 :> {}}

\* One ASN, and one probe in its economy or in another.
MCHome == 1 :> "A"
MCHost == "p" :> 1
Week == INSTANCE Pipeline WITH Asn <- WeekAsn, Probe <- WeekProbe, registry <- scope

\* A corridor with one connected probe of its own, and another probe elsewhere.
MCProtocolOf == "p" :> "ICMP" @@ "q" :> "UDP"
Client == INSTANCE AtlasClient

\* An address in the LAN of a foreign exchange, and one with a single owner.
MCLanOf == "lan" :> 1 @@ "hop" :> None
MCPortOf == "hop" :> 7
MCPrefixOwner == [a \in {} |-> 7]
MCOriginsOf == "lan" :> {} @@ "hop" :> {7}
MCMember == "lan" :> None @@ "hop" :> None
Addresses == INSTANCE IpCache WITH Asn <- Owner, Origins <- OriginsOf, registry <- lans

\* Two interfaces of one router of network 8, a third address on its own; a
\* network with one way out, through another, and ones with several or none.
Only(n) == n :> 9
MCFishbowls == {(1 :> x) @@ (2 :> y) @@ (3 :> z) :
                x \in {<<>>, Only(8), Only(2)}, y \in {Only(8), 8 :> 99 @@ 9 :> 1, 8 :> 9 @@ 9 :> 9, Only(1)},
                z \in {Only(9)}}
Ordinarily == (1 :> <<>>) @@ (2 :> Only(8)) @@ (3 :> Only(9))
MCProbeOf == <<"p", "p", "q", "o">>
MCScopeEconomy == <<"A", "B", "B">>
MCProbeNetwork == "p" :> [cc |-> "A", asn |-> 1] @@ "q" :> [cc |-> "A", asn |-> None] @@ "o" :> None
MCTarget == <<"in2", "in2", "in3", "in2">>
MCHops == <<<<{"near"}, {"be1"}, {"in2"}>>, <<{"be2", "solo"}>>, <<{"be1"}, {"be2"}>>, <<{"solo"}>>>>
MCNetworkCache == "in2" :> 2 @@ "be1" :> 8
MCOverrides == "in3" :> 3
MCTable == <<[covers |-> {"be2", "solo"}, plen |-> 22, asn |-> 8], [covers |-> {"solo"}, plen |-> 24, asn |-> 9]>>
MCDeviceOf == "be1.r" :> "r" @@ "be2.r" :> "r" @@ "solo.static" :> None @@ "unknown" :> "unknown"
Named(named) == [a \in HopAddr |-> IF a \in DOMAIN named THEN named[a] ELSE None]
MCZones == {Named("be1" :> "be1.r" @@ "be2" :> "be2.r" @@ "solo" :> x) : x \in {None, "be1.r", "solo.static"}}
           \cup {Named([a \in {"be1", "be2", "solo"} |-> "unknown"])}
Convergence == INSTANCE Convergence WITH
    Addr <- HopAddr, Local <- NotGlobal, Economy <- ScopeEconomy, Network <- ProbeNetwork,
    IpCache <- NetworkCache, Names <- Zones

\* Three networks of A, three of B, the target's among them.  Probe 1 is at A by
\* rights, 2 is not on the network Atlas has it on, 4 stands in B though Atlas
\* has it elsewhere.
Placed(cc, asn, connected) == [cc |-> cc, asn |-> asn, connected |-> connected]
Ordinary == <<Placed("A", 11, TRUE), Placed("A", 14, TRUE), Placed("B", 31, TRUE), Placed("US", 21, TRUE)>>
MCWorlds == {Ordinary, [Ordinary EXCEPT ![1] = Placed("B", 11, TRUE)],
             [Ordinary EXCEPT ![1] = Placed("US", 11, TRUE)],
             [Ordinary EXCEPT ![1].connected = FALSE, ![4].connected = FALSE],
             [Ordinary EXCEPT ![2] = Placed("B", 14, TRUE), ![3].connected = FALSE],
             [Ordinary EXCEPT ![1].asn = 31, ![3] = Placed("A", 31, TRUE)]}
Filed(cc, asn, probed, target) == [cc |-> cc, asn |-> asn, probes |-> probed, target |-> target]
\* A finding on a network of the region, and one on a carrier that left it.
OfTheRegion == [cc |-> "A", asn |-> 11, target |-> 31]
OfACarrier == [cc |-> "A", asn |-> None, target |-> 99]
MCOutset == {[finding |-> OfTheRegion, latest |-> l] :
                l \in {Filed("A", None, {}, None), Filed("B", None, {1}, "t"), Filed("A", 31, {2, 3}, "t")}}
            \cup {[finding |-> OfACarrier, latest |-> Filed("A", None, {1, 2}, "far")]}
MCPrefixesOf == [target \in {31, 99} |->
                   <<[first |-> "out", excluded |-> TRUE], [first |-> "t", excluded |-> FALSE],
                     [first |-> "t", excluded |-> FALSE], [first |-> "u", excluded |-> FALSE]>>]
MCAsnToCc == 11 :> "A" @@ 12 :> "A" @@ 14 :> "A" @@ 15 :> "B" @@ 21 :> "B" @@ 31 :> "B"
MCAsnOverrides == 2 :> 12
MCEconomyOverrides == 4 :> "B"
Again == INSTANCE Retest

MCInit ==
    /\ job \in {"pipeline", "backlog", "client", "addresses", "convergence", "retest"}
    /\ Init /\ Week!Init /\ Client!Init /\ Addresses!Init /\ Convergence!Init /\ Again!Init
    /\ job # "retest" => atlas = Ordinary /\ latest.cc = "B"
    /\ job # "backlog" => listing["p"] = Nowhere
    /\ job # "convergence" => neighbors = Ordinarily /\ dns["solo"] = None
    /\ dns["solo"] # None => neighbors = Ordinarily

WeekNext ==
    /\ job = "pipeline" /\ Week!Next
    /\ UNCHANGED <<job, vars, clientVars, addressVars, convergenceVars, retestVars>>

BacklogNext ==
    /\ job = "backlog" /\ Next
    /\ UNCHANGED <<job, pipelineVars, clientVars, addressVars, convergenceVars, retestVars>>

ClientNext ==
    /\ job = "client" /\ Client!Next
    /\ UNCHANGED <<job, vars, pipelineVars, addressVars, convergenceVars, retestVars>>

\* Two at a time: of the analyses and the operations on the registry.
AtOnce == 2
AddressNext ==
    /\ job = "addresses" /\ Addresses!Next
    /\ Cardinality(DOMAIN held') + Cardinality({w \in Worker : Addresses!Busy(w)'}) <= AtOnce
    /\ UNCHANGED <<job, vars, pipelineVars, clientVars, convergenceVars, retestVars>>

\* Lookups fail, or neighbors vary, not both: names and verdicts do not meet.
ConvergenceNext ==
    /\ job = "convergence" /\ Convergence!Next
    /\ neighbors # Ordinarily /\ names' # None => names'.failed = {}
    /\ UNCHANGED <<job, vars, pipelineVars, clientVars, addressVars, retestVars>>

RetestNext ==
    /\ job = "retest" /\ Again!Next
    /\ UNCHANGED <<job, vars, pipelineVars, clientVars, addressVars, convergenceVars>>

MCNext == WeekNext \/ BacklogNext \/ ClientNext \/ AddressNext \/ ConvergenceNext \/ RetestNext

MCSpec == MCInit /\ [][MCNext]_mcVars

\* A week's files hang together when the steps they are from succeeded.
RunHangsTogether == Week!RunHangsTogether

\* A source of the pipeline that fails takes nothing away that was known.
KnownIsKept == Week!KnownIsKept

\* A measurement cached as empty has brought nothing.
EmptyIsGenuine == Client!EmptyIsGenuine

\* An exchange's LAN and decision survive whatever PeeringDB answers, and nobody
\* but the owner decides that an exchange is in or out of the region.
RegistryIsTheOwners == []Addresses!OnlyTheOwnerDecides /\ Addresses!RecognisedStays

\* A finding is measured again from where its probes are, and not from its target.
RetestsSettle == job = "retest" => Again!RetestsSettle

\* Two analyses at once cost cached answers only where they overlap.
LostOnlyByOverlap == Addresses!LostOnlyByOverlap

\* A router stays one whatever lookup fails, and is called a dependency only
\* where BGP has no way around it.
ConvergenceHolds == Convergence!FailureSplitsNothing /\ Convergence!DependencyHasNoWayAround

\* An exchange is graded as the registry has it.
ClassifiedIsUsed == Addresses!ClassifiedIsUsed
=============================================================================
