----------------------------- MODULE MCWatchers -----------------------------
(***************************************************************************)
(* The scripts run these checks one after the other, each in a process of  *)
(* its own, and none reads what another writes.  So a behaviour is that of *)
(* one of them, with the others at rest.  The offshore check is extended,  *)
(* the others are instances over variables of this module.                 *)
(***************************************************************************)
EXTENDS OffshoreCheck, Sequences, TLC

CONSTANTS
    Target, Probe, Network, Watched, Prefix, Originates, Reviewed, None

VARIABLES
    job,
    queue, reported, asked, late, tracing,
    listing, snapshot, egress, escalated, vouched, watching,
    scanned, scans, covered, leased, leaseTold, failed, scanning,
    rov, rovNews, rovTold, fleet, fleetTold,
    rows, corrs, export, economies, fishbowl, lists

fleetVars == <<queue, reported, asked, late, tracing>>
probeVars == <<listing, snapshot, egress, escalated, vouched, watching>>
leasingVars == <<scanned, scans, covered, leased, leaseTold, failed, scanning>>
testVars == <<rov, rovNews, rovTold, fleet, fleetTold>>
reportVars == <<rows, corrs, export, economies, fishbowl, lists>>
mcVars == <<job, fleetVars, probeVars, leasingVars, testVars, reportVars, vars>>

Fleet == INSTANCE FleetTrace WITH run <- tracing
Ordinary == INSTANCE ProbeWatch WITH Bolo <- {}, told <- escalated, run <- watching
Wanted == INSTANCE ProbeWatch WITH Bolo <- Probe, told <- escalated, run <- watching
Leasing == INSTANCE LeasingCheck WITH
    registry <- scanned, lastFull <- scans, seen <- covered, flagged <- leased,
    told <- leaseTold, run <- scanning

Tests == INSTANCE FleetChecks WITH
    Origin <- "cf", Proxies <- {"proxy"}, Listings <- [Probe -> {"own", None}],
    Paths <- {<<>>, <<"proxy">>, <<"own", "c1">>, <<"own", "c1", "cf">>, <<"own", "c2">>},
    MaxWeeks <- 3

\* None is no value of its own: no network, and no verdict of the route test.
ASSUME NoneIsNothing == None \notin Network /\ None \notin Tests!Verdicts

\* Economies 1 to 3; 11 and 12 are networks of the first, 21 of the second, 31
\* and 32 of the third; 14 is a satellite operator, 90 a carrier from outside.
Words(asns, ordinal) == [asns |-> asns, ordinal |-> ordinal]
Hand(kind, cc, asn, tcc, tgt, msm, note) ==
    [kind |-> kind, cc |-> cc, asn |-> asn, tcc |-> tcc, tgt |-> tgt, ix |-> 90, hub |-> "syd",
     note |-> note, msm |-> msm, vp |-> 2, count |-> 7]
MCLegacy ==
    <<Hand("confirmed_detour", 1, None, 2, 21, 101, Words({90}, 1)),
      Hand("confirmed_detour", 1, None, 2, 21, 102, Words({14}, 2)),
      Hand("confirmed_local_transit", 1, 11, 3, 31, 103, Words({11}, 3)),
      Hand("candidate_peering", 1, 12, 3, 31, 104, Words({}, 1))>>
New(kind, cc, asn, tcc, tgt, ix, msm, chain, crosses) ==
    [row |-> [kind |-> kind, cc |-> cc, asn |-> asn, tcc |-> tcc, tgt |-> tgt, ix |-> ix,
              hub |-> IF ix = None THEN None ELSE "syd", note |-> None, aspa |-> FALSE, checked |-> FALSE],
     evidence |-> [msm |-> msm, vp |-> 2, count |-> None, agrees |-> FALSE, chain |-> chain, crosses |-> crosses]]
MCFact ==
    {New("confirmed_detour", 1, 11, 3, 32, 501, 105, {90}, None),
     New("candidate_peering", 1, 13, 3, 31, None, 106, {14}, 502),
     New("confirmed_detour", 2, 21, 3, 31, 501, 108, {14}, None)}
MCEntry(cc, neighbors, ixps) ==
    [cc |-> cc, neighbors |-> neighbors, ixps |-> ixps, facility |-> cc = 1, v6 |-> cc = 2, pdb |-> ixps # {}]

Report == INSTANCE Reports WITH
    Legacy <- MCLegacy, Fact <- MCFact, QUARANTINED_ASN_SET <- {32},
    HELD_FINDING_KEYS <- {<<"candidate_peering", 13, 31>>}, MaxRows <- 5, MaxCorrs <- 6,
    Triangulation <- 101 :> {[upstream |-> 90, agrees |-> TRUE], [upstream |-> None, agrees |-> TRUE]}
                     @@ 105 :> {[upstream |-> 90, agrees |-> TRUE]} @@ 108 :> {[upstream |-> 11, agrees |-> FALSE]},
    SATELLITE_OPERATORS <- {14},
    Registries <- {1 :> {11, 12} @@ 2 :> {21} @@ 3 :> {31, 32}, 1 :> {11} @@ 2 :> {21} @@ 3 :> {31, 32}},
    EntryOf <- 11 :> MCEntry(1, {12, 14}, {502}) @@ 12 :> MCEntry(1, {11}, {}) @@ 21 :> MCEntry(2, {}, {501})
               @@ 31 :> MCEntry(3, {11}, {501}) @@ 32 :> MCEntry(3, {}, {}),
    IxpRegistry <- 501 :> "out" @@ 502 :> "in" @@ 503 :> "TBA",
    AspaSnapshot <- 31 :> {11, 90} @@ 99 :> {11},
    ProbesOf <- 11 :> {1, 2} @@ 21 :> {3}, ListedOf <- 11 :> {1, 2, 4} @@ 31 :> {5},
    ProbeTags <- 1 :> "works" @@ 3 :> "doesnt-work",
    Listing <- [p \in 1..5 |-> [cc |-> 1, asn |-> IF p = 5 THEN 14 ELSE 11,
                                status |-> IF p = 4 THEN "Abandoned" ELSE "Connected"]],
    Audit <- 1 :> [registry |-> 1, live |-> 2] @@ 2 :> [registry |-> None, live |-> 3],
    PLACEMENT_REASONS <- {14}, ADVISORY_REASONS <- {}, PROBE_NOTES <- {5},
    RovSnapshot <- [economies |-> 1 :> "verdicts", probes |-> 1 :> [cc |-> 1, asns |-> {11}, diverged |-> TRUE]],
    SEED_TESTED_ECONOMY_PAIRS <- {{1, 2}}, registry <- economies

\* Two ASNs that originate one prefix in common, the other reviewed.
MCOriginates == [a \in Asn |-> IF a = 1 THEN {"p", "q"} ELSE {"q"}]
MCReviewed == {<<1, "p">>}

MCInit ==
    /\ job \in {"fleet trace", "probe watch", "BOLO watch", "offshore check", "leasing check",
               "route test", "IPv6 check", "report", "report week"}
    /\ Tests!Init /\ Init /\ Fleet!Init /\ Leasing!Init /\ Ordinary!Init
    /\ job \notin {"probe watch", "BOLO watch"} => listing = [p \in Probe |-> Ordinary!Gone]
    /\ IF job \in {"report", "report week"}
       THEN Report!Init /\ DOMAIN fishbowl = {11, 21, 31, 32}
       ELSE /\ rows = <<>> /\ corrs = <<>> /\ export = <<>>
            /\ economies = <<>> /\ fishbowl = <<>> /\ lists = None
    /\ job # "offshore check" => registry = {}
    /\ job # "leasing check" => scanned = {}

FleetNext ==
    /\ job = "fleet trace" /\ Fleet!Next
    /\ UNCHANGED <<job, probeVars, vars, leasingVars, testVars, reportVars>>

ProbeNext ==
    /\ \/ job = "probe watch" /\ Ordinary!Next
       \/ job = "BOLO watch" /\ Wanted!Next
    /\ UNCHANGED <<job, fleetVars, vars, leasingVars, testVars, reportVars>>

OffshoreNext ==
    /\ job = "offshore check" /\ Next
    /\ UNCHANGED <<job, fleetVars, probeVars, leasingVars, testVars, reportVars>>

LeasingNext ==
    /\ job = "leasing check" /\ Leasing!Next
    /\ UNCHANGED <<job, fleetVars, probeVars, vars, testVars, reportVars>>

TestNext ==
    /\ \/ job = "route test" /\ (Tests!TestRoutes \/ Tests!WriteReport \/ Tests!Die)
       \/ job = "IPv6 check" /\ Tests!CheckFleet
    /\ UNCHANGED <<job, fleetVars, probeVars, vars, leasingVars, reportVars>>

ReportNext ==
    /\ \/ job = "report"
          /\ \/ Report!Store /\ (Len(rows) >= 3 \/ Report!Import) /\ UNCHANGED <<economies, fishbowl, lists>>
             \/ export = <<>> /\ Report!Export
       \/ job = "report week" /\ Report!Week
       \/ job \in {"report", "report week"} /\ Len(rows) >= 3 /\ Report!StartReport
       \/ Report!EndReport
    /\ lists # None => Report!EndReport
    /\ UNCHANGED <<job, fleetVars, probeVars, vars, leasingVars, testVars>>

\* The last week of the bound: nothing more is modelled, nothing is stuck.
TestsEnd ==
    /\ rovNews = None /\ 3 \in {Len(rov), Len(fleet)}
    /\ UNCHANGED mcVars

MCNext == FleetNext \/ ProbeNext \/ OffshoreNext \/ LeasingNext \/ TestNext \/ TestsEnd \/ ReportNext

MCSpec == MCInit /\ [][MCNext]_mcVars

\* A fleet trace target leaves the queue only once it is reported.
LeavesQueueReported == Fleet!LeavesQueueReported

\* The probe watch's snapshot never moves past what the owner was not told of.
MovesAreEscalated ==
    [][/\ job = "probe watch" => Ordinary!MovesTold
       /\ job = "BOLO watch" => Wanted!MovesTold]_mcVars

\* A probe that owes no trace has been traced where the snapshot has it.
SettledIsTraced == Ordinary!SettledIsTraced

\* News is told once: the leasing check escalates no flag twice, and the route
\* test reports a carrier's change of filtering in the week it shows, no other.
NewsIsToldOnce == Leasing!NeverToldTwice /\ Tests!CarrierChangesAreNews

\* The report is of the record, and the record of the committed export.
ReportHolds == Report!ReportHolds

\* An ASN whose WHOIS look-up failed is up again in the leasing check's next run.
FailedIsRetried == Leasing!FailedIsRetried
=============================================================================
