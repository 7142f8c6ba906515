----------------------------- MODULE FleetChecks -----------------------------
(***************************************************************************)
(* The weekly tests of the probe fleet: whether a probe's carrier filters  *)
(* routes that RPKI calls invalid (atlas/rov_cloudflare.py), and what it   *)
(* reaches over IPv6 (atlas/ipv6_fleet.py).  Each fires traces to well     *)
(* known targets, adds a snapshot to its history and then writes a report  *)
(* of what has changed.  One address family of the first is modelled.      *)
(***************************************************************************)
EXTENDS Naturals, Sequences, FiniteSets, SequencesExt

CONSTANTS
    Probe, None,
    Origin,             \* of the targets of the route test
    Proxies,            \* KNOWN_PROXY_ASNS
    Listings,           \* of probes: each one's ASN, or None if it is not connected
    Paths,              \* AS paths a trace can show
    MaxWeeks

Role == {"valid", "invalid"}
Service == {"cloudflare", "google"}
Answer == {"created", "capped", "refused"}

VARIABLES
    rov,                \* rov_cloudflare_history.jsonl, newest first
    rovNews,            \* changes not yet in the report, or None
    rovTold,            \* rov_cloudflare.txt: the changes it lists
    fleet,              \* ipv6_fleet_history.jsonl, newest first
    fleetTold           \* ipv6_fleet.txt

rovVars == <<rov, rovNews, rovTold>>
fleetVars == <<fleet, fleetTold>>
vars == <<rovVars, fleetVars>>

\* summarize_anchor_trace and as_path: all that is used of a trace.
Trace == [reached : BOOLEAN, path : Paths]

probes_for_af(listing) == {p \in Probe : listing[p] # None}

\* A service is tried at its second address only if too many measurements
\* run to the first; refused, it is left out.
Fired(answers) ==
    {s \in DOMAIN answers : \/ answers[s].primary = "created"
                            \/ answers[s].primary = "capped" /\ answers[s].fallback = "created"}
FiredOf(S) == {Fired(answers) : answers \in [S -> [primary : Answer, fallback : Answer]]}
-----------------------------------------------------------------------------
exit_asn(path, own) ==
    LET others == SelectSeq(path, LAMBDA a : a # own) IN IF others = <<>> THEN None ELSE others[1]

\* Where the two paths part.
path_divergence(v, i) ==
    LET k == Len(LongestCommonPrefix({v, i})) + 1 IN
    IF k > Len(v) \/ k > Len(i) THEN None
    ELSE [after |-> IF k = 1 THEN None ELSE v[k - 1], valid |-> v[k], invalid |-> i[k]]

Verdict(label, drop, exit, diverged) ==
    [label |-> label, drop |-> drop, exit |-> exit, diverged |-> diverged]

classify_probe(valid, invalid, own) ==
    IF None \in {valid, invalid} THEN Verdict("inconclusive", None, None, None)
    ELSE
    LET path == IF valid.path # <<>> THEN valid.path ELSE invalid.path
        exit == exit_asn(path, own)
        diverged == path_divergence(valid.path, invalid.path)
        last == IF invalid.path = <<>> THEN None ELSE Last(invalid.path)
    IN  IF path # <<>> /\ path[1] \in Proxies THEN Verdict("inconclusive", None, exit, None)
        ELSE IF invalid.reached \/ last = Origin THEN Verdict("not_filtered", None, exit, diverged)
        ELSE IF ~valid.reached THEN Verdict("inconclusive", None, exit, diverged)
        ELSE Verdict("filtered", last, exit, diverged)

\* classify_measurements and build_snapshot.
Snapshot(listing, traces, fired) ==
    [p \in probes_for_af(listing) |->
        LET Of(role) == IF role \in fired THEN traces[p][role] ELSE None
        IN classify_probe(Of("valid"), Of("invalid"), listing[p])]

Conclusive(snap, p) == p \in DOMAIN snap /\ snap[p].label # "inconclusive"

\* Mutant of Baseline: last week's verdict, whatever the carrier.
BaselineLastWeek(weeks, p, now) ==
    IF Conclusive(weeks[1], p) THEN weeks[1][p] ELSE None

\* The newest verdict by the same carrier; last week's if either exit is not
\* known.
Baseline(weeks, p, now) ==
    IF now.exit = None \/ (p \in DOMAIN weeks[1] /\ weeks[1][p].exit = None)
      THEN IF Conclusive(weeks[1], p) THEN weeks[1][p] ELSE None
    ELSE LET same == {k \in DOMAIN weeks :
                         Conclusive(weeks[k], p) /\ weeks[k][p].exit = now.exit}
         IN IF same = {} THEN None ELSE weeks[CHOOSE k \in same : \A j \in same : k <= j][p]

Differs(was, now) ==
    was.label # now.label \/ (now.label = "filtered" /\ was.drop # now.drop)

diff_snapshots(weeks, snap) ==
    {p \in DOMAIN snap :
        /\ weeks # <<>> /\ Conclusive(snap, p)
        /\ LET was == Baseline(weeks, p, snap[p]) IN was # None /\ Differs(was, snap[p])}

\* run_weekly_test, when every target is in its RPKI state; otherwise it
\* fires nothing.  A trace may be missing for every probe or for one.
RunTest(listing, traces, fired) ==
    /\ rovNews = None /\ Len(rov) < MaxWeeks
    /\ LET snap == Snapshot(listing, traces, fired) IN
        /\ rov' = <<snap>> \o rov
        /\ rovNews' = diff_snapshots(rov, snap)
    /\ UNCHANGED <<rovTold, fleetVars>>

WriteReport ==
    /\ rovNews # None
    /\ rovTold' = rovNews /\ rovNews' = None
    /\ UNCHANGED <<rov, fleetVars>>

\* The history has the week, the report is the one before.
Die ==
    /\ rovNews # None
    /\ rovNews' = None
    /\ UNCHANGED <<rov, rovTold, fleetVars>>
-----------------------------------------------------------------------------
\* measured_access and per_anchor_results: traces[p][s] says whether probe p
\* reached service s, None if there is no result.
Anchors(traces, p, fired) == {s \in fired : traces[p][s] # None}
Access(traces, p, fired) ==
    IF fired = {} THEN "not_measured"
    ELSE IF Anchors(traces, p, fired) = {} THEN "no_result"
    ELSE IF \E s \in Anchors(traces, p, fired) : traces[p][s] THEN "reached" ELSE "no_reach"

FleetSnapshot(listing, works, traces, fired) ==
    [p \in probes_for_af(listing) |->
        [access |-> Access(traces, p, fired),
         anchors |-> [s \in Anchors(traces, p, fired) |-> traces[p][s]],
         works |-> p \in works]]

\* What differs of a probe of both weeks; access only if it was measured in both.
Differing(b, a) ==
    {s \in DOMAIN a.anchors \cap DOMAIN b.anchors : a.anchors[s] # b.anchors[s]}
    \cup {x \in {"access"} : a.access # b.access /\ "not_measured" \notin {a.access, b.access}}
    \cup {x \in {"works"} : a.works # b.works}

FleetChanges(before, after) ==
    {<<p, "gained">> : p \in DOMAIN after \ DOMAIN before} \cup
    {<<p, "lost">> : p \in DOMAIN before \ DOMAIN after} \cup
    UNION {{<<p, x>> : x \in Differing(before[p], after[p])} :
             p \in DOMAIN before \cap DOMAIN after}

RunCheck(listing, works, traces, fired) ==
    /\ Len(fleet) < MaxWeeks
    /\ LET snap == FleetSnapshot(listing, works, traces, fired) IN
        /\ fleet' = <<snap>> \o fleet
        /\ fleetTold' = IF fleet = <<>> THEN {} ELSE FleetChanges(fleet[1], snap)
    /\ UNCHANGED rovVars
-----------------------------------------------------------------------------
Init == rov = <<>> /\ rovNews = None /\ rovTold = {} /\ fleet = <<>> /\ fleetTold = {}

TestRoutes ==
    \E listing \in Listings, traces \in [Probe -> [Role -> Trace \cup {None}]],
       fired \in FiredOf(Role) : RunTest(listing, traces, fired)

CheckFleet ==
    \E listing \in Listings, works \in SUBSET Probe,
       traces \in [Probe -> [Service -> BOOLEAN \cup {None}]], fired \in FiredOf(Service) :
       RunCheck(listing, works, traces, fired)

Next == TestRoutes \/ WriteReport \/ Die \/ CheckFleet

Spec == Init /\ [][Next]_vars

\* What a probe's two traces can come to.
Verdicts ==
    {classify_probe(v, i, listing[p]) :
        v \in Trace \cup {None}, i \in Trace \cup {None}, listing \in Listings, p \in Probe}
-----------------------------------------------------------------------------
\* Two verdicts of a probe by one carrier, k weeks apart, with none by that
\* carrier in between.
Successive(p, k) ==
    /\ Conclusive(rov[1], p) /\ Conclusive(rov[k], p)
    /\ rov[1][p].exit # None /\ rov[1][p].exit = rov[k][p].exit
    /\ \A j \in 2..(k - 1) : ~(Conclusive(rov[j], p) /\ rov[j][p].exit = rov[1][p].exit)

LeftByNobody(p) == Len(rov) > 1 /\ p \in DOMAIN rov[2] /\ rov[2][p].exit = None

\* "A verdict is compared with the last week via the same carrier": a carrier
\* that starts or stops filtering is in the news of the week it shows,
\* however long the probe left by another, was offline or inconclusive.  A
\* change of carrier is no news by itself.  (Not so if last week's trace of
\* the probe left by nobody: then the code looks no further back.)
CarrierChangesAreNews ==
    rovNews # None =>
        \A p \in DOMAIN rov[1] : rov[1][p].exit # None =>
            /\ \A k \in 2..Len(rov) :
                 Successive(p, k) /\ ~LeftByNobody(p)
                   => (p \in rovNews <=> Differs(rov[k][p], rov[1][p]))
            /\ p \in rovNews => LeftByNobody(p) \/ \E k \in 2..Len(rov) : Successive(p, k)
=============================================================================
