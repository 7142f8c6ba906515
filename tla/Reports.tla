------------------------------ MODULE Reports ------------------------------
(***************************************************************************)
(* What every format of the report shows: build_report_data over the       *)
(* findings (Record), the files of the weekly pipeline and what outside    *)
(* sources answer just then.  Rankings, names and wording are left out.    *)
(***************************************************************************)
EXTENDS Record

CONSTANTS
    Triangulation,      \* measurement -> its probes' [upstream, agrees]; not every one has a file
    SATELLITE_OPERATORS,
    Registries,         \* asn_registry.json: economy -> ASNs, as discovery may find it
    EntryOf,            \* what a fishbowl has of an ASN: [cc, neighbors, ixps, facility, v6, pdb]
    IxpRegistry,        \* ixp_lan_registry.json: exchange -> in the fishbowl, "TBA" if undecided
    AspaSnapshot,       \* ASN -> providers, when Cloudflare answers
    ProbesOf, ListedOf, \* ASN -> connected probes, and ones of any status
    ProbeTags,          \* Atlas: connected probe -> what it says of its IPv6
    Listing, Audit,     \* probe -> [cc, asn, status]; the audit's [registry, live] of those it quarantined
    PLACEMENT_REASONS, ADVISORY_REASONS, PROBE_NOTES,
    RovSnapshot,        \* the last line of the route test's history, or None
    SEED_TESTED_ECONOMY_PAIRS

VARIABLES
    registry, fishbowl,
    lists               \* of a process that makes a report: what it loaded when it started

vars == <<record, registry, fishbowl, lists>>

Economies == DOMAIN registry
AsnsOf == UNION {registry[cc] : cc \in Economies}
NoEntry == [neighbors |-> {}, ixps |-> {}, facility |-> FALSE, v6 |-> FALSE, pdb |-> FALSE]
Entry(a) == IF a \in DOMAIN fishbowl THEN fishbowl[a] ELSE NoEntry
EconomyOf(a) == {cc \in Economies : a \in registry[cc]}

Count(S, Test(_)) == Cardinality({x \in S : Test(x)})
HasNeighbors(a) == Entry(a).neighbors # {}
HasIxp(a) == Entry(a).ixps # {}
HasFacility(a) == Entry(a).facility
-----------------------------------------------------------------------------
\* The lists of findings: those of the loaders, and what is held.
Lists ==
    [detours |-> Load(Detour), transit |-> Load(Transit), candidates |-> Load(Candidate),
     held |-> {i \in DOMAIN rows : is_quarantined(rows[i])}]

CONFIRMED_DETOURS == lists.detours
CONFIRMED_LOCAL_TRANSIT == lists.transit
CANDIDATE_PEERING == lists.candidates

In(list) == DOMAIN list

\* The networks right before the target where RIS agrees, if there is a file.
Upstreams(d) ==
    IF d.msm \notin DOMAIN Triangulation THEN {}
    ELSE {p.upstream : p \in {q \in Triangulation[d.msm] : q.agrees}} \ {None}

\* Carriers by who depends on them: the target's economy, not the source's.
TransitSuppliers ==
    LET D == CONFIRMED_DETOURS
        T == CONFIRMED_LOCAL_TRANSIT
        carried(a) == {n \in In(D) : a \in Upstreams(D[n])}
        provided(a) == {n \in In(T) : T[n].asn = a}
        dependent(a) == {D[n].tcc : n \in carried(a)} \cup {T[n].tcc : n \in provided(a)} IN
    [a \in UNION {Upstreams(D[n]) : n \in In(D)} \cup {T[n].asn : n \in In(T)} |->
        [dependent |-> dependent(a),
         vantageOnly |-> {D[n].cc : n \in carried(a)} \ dependent(a),
         regional |-> a \in DOMAIN fishbowl,
         count |-> Max({Cardinality(carried(a))} \cup {T[n].note.ordinal : n \in provided(a)})]]

\* Economies whose carriers serve another economy.
RegionalHubs ==
    LET T == CONFIRMED_LOCAL_TRANSIT
        across == {n \in In(T) : T[n].tcc # T[n].cc}
        by(cc) == {n \in across : T[n].cc = cc} IN
    [cc \in {T[n].cc : n \in across} |->
        [dependent |-> {T[n].tcc : n \in by(cc)}, carriers |-> {T[n].asn : n \in by(cc)},
         count |-> MapThenSumSet(LAMBDA n : T[n].note.ordinal, by(cc))]]

\* Cities outside the region where detours cross.
ExternalHubs ==
    LET D == CONFIRMED_DETOURS
        at(h) == {n \in In(D) : D[n].hub = h} IN
    [h \in {D[n].hub : n \in In(D)} |->
        [entries |-> Cardinality(at(h)), dependent |-> {D[n].tcc : n \in at(h)},
         carriers |-> Cardinality(UNION {Upstreams(D[n]) : n \in at(h)})]]

\* Economies a satellite operator reaches: as RIS has it, as a traceroute
\* confirms, as one only suggests; and those it was tested from.  The
\* findings say so in their notes only.
SatellitePathway(s) ==
    LET mention(list) == {n \in In(list) : s \in list[n].note.asns}
        D == CONFIRMED_DETOURS
        T == CONFIRMED_LOCAL_TRANSIT
        C == CANDIDATE_PEERING
        detours == mention(D) \cup {n \in In(D) : D[n].ix = s}
        confirmed == {D[n].tcc : n \in detours} \cup {T[n].tcc : n \in mention(T)} IN
    [ris |-> UNION {EconomyOf(a) : a \in {b \in DOMAIN fishbowl : s \in fishbowl[b].neighbors}},
     confirmed |-> confirmed,
     candidate |-> {C[n].tcc : n \in mention(C)} \ confirmed,
     vantage |-> {D[n].cc : n \in detours} \cup {T[n].vp : n \in mention(T)} \cup {C[n].vp : n \in mention(C)}]

\* describe_satellite_pathway: which of its sentences, and the untested ones.
Narrative(p) ==
    LET seen == p.confirmed \cup p.candidate IN
    [says |-> IF seen # {} THEN "seen" ELSE IF p.ris # {} THEN "in RIS only" ELSE "nothing",
     untested |-> IF seen # {} THEN p.ris \ seen ELSE {}]

\* Findings confirmed to cross an exchange, read from the database itself:
\* the held ones count.
VerifiedCorridors(ix) ==
    {c.finding : c \in {d \in Range(corrs) : d.ev.crosses = ix}}
      \cup {i \in DOMAIN rows : rows[i].kind = Detour /\ rows[i].ix = ix}

\* The appendix: what is held, under the ASN or the finding it is held for.
HeldFor(a) == {i \in lists.held : a \in {rows[i].asn, rows[i].tgt}}
HeldAs(key) == {i \in lists.held : <<rows[i].kind, rows[i].asn, rows[i].tgt>> = key}
QuarantineSummary ==
    [asns |-> [a \in QUARANTINED_ASN_SET |-> HeldFor(a)],
     findings |-> [key \in HELD_FINDING_KEYS |-> HeldAs(key)]]
-----------------------------------------------------------------------------
EconomySummaries ==
    [cc \in Economies |->
        [asns |-> Cardinality(registry[cc]), neighbors |-> Count(registry[cc], HasNeighbors),
         ixp |-> Count(registry[cc], HasIxp), facility |-> Count(registry[cc], HasFacility)]]

\* The header counts the fishbowl, the table above the registry.
Totals ==
    [economies |-> Cardinality(Economies), asns |-> Cardinality(DOMAIN fishbowl),
     neighbors |-> Count(DOMAIN fishbowl, HasNeighbors),
     ixp |-> Count(DOMAIN fishbowl, HasIxp), facility |-> Count(DOMAIN fishbowl, HasFacility)]

MembersOf(ix) == {a \in DOMAIN fishbowl : ix \in fishbowl[a].ixps}
IxpSummaries ==
    [ix \in DOMAIN IxpRegistry |->
        [inside |-> IxpRegistry[ix], members |-> Cardinality(MembersOf(ix)),
         economies |-> {fishbowl[a].cc : a \in MembersOf(ix)},
         verified |-> Cardinality(VerifiedCorridors(ix))]]
ExchangesIn(flag) == Cardinality({ix \in DOMAIN IxpRegistry : IxpRegistry[ix] = flag})
OutsideShare == <<ExchangesIn("out"), ExchangesIn("in") + ExchangesIn("out")>>

\* Economies still without any finding between them; the backlog's findings,
\* so the held ones count.
TestedPairs == SEED_TESTED_ECONOMY_PAIRS \cup {{rows[i].cc, rows[i].tcc} : i \in DOMAIN rows}
PathwayCoverage ==
    [cc \in Economies |->
        [active |-> MapThenSumSet(LAMBDA a : Cardinality(ProbesOf[a]), registry[cc] \cap DOMAIN ProbesOf),
         listed |-> MapThenSumSet(LAMBDA a : Cardinality(ListedOf[a]), registry[cc] \cap DOMAIN ListedOf),
         untested |-> Cardinality({o \in Economies \ {cc} : {o, cc} \notin TestedPairs})]]

Ipv6Coverage == [cc \in Economies |-> Count(registry[cc], LAMBDA a : Entry(a).v6)]

\* One question to Atlas; no answer is none working.
Ipv6ProbeCoverage(answered) ==
    LET all == UNION {ProbesOf[a] : a \in DOMAIN ProbesOf}
        tagged(tag) == IF answered THEN Count(all, LAMBDA p : p \in DOMAIN ProbeTags /\ ProbeTags[p] = tag) ELSE 0
    IN  <<Cardinality(all), tagged("works"), tagged("doesnt-work")>>

PeeringDbQuality ==
    [cc \in Economies |->
        LET on == {a \in registry[cc] : Entry(a).pdb} IN
        [on |-> Cardinality(on), facility |-> Count(on, HasFacility), ixp |-> Count(on, HasIxp)]]

\* Without a snapshot the section is all zero.
AspaProgress(snapshot) ==
    LET providers(cc) == UNION {snapshot[a] : a \in registry[cc] \cap DOMAIN snapshot} IN
    [economies |-> [cc \in Economies |->
        [with |-> Cardinality(registry[cc] \cap DOMAIN snapshot),
         inside |-> Cardinality(providers(cc) \cap AsnsOf),
         outside |-> Cardinality(providers(cc) \ AsnsOf)]],
     total |-> Cardinality(DOMAIN snapshot)]
NoSnapshot == [a \in {} |-> {}]

\* Connected or lately so, on an ASN with a reason, or somewhere else than
\* its ASN's economy; a note on the probe itself stands instead of both.
PlacementReasons(p) ==
    LET asn == Listing[p].asn
        reasons == (IF asn \in PLACEMENT_REASONS THEN {"placement"} ELSE {})
                     \cup (IF p \in DOMAIN Audit /\ Audit[p].registry # None /\ asn \notin PLACEMENT_REASONS
                           THEN {"elsewhere"} ELSE {})
                     \cup (IF asn \in ADVISORY_REASONS THEN {"advisory"} ELSE {})
    IN  IF reasons # {} /\ p \in PROBE_NOTES THEN {"note"} ELSE reasons
MisplacedProbes ==
    LET listed == {p \in DOMAIN Listing : Listing[p].status \in {"Connected", "Disconnected"}}
        shown == {p \in listed : PlacementReasons(p) # {}}
    IN  [p \in shown |-> [cc |-> Listing[p].cc, reasons |-> PlacementReasons(p)]]

\* Of the route test's last week: verdicts per economy and family, and where
\* a probe's valid and invalid routes part.
RovSummary ==
    IF RovSnapshot = None THEN None
    ELSE LET of(cc) == {p \in DOMAIN RovSnapshot.probes : RovSnapshot.probes[p].cc = cc} IN
         [economies |-> [cc \in DOMAIN RovSnapshot.economies |->
             [verdicts |-> RovSnapshot.economies[cc], probes |-> Cardinality(of(cc)),
              asns |-> Cardinality(UNION {RovSnapshot.probes[p].asns : p \in of(cc)})]],
          splits |-> {p \in DOMAIN RovSnapshot.probes : RovSnapshot.probes[p].diverged},
          untested |-> Economies \ DOMAIN RovSnapshot.economies]
-----------------------------------------------------------------------------
PathwaysExternal == Len(CONFIRMED_DETOURS)
PathwaysInternal == Len(CONFIRMED_LOCAL_TRANSIT) + Len(CANDIDATE_PEERING)
PathwaysTotal == PathwaysExternal + PathwaysInternal

build_report_data(aspa, v6) ==
    [suppliers |-> TransitSuppliers, regional |-> RegionalHubs, external |-> ExternalHubs,
     narratives |-> [s \in SATELLITE_OPERATORS |-> Narrative(SatellitePathway(s))],
     quarantined |-> QuarantineSummary,
     totals |-> Totals, economies |-> EconomySummaries, ixps |-> IxpSummaries, outside |-> OutsideShare,
     coverage |-> PathwayCoverage, ipv6 |-> Ipv6Coverage, ipv6Probes |-> Ipv6ProbeCoverage(v6),
     peeringdb |-> PeeringDbQuality, aspa |-> AspaProgress(IF aspa THEN AspaSnapshot ELSE NoSnapshot),
     misplaced |-> MisplacedProbes, rov |-> RovSummary]

\* The artifacts, each by a process of its own that may fail: the export, and
\* the reports, which are made from the database and read by nobody here.
Export == export_jsonl /\ UNCHANGED <<registry, fishbowl, lists>>
StartReport == lists = None /\ lists' = Lists /\ UNCHANGED <<record, registry, fishbowl>>
EndReport == lists # None /\ lists' = None /\ UNCHANGED <<record, registry, fishbowl>>

\* A week of the pipeline: the fishbowl follows the registry, or fails.
Week ==
    \E found \in Registries, follows \in BOOLEAN :
        /\ registry' = found
        /\ fishbowl' = IF follows THEN [a \in UNION {found[cc] : cc \in DOMAIN found} |-> EntryOf[a]] ELSE fishbowl
        /\ UNCHANGED <<record, lists>>

Init ==
    /\ RecordInit
    /\ registry \in Registries /\ fishbowl = [a \in AsnsOf |-> EntryOf[a]]
    /\ lists = None

Store ==
    \/ \E fact \in Fact, dies \in BOOLEAN : File(fact, dies)
    \/ \E i \in DOMAIN rows, confirmed \in BOOLEAN : MarkAspaChecked(i, confirmed)
    \/ \E lines \in 0..Len(export) : import_jsonl(lines)

Next == Export \/ StartReport \/ EndReport \/ Week \/ (Store /\ UNCHANGED <<registry, fishbowl, lists>>)

Spec == Init /\ [][Next]_vars
-----------------------------------------------------------------------------
Import == import_jsonl(Len(export))

Told == [Lists EXCEPT !.held = {}]

\* The committed file is enough: whatever state the database was in, exporting
\* what a rebuild has made gives the same file again, and a rebuild from a file
\* that was up to date leaves every list of the report as it was, though every
\* finding may have another id.
RebuildRestores ==
    [][Import => Exported' = export /\ (export = Exported => Told' = Told)]_vars

\* Nothing is dropped on the way: a finding is either in the lists or in the
\* appendix; every detour counts for one hub; the header agrees with the table
\* of economies when the registry and the fishbowl are of the same week; and a
\* source that does not answer leaves every economy in its table.
Appended(q) == UNION {q.asns[a] : a \in DOMAIN q.asns} \cup UNION {q.findings[k] : k \in DOMAIN q.findings}
SumOf(table, field) == MapThenSumSet(LAMBDA k : table[k][field], DOMAIN table)
AddsUp ==
    lists # None => \A answered \in BOOLEAN : \A r \in {build_report_data(answered, ~answered)} :
        /\ Appended(r.quarantined) = lists.held
        /\ SumOf(r.external, "entries") = PathwaysExternal
        /\ AsnsOf = DOMAIN fishbowl =>
             \A field \in {"asns", "neighbors", "ixp", "facility"} : r.totals[field] = SumOf(r.economies, field)
        /\ \A table \in {r.economies, r.coverage, r.peeringdb, r.aspa.economies} : DOMAIN table = Economies
        /\ r.ipv6Probes[2] + r.ipv6Probes[3] <= r.ipv6Probes[1]

\* When it starts, each finding is in exactly one list.
AllAreListed ==
    [][lists = None /\ lists' # None => PathwaysTotal' + Cardinality(lists'.held) = Len(rows)]_vars

\* The report is of the record.
ReportHolds == []AddsUp /\ AllAreListed /\ RebuildRestores
=============================================================================
