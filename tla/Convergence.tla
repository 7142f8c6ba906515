----------------------------- MODULE Convergence -----------------------------
(***************************************************************************)
(* The weekly convergence report (analysis/convergence.py): which routers  *)
(* outside the region many corridors cross, and which of them BGP has no   *)
(* way around (analysis/ris_upstreams.py).  Routers are told apart by the  *)
(* names of their addresses, looked up at a capped rate and kept for 30    *)
(* days (analysis/ptr_lookup.py).                                          *)
(***************************************************************************)
EXTENDS Naturals, Sequences, FiniteSets, SequencesExt, FiniteSetsExt

CONSTANTS
    Addr, Local,        \* addresses of hops and targets; those that are not global
    None,
    ProbeOf, Economy,   \* ProbeOf[t], Economy[a]: of trace t, of network a in scope
    Network,            \* Network[p]: of probe p, as listed: [cc, asn], or None
    Target, Hops,       \* Target[t], Hops[t]: of trace t
    IpCache, Overrides, \* networks of addresses: resolved before, by prefix override
    Table,              \* bgp.tools: a sequence of [covers, plen, asn]
    DeviceOf,           \* a host name without its interface label, or None if it
                        \* is made of its own address
    Names,              \* the zones: each address's host name, or None
    Fishbowls,          \* each network's RIS neighbors, and how often they are seen
    MIN_PAIR_TRACES, MIN_SOURCE_ECONOMIES, MIN_TARGET_ECONOMIES,
    MaxRuns

Trace == DOMAIN ProbeOf
InScope == DOMAIN Economy

VARIABLES
    traces,             \* the parsed traces on disk
    dns,                \* what unbound would answer
    ptrCache,           \* ptr_cache.json
    neighbors,          \* fishbowl.json
    names,              \* the run's names of addresses, or None between runs
    report,             \* convergence.txt: routers, always-crossed ones, failed lookups
    weeks

vars == <<traces, dns, ptrCache, neighbors, names, report, weeks>>
-----------------------------------------------------------------------------
\* prefix_origins: the longest prefix, the first row of those.
Rows(a) == {i \in DOMAIN Table : a \in Table[i].covers}
PrefixOrigin(a) ==
    IF Rows(a) = {} THEN None
    ELSE Table[CHOOSE i \in Rows(a) : \A j \in Rows(a) :
                 Table[j].plen < Table[i].plen \/ (Table[j].plen = Table[i].plen /\ i <= j)].asn

asn_of(a) ==
    IF a \in DOMAIN IpCache THEN IpCache[a]
    ELSE IF a \in DOMAIN Overrides THEN Overrides[a]
    ELSE PrefixOrigin(a)

OffRegion(a) == a \notin Local /\ asn_of(a) \notin InScope \cup {None}
HopAddresses(t) == UNION Range(Hops[t])
Needed == {a \in UNION {HopAddresses(t) \cup {Target[t]} : t \in traces} : OffRegion(a)}

\* _name_filter: a name of several addresses is nobody's.
Holders(ns, n) == {a \in UNION {HopAddresses(t) : t \in traces} : a \in DOMAIN ns /\ ns[a] = n}
NameOf(ns, a) ==
    IF ns[a] # None /\ Cardinality(Holders(ns, ns[a])) = 1 THEN ns[a] ELSE None

device_key(a, n) == IF n = None \/ DeviceOf[n] = None THEN a ELSE DeviceOf[n]
Router(ns, a) == <<asn_of(a), device_key(a, NameOf(ns, a))>>
RoutersOn(ns, t) == {Router(ns, a) : a \in {b \in HopAddresses(t) : OffRegion(b)}}

\* The traces that count, with the economies they join.
SourceOf(t) == IF Network[ProbeOf[t]] = None THEN None ELSE Network[ProbeOf[t]].cc
Counted == {t \in traces : SourceOf(t) # None /\ asn_of(Target[t]) \in InScope}
PairOf(t) == <<SourceOf(t), Economy[asn_of(Target[t])]>>
-----------------------------------------------------------------------------
category(pairs) ==
    LET sources == Cardinality({p[1] : p \in pairs}) >= MIN_SOURCE_ECONOMIES
        targets == Cardinality({p[2] : p \in pairs}) >= MIN_TARGET_ECONOMIES
    IN  IF sources THEN IF targets THEN "shared_transit" ELSE "target_access"
        ELSE IF targets THEN "source_side" ELSE None

\* collect, and render's three groups.
collect(ns) ==
    {LET over == {t \in Counted : r \in RoutersOn(ns, t)}  pairs == {PairOf(t) : t \in over}
     IN [router |-> r, pairs |-> pairs, category |-> category(pairs),
         addresses |-> {a \in UNION {HopAddresses(t) : t \in over} : OffRegion(a) /\ Router(ns, a) = r},
         probes |-> {ProbeOf[t] : t \in over}]
     : r \in UNION {RoutersOn(ns, t) : t \in Counted}}

\* The neighbors above the collectors' noise: 2% of what RIS observes.
ris_upstreams(a) ==
    IF a \notin InScope \/ DOMAIN neighbors[a] = {} THEN None
    ELSE LET total == MapThenSumSet(LAMBDA n : neighbors[a][n], DOMAIN neighbors[a])
         IN {n \in DOMAIN neighbors[a] : 50 * neighbors[a][n] >= total}

\* The only-upstreams above a network, up to the first one that is not in
\* scope, has several, or has been passed: as none is passed twice, after as
\* many steps as there are networks in scope.
Higher(chain) ==
    LET ups == ris_upstreams(Last(chain)) IN
    IF ups = None \/ Cardinality(ups) # 1 \/ ups \subseteq Range(chain) THEN chain
    ELSE Append(chain, CHOOSE u \in ups : TRUE)

Walk(a) ==
    LET after[n \in 0..Cardinality(InScope)] == IF n = 0 THEN <<a>> ELSE Higher(after[n - 1])
    IN after

upstream_chain(a) == IF ris_upstreams(a) = None THEN None ELSE Tail(Walk(a)[Cardinality(InScope)])

off_region_exit(a) ==
    LET chain == upstream_chain(a) IN
    IF chain \in {None, <<>>} \/ Last(chain) \in InScope THEN None ELSE Last(chain)

ris_verdict(router, sources, targets) ==
    LET sides == {sources, targets} \ {{}} IN
    IF \E side \in sides : \A a \in side : off_region_exit(a) = router THEN "dependency"
    ELSE IF \E side \in sides : \A a \in side : off_region_exit(a) # None THEN "single_upstream"
    ELSE IF \E a \in sources \cup targets : upstream_chain(a) = None THEN "unknown"
    ELSE "preferred_path"

\* A probe of unknown network adds nothing to the sources.
Sources(ts) == {Network[ProbeOf[t]].asn : t \in ts} \ {None}
Targets(ts) == {asn_of(Target[t]) : t \in ts}

always_crossed(ns) ==
    UNION {LET over == {t \in Counted : PairOf(t) = pair} IN
           {[router |-> r, pair |-> pair, verdict |-> ris_verdict(r[1], Sources(over), Targets(over))]
              : r \in {q \in UNION {RoutersOn(ns, t) : t \in over} : \A t \in over : q \in RoutersOn(ns, t)}}
           : pair \in {p \in {PairOf(t) : t \in Counted} :
                         Cardinality({t \in Counted : PairOf(t) = p}) >= MIN_PAIR_TRACES}}
-----------------------------------------------------------------------------
\* Mutant of Resolved: a failed lookup is no name.
ResolvedAfresh(due, failed) ==
    [a \in Needed' |-> IF a \in failed THEN None ELSE IF a \in due THEN dns[a] ELSE ptrCache[a]]

\* resolve_ptrs: what failed twice keeps its older name.
Resolved(due, failed) ==
    [a \in Needed' |-> IF a \in due \ failed THEN dns[a]
                       ELSE IF a \in DOMAIN ptrCache THEN ptrCache[a] ELSE None]

Init ==
    /\ traces = {} /\ dns \in Names /\ ptrCache = <<>>
    /\ neighbors \in Fishbowls
    /\ names = None /\ report = [routers |-> {}, always |-> {}, failed |-> {}]
    /\ weeks = 0

\* The week's run: the nightly batches have left more traces, and since the
\* last run 30 days may have passed.  Lookups refused or timed out, twice,
\* are not in the cache.
LookUp ==
    /\ names = None /\ weeks < MaxRuns
    /\ \E more \in SUBSET (Trace \ traces) : traces' = traces \cup more
    /\ \E young \in {{}, DOMAIN ptrCache} :
       LET due == Needed' \ young IN
       \E failed \in SUBSET due :
        /\ names' = [of |-> Resolved(due, failed), failed |-> failed]
        /\ ptrCache' = [a \in DOMAIN ptrCache \cup (due \ failed) |->
                          IF a \in due \ failed THEN dns[a] ELSE ptrCache[a]]
    /\ weeks' = weeks + 1
    /\ UNCHANGED <<dns, neighbors, report>>

Write ==
    /\ names # None
    /\ report' = [routers |-> collect(names.of), always |-> always_crossed(names.of),
                  failed |-> names.failed]
    /\ names' = None
    /\ UNCHANGED <<traces, dns, ptrCache, neighbors, weeks>>

\* The networks' names cannot be fetched, or the process dies.
Die ==
    /\ names # None /\ names' = None
    /\ UNCHANGED <<traces, dns, ptrCache, neighbors, report, weeks>>

Next == LookUp \/ Write \/ Die

Spec == Init /\ [][Next]_vars
-----------------------------------------------------------------------------
Routers == {r.addresses : r \in report.routers}

\* A router seen as one stays one: refused lookups "split routers between
\* runs", until what failed kept its older name.  Only a newly seen address
\* may part two: one with a name that was thought to be theirs alone.
FailureSplitsNothing ==
    [][\A R \in Routers : \A a, b \in R :
          report'.routers # report.routers
            /\ (\A c \in Needed \ {a, b} : dns[c] \notin {dns[a], dns[b]})
            => \E S \in {r.addresses : r \in report'.routers} : {a, b} \subseteq S]_vars

\* The networks outside the region that routes of network a are learned
\* through, over any networks of the region: those that no set of networks
\* with a in it and all upstreams of its own can do without.
Networks == InScope \cup UNION {DOMAIN neighbors[x] : x \in InScope}
Upstreams(S) == UNION {ris_upstreams(x) : x \in {y \in S : ris_upstreams(y) # None}}
WaysOut(a) ==
    {x \in Networks \ InScope : \A S \in SUBSET Networks : a \in S /\ Upstreams(S) \subseteq S => x \in S}

\* "A router every trace of an economy pair crossed is a dependency only if
\* BGP has no way around it": on one side of it, whatever leaves the region
\* from any of the networks the traces were between, leaves by the router's.
\* (Nothing is said of a probe whose network is not known.)
DependencyHasNoWayAround ==
    [][Write =>
          \A d \in report'.always : d.verdict = "dependency" =>
             LET over == {t \in Counted : PairOf(t) = d.pair} IN
             \E side \in {Sources(over), Targets(over)} \ {{}} :
                \A a \in side : WaysOut(a) = {d.router[1]}]_vars
=============================================================================
