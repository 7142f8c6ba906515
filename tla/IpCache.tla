------------------------------ MODULE IpCache ------------------------------
(***************************************************************************)
(* What an address in a trace is: its network and its exchange, as several *)
(* workers resolve them through one cache file.  Each analysis loads the   *)
(* whole cache and the registry, resolves the hops of its trace, and saves *)
(* the whole cache; the feasibility check resolves and saves nothing.      *)
(* Nothing in the cache ever expires.                                      *)
(***************************************************************************)
EXTENDS IxpRegistry, FiniteSets

CONSTANTS
    Asn, None,
    Addr,
    Private,      \* addresses never looked up
    LanOf,        \* exchange whose LAN an address is in, or None
    OverrideLans, \* addresses in LANs entered by hand (ixp_overrides)
    PortOf,       \* ports entered by hand: address -> ASN, or RouteServer
    RouteServer,
    PrefixOwner,  \* prefixes entered by hand: address -> ASN
    Origins,      \* ASNs BGP has for an address
    Member,       \* PeeringDB's holder of a peering-LAN address, or None
    Worker, Traces

VARIABLES
    cache,      \* the file: address -> [asn, source, context]
    loaded,     \* what each worker has in memory while it analyses a trace
    overlap,    \* history: workers in an analysis when an address was last saved anew
    handed      \* history: the exchanges of the last trace, with the registry's own answer

cacheVars == <<cache, loaded, overlap, handed>>
vars == <<registryVars, cacheVars>>

Idle == [trace |-> {}, entries |-> [a \in {} |-> {}], exchanges |-> [ix \in {} |-> {}]]
Busy(w) == loaded[w] # Idle

Init ==
    /\ RegistryInit
    /\ cache = [a \in {} |-> {}] /\ loaded = [w \in Worker |-> Idle]
    /\ overlap = [a \in Addr |-> {}] /\ handed = {}

\* The exchange of an address, if the registry lists it and has its LAN.
classify_ixp_fabric(a, exchanges) ==
    LET ix == LanOf[a]
    IN IF ix \in DOMAIN exchanges /\ (exchanges[ix].lan \/ a \in OverrideLans)
       THEN [ix |-> ix, in |-> exchanges[ix].in] ELSE None

Answer(asn, source, context) == [asn |-> asn, source |-> source, context |-> context]

find_port_override(a, context) ==
    IF PortOf[a] = RouteServer THEN Answer(None, "ixp_route_server", context)
    ELSE Answer(PortOf[a], "ixp_override", context)

\* RIPEstat's network-info, retried; a network that fails has no owner either.
resolve_ip_to_asns(a) == {Origins[a], {}}
\* PeeringDB's netixlan, retried; rate-limited, it has no such member either.
resolve_ip_via_netixlan(a) == {Member[a], None}

Unowned(context) == Answer(None, IF context # None THEN "ixp_lan_registry" ELSE None, context)

\* One BGP owner, else the member PeeringDB has, else none.
Asked(a, context) ==
    UNION {
        IF origins = {} THEN {IF m # None THEN Answer(m, "peeringdb_netixlan", context)
                              ELSE Unowned(context) : m \in resolve_ip_via_netixlan(a)}
        ELSE IF Cardinality(origins) = 1 THEN {Answer(o, "bgp", context) : o \in origins}
        ELSE {Answer(None, None, context)} : origins \in resolve_ip_to_asns(a)}

\* In an override LAN a cached answer gets its exchange anew.
Refreshed(entry, context) ==
    Answer(entry.asn,
           IF entry.asn = None /\ entry.source = None /\ context # None
           THEN "ixp_lan_registry" ELSE entry.source,
           context)

\* _resolve_address: what it may return.
Resolutions(a, entries, exchanges) ==
    LET context == classify_ixp_fabric(a, exchanges)
    IN IF a \in Private THEN {Answer(None, "private", None)}
       ELSE IF a \in DOMAIN PortOf THEN {find_port_override(a, context)}
       ELSE IF a \in DOMAIN PrefixOwner THEN {Answer(PrefixOwner[a], "prefix_override", context)}
       ELSE IF a \in DOMAIN entries
            THEN {IF a \in OverrideLans THEN Refreshed(entries[a], context) ELSE entries[a]}
       ELSE Asked(a, context)

\* Mutant of IpResolutionCache_load: a cache that cannot be read is an empty one.
EmptyIfUnreadable == {cache, Idle.entries}

IpResolutionCache_load == {cache}

Analysis(trace, entries) ==
    [trace |-> trace, entries |-> entries, exchanges |-> load_ixp_lan_registry]

Load(w) ==
    /\ ~Busy(w)
    /\ \E trace \in Traces, entries \in IpResolutionCache_load :
        loaded' = [loaded EXCEPT ![w] = Analysis(trace, entries)]
    /\ handed' = {} /\ UNCHANGED <<registryVars, cache, overlap>>

\* Every hop of an analysis resolved, and its exchanges handed to the caller.
resolve_traceroute_hops(l, found) ==
    /\ \A a \in l.trace : found[a] \in Resolutions(a, l.entries, l.exchanges)
    /\ handed' = {[context |-> found[a].context,
                   listed |-> IF found[a].context.ix \in DOMAIN l.exchanges
                              THEN l.exchanges[found[a].context.ix].in ELSE None] :
                    a \in {b \in l.trace : found[b].context # None}}

Results(l) == [l.trace -> UNION {Resolutions(a, l.entries, l.exchanges) : a \in l.trace}]

Finish(w) ==
    /\ Busy(w)
    /\ LET l == loaded[w]
           new == l.trace \ Private
       IN \E found \in Results(l) :
            /\ resolve_traceroute_hops(l, found)
            /\ cache' = [a \in DOMAIN l.entries \cup new |->
                            IF a \in new THEN found[a] ELSE l.entries[a]]
            /\ overlap' = [a \in Addr |->
                 IF a \in DOMAIN cache' \ DOMAIN cache THEN {v \in Worker : Busy(v)} \ {w}
                 ELSE overlap[a] \ {w}]
    /\ loaded' = [loaded EXCEPT ![w] = Idle]
    /\ UNCHANGED registryVars

\* The feasibility check resolves a trace again and does not save: as it writes
\* nothing, its reading and resolving are one step.
Recheck ==
    /\ \E trace \in Traces :
        LET l == Analysis(trace, cache) IN \E found \in Results(l) : resolve_traceroute_hops(l, found)
    /\ UNCHANGED <<registryVars, cache, loaded, overlap>>

\* The batch is killed: what its workers had resolved is gone.
Die ==
    /\ loaded' = [w \in Worker |-> Idle] /\ overlap' = [a \in Addr |-> {}]
    /\ handed' = {} /\ UNCHANGED <<registryVars, cache>>

Next ==
    \/ RegistryNext /\ handed' = {} /\ UNCHANGED <<cache, loaded, overlap>>
    \/ \E w \in Worker : Load(w) \/ Finish(w)
    \/ Recheck \/ Die

Spec == Init /\ [][Next]_vars

\* Whatever PeeringDB answers or fails to answer, a known LAN and a decision
\* survive every rebuild ("never let a later empty result erase them"), unless
\* somebody wrote the entry while an operation that ends had the file in hand:
\* then the save takes back what it had read.  Otherwise only the owner's own
\* command about an exchange changes its decision or loses its LAN, and only
\* pruning removes it.
Outdated(o, ix) == ix \notin DOMAIN held[o] \/ held[o][ix] # registry[ix]

RecognisedStays ==
    [][\A ix \in DOMAIN registry :
        \/ Listed(ix)' /\ registry'[ix].in = registry[ix].in /\ (HasLan(ix) => HasLan(ix)')
        \/ \E d \in Decision : confirm_ixp_region(ix, d) \/ add_or_confirm_ixp(ix, d)
        \/ prune_orphaned_entries /\ ~Listed(ix)'
        \/ \E o \in Operation : Underway(o) /\ ~Underway(o)' /\ Outdated(o, ix)]_vars

\* No trace is graded by the region of an exchange that the owner has never
\* decided so, whoever cached the address and whenever: neither the exchange's
\* country nor its members decide.
OnlyTheOwnerDecides ==
    \A h \in handed : h.context.in # TBA => <<h.context.ix, h.context.in>> \in said

\* A cached answer is lost only to the save of an analysis that had begun
\* before the answer was saved.
LostOnlyByOverlap ==
    [][\A a \in DOMAIN cache \ DOMAIN cache' : \E w \in overlap[a] : Busy(w) /\ ~Busy(w)']_vars

\* A trace that crosses a classified exchange is graded by the classification
\* in the registry it was analysed with.
ClassifiedIsUsed ==
    \A h \in handed : h.listed # None => h.context.in = h.listed
=============================================================================
