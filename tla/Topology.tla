------------------------------ MODULE Topology ------------------------------
(***************************************************************************)
(* From what Atlas returns of a measurement to the traces the rules of     *)
(* Classifier read: parsing, the AS sequence, agreement with RIS, routing  *)
(* loops, routers out of view, routers that name a city, and the fibre     *)
(* floors under a detour.                                                  *)
(*                                                                         *)
(* A raw trace is a sequence of hops, a hop the set of its replies:        *)
(*   from, rtt   the address that answered, and after how long             *)
(*   stray       late, or an error for another packet                      *)
(*   error       it reports the target unreachable                         *)
(*   back        routers it crossed on its way back, as its TTL tells      *)
(*   reset       the packet it answers had its TTL set anew on the way     *)
(* A hop without replies is dark.  Addresses are numbers, for their order. *)
(***************************************************************************)
EXTENDS Classifier, Integers

CONSTANTS
    Addr,
    Resolution,     \* of _resolve_address: Addr -> [asn, source, context]
    IxCity,         \* cities in the exchange registry
    Global,         \* addresses that are neither private nor reserved
    LocatedIn,      \* the city outside the region a router's name gives, or None
    KnownLoops,     \* addresses in KNOWN_LOOP_LOCATIONS
    Proxies,        \* NON_LOCAL_FIRST_HOP_ASNS
    RisPaths,       \* AS paths of RIS, with the network each is to
    TargetAsn, TargetAddr,
    HubFloor,       \* by fibre to a city and back
    ViaFloor,       \* by fibre to the target through a city, and back directly
    LOCAL_IXP_LATENCY_THRESHOLD_MS, TTL_EXCESS_THRESHOLD

ASSUME TopologyAssumption ==
    /\ Addr \subseteq Nat /\ None \notin Addr /\ None # "private"
    /\ \A r \in RisPaths : r.path \in Seq(Range(r.path))

Last(s) == s[Len(s)]
-----------------------------------------------------------------------------
\* parse_traceroute_results.
Kept(hop) == {r \in hop : ~r.stray}
Addresses(hop) == {r.from : r \in Kept(hop)}
Errors(hop) == {r.from : r \in {q \in Kept(hop) : q.error}}
Rtt(hop) == IF Kept(hop) = {} THEN None ELSE Min({r.rtt : r \in Kept(hop)})

\* The one address of a hop; an RTT is only known to be its.
IsSingle(hop) == Cardinality(Addresses(hop)) = 1
Single(hop) == CHOOSE a \in Addresses(hop) : TRUE

\* HopResolution: every ASN, but the source and exchange of the first address
\* that has one.
Owners(hop) == {Resolution[a].asn : a \in Addresses(hop)} \ {None}
Known(hop, field) == {a \in Addresses(hop) : Resolution[a][field] # None}
FirstKnown(hop, field) ==
    IF Known(hop, field) = {} THEN None ELSE Resolution[Min(Known(hop, field))][field]
Transparent(hop) == FirstKnown(hop, "source") = "private"

\* Mutant of AsStep: an unresolved hop leaves no gap.
AsStepWithoutGap(acc, hop) ==
    IF Transparent(hop) \/ Cardinality(Owners(hop)) # 1 THEN acc
    ELSE LET asn == CHOOSE a \in Owners(hop) : TRUE IN
         IF acc.path # <<>> /\ Last(acc.path).asn = asn THEN acc
         ELSE [path |-> Append(acc.path, [asn |-> asn, contiguous |-> TRUE]), gap |-> FALSE]

AsStep(acc, hop) ==
    IF Transparent(hop) THEN acc
    ELSE IF Cardinality(Owners(hop)) # 1 THEN [acc EXCEPT !.gap = TRUE]
    ELSE LET asn == CHOOSE a \in Owners(hop) : TRUE IN
         IF acc.path # <<>> /\ Last(acc.path).asn = asn THEN acc
         ELSE [path |-> Append(acc.path, [asn |-> asn, contiguous |-> ~acc.gap]), gap |-> FALSE]

\* The loop over the hops: what it has after each of them.
AsSteps(hops) ==
    LET after[n \in 0..Len(hops)] ==
            IF n = 0 THEN [path |-> <<>>, gap |-> FALSE] ELSE AsStep(after[n - 1], hops[n])
    IN after

extract_as_sequence(hops) == AsSteps(hops)[Len(hops)].path
-----------------------------------------------------------------------------
\* RIS.  A network that puts itself into a path several times is there once.
WithoutRepeat(s, a) == IF s # <<>> /\ Last(s) = a THEN s ELSE Append(s, a)
Normalized(path) ==
    LET after[n \in 0..Len(path)] ==
            IF n = 0 THEN <<>> ELSE WithoutRepeat(after[n - 1], path[n])
    IN after

normalize_path(path) == Normalized(path)[Len(path)]

infer_neighbors(a) ==
    {p[Len(p) - 1] : p \in {q \in {normalize_path(r.path) : r \in {s \in RisPaths : s.to = a}} :
                               Len(q) >= 2 /\ Last(q) = a}}

infer_adjacencies(a) ==
    UNION {{p[i] : i \in {j \in DOMAIN p : (j + 1 \in DOMAIN p /\ p[j + 1] = a)
                                         \/ (j - 1 \in DOMAIN p /\ p[j - 1] = a)}} :
              p \in {normalize_path(r.path) : r \in RisPaths}}

\* fishbowl.json has the networks of the region only.
Listed(a) == IF a \in Fishbowl THEN infer_neighbors(a) \cup infer_adjacencies(a) ELSE {}
bidirectional_ris_check(a, b) == a \in Listed(b) \/ b \in Listed(a)

\* The network before the target's, or the last one if the target's does not
\* appear: then contiguous is about that network and the one before it.
check_neighbor_agreement(path) ==
    LET reached == {i \in DOMAIN path : path[i].asn = TargetAsn}
        k == IF reached = {} THEN Len(path) + 1 ELSE Min(reached)
    IN IF k = 1 THEN [up |-> None, ris |-> FALSE, contiguous |-> TRUE, reached |-> reached # {}]
       ELSE [up |-> path[k - 1].asn,
             ris |-> bidirectional_ris_check(path[k - 1].asn, TargetAsn),
             contiguous |-> IF reached = {} THEN path[k - 1].contiguous ELSE path[k].contiguous,
             reached |-> reached # {}]
-----------------------------------------------------------------------------
NotYet == [a \in Addr |-> 0]
NoLoopYet == [seen |-> {}, recent |-> <<>>, repeat |-> None, last |-> NotYet, runs |-> NotYet]

\* Mutant of Answered: a router not seen before does not end an earlier repeat.
AnsweredOnceRepeated(acc, i, a, cyclesBack, run) ==
    [seen |-> acc.seen \cup {a},
     recent |-> SubSeq(Append(acc.recent, a), Max({1, Len(acc.recent) - 1}), Len(acc.recent) + 1),
     repeat |-> IF acc.repeat = None /\ cyclesBack /\ a \in Range(acc.recent) THEN a
                ELSE acc.repeat,
     last |-> [acc.last EXCEPT ![a] = i],
     runs |-> [acc.runs EXCEPT ![a] = run]]

Answered(acc, i, a, cyclesBack, run) ==
    [seen |-> acc.seen \cup {a},
     recent |-> SubSeq(Append(acc.recent, a), Max({1, Len(acc.recent) - 1}), Len(acc.recent) + 1),
     repeat |-> IF a \notin acc.seen THEN None
                ELSE IF acc.repeat = None /\ cyclesBack /\ a \in Range(acc.recent) THEN a
                ELSE acc.repeat,
     last |-> [acc.last EXCEPT ![a] = i],
     runs |-> [acc.runs EXCEPT ![a] = run]]

LoopStep(acc, hop, i) ==
    IF ~IsSingle(hop) THEN acc
    ELSE LET a == Single(hop)
             run == IF acc.last[a] # 0 /\ acc.last[a] = i - 1 THEN acc.runs[a] + 1 ELSE 1
         IN Answered(acc, i, a, a \notin Errors(hop) /\ run # 2, run)

LoopSteps(hops) ==
    LET after[n \in 0..Len(hops)] ==
            IF n = 0 THEN NoLoopYet ELSE LoopStep(after[n - 1], hops[n], n)
    IN after

\* looping_address: a trace that has not reached its target, and whose last
\* answers come back to an address of the three before.
looping_address(hops) ==
    IF \E i \in DOMAIN hops : TargetAddr \in Addresses(hops[i]) THEN None
    ELSE LoopSteps(hops)[Len(hops)].repeat

Loop(hops) ==
    IF looping_address(hops) = None THEN "none"
    ELSE IF looping_address(hops) \in KnownLoops THEN "known" ELSE "new"
-----------------------------------------------------------------------------
\* hidden_hops_reason, which looks at every reply, stray ones too.
ReturnHops(hop) == Min({r.back : r \in hop})

hidden_hops_reason(hops, at) ==
    LET before == {i \in 1..(at - 1) : hops[i] # {}}  previous == Max(before) IN
    \/ \E r \in hops[at] : r.reset
    \/ /\ before # {}
       /\ ReturnHops(hops[at]) - ReturnHops(hops[previous]) - (at - previous)
            >= TTL_EXCESS_THRESHOLD

TargetHops(hops) == {i \in DOMAIN hops : Owners(hops[i]) = {TargetAsn}}
HiddenBeforeTarget(hops) ==
    TargetHops(hops) # {} /\ hidden_hops_reason(hops, Min(TargetHops(hops)))

\* find_router_hub, with the owners the network guard looks up.
Located(hops) ==
    {i \in DOMAIN hops : /\ IsSingle(hops[i]) /\ Single(hops[i]) \in Global
                         /\ LocatedIn[Single(hops[i])] # None}

Floor(rtt, floor) == IF rtt = None THEN "no_hop" ELSE IF rtt >= floor THEN "ok" ELSE "impossible"

find_router_hub(hops) ==
    IF Located(hops) = {} THEN None
    ELSE LET hop == hops[Min(Located(hops))]  city == LocatedIn[Single(hop)] IN
         [city |-> city,
          floor |-> IF city \notin City THEN "unmapped"
                    ELSE IF Floor(Rtt(hop), HubFloor[city]) = "ok" THEN "ok" ELSE "too_fast",
          owners |-> Owners(hop)]
-----------------------------------------------------------------------------
\* What a crossing of a local exchange adds: an exchange's own answer may be
\* slower than those behind it, and the probe far from the first hop.
Answering(hops, S) == {i \in S : Rtt(hops[i]) # None}
local_ixp_excess_ms(hops, at) ==
    LET before == Answering(hops, 1..(at - 1)) IN
    Min({Rtt(hops[i]) : i \in Answering(hops, at..Len(hops))})
      - (IF before = {} THEN 0 ELSE Rtt(hops[Max(before)]))

CrossingHops(hops) == {i \in DOMAIN hops : Known(hops[i], "context") # {}}
CityAt(hop) ==
    LET ix == FirstKnown(hop, "context").ix IN IF ix \in DOMAIN IxCity THEN IxCity[ix] ELSE Unmapped

Crossed(hops, i) ==
    [in |-> FirstKnown(hops[i], "context").in,
     city |-> CityAt(hops[i]),
     slow |-> /\ Rtt(hops[i]) > LOCAL_IXP_LATENCY_THRESHOLD_MS
              /\ local_ixp_excess_ms(hops, i) > LOCAL_IXP_LATENCY_THRESHOLD_MS]

Crossings(hops) ==
    LET at == Chosen([i \in DOMAIN hops |-> i], CrossingHops(hops))
    IN [n \in DOMAIN at |-> Crossed(hops, at[n])]

\* check_detour_trace and probe_verdict, were the claim a detour via city: the
\* hop at the hub, which is the router that was located there when no exchange
\* gave the claim, and the target itself.  Only a single address has an RTT.
RttAt(hops, S) == IF S # {} /\ IsSingle(hops[Min(S)]) THEN Rtt(hops[Min(S)]) ELSE None

check_detour_trace(hops, city, byRouter) ==
    LET hub == find_router_hub(hops)
        there == IF byRouter /\ hub # None /\ HubVerdict(hub) = "ok" /\ hub.city = city
                 THEN {Min(Located(hops))}
                 ELSE {i \in CrossingHops(hops) : CityAt(hops[i]) = city}
        arrived == {i \in DOMAIN hops : TargetAddr \in Addresses(hops[i])}
    IN {Floor(RttAt(hops, there), HubFloor[city]), Floor(RttAt(hops, arrived), ViaFloor[city])}

probe_verdict(checks) ==
    IF "impossible" \in checks THEN "impossible" ELSE IF "ok" \in checks THEN "ok" ELSE "no_hop"
-----------------------------------------------------------------------------
\* analyze_measurement, one probe; its floors are filled in below.
Analyzed(hops) ==
    LET path == extract_as_sequence(hops)  agreement == check_neighbor_agreement(path) IN
    [first |-> IF path # <<>> /\ path[1].asn \in Proxies THEN "proxy" ELSE "local",
     loop |-> Loop(hops), crossings |-> Crossings(hops),
     up |-> agreement.up, ris |-> agreement.ris,
     contiguous |-> agreement.contiguous, reached |-> agreement.reached,
     hidden |-> HiddenBeforeTarget(hops), hub |-> find_router_hub(hops),
     floors |-> [c \in City |-> "no_hop"]]

\* The probes of one measurement.
analyze_measurement(raws) ==
    LET ps == [i \in DOMAIN raws |-> Analyzed(raws[i])]
        byRouter == IxpPick(Clean(ps)) = None
    IN [i \in DOMAIN raws |-> [ps[i] EXCEPT
          !.floors = [c \in City |-> probe_verdict(check_detour_trace(raws[i], c, byRouter))]]]

\* _is_decisive: no other address of the target is tried.
is_decisive(p) ==
    \/ p.first = "proxy" \/ p.reached
    \/ p.up # None /\ p.ris
    \/ \E x \in Range(p.crossings) : x.in = "out"
=============================================================================
