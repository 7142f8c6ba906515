------------------------------- MODULE Retest -------------------------------
(***************************************************************************)
(* Where a finding is measured from again, and at which address.  The      *)
(* corridor is rebuilt each time: from the latest corroboration, from the  *)
(* listing of probes and from the registry of their networks, two files    *)
(* made at different times of what Atlas had then.  Rotation has when a    *)
(* retest is due, CorridorBatch how it runs.                               *)
(***************************************************************************)
EXTENDS Naturals, Sequences, FiniteSets

CONSTANTS
    Worlds,                 \* what Atlas may have: probe -> [cc, asn, connected]
    PROBE_ASN_OVERRIDES, PROBE_ECONOMY_OVERRIDES,
    Economy,                \* in scope
    AsnToCc,                \* asn_registry.json
    SAME_NETWORK_ASN_GROUPS,
    Network,                \* what a probe may be on
    Outset,                 \* findings with their latest corroboration:
                            \* [finding |-> [cc, asn, target], latest |-> as below]
    PrefixesOf,             \* target -> its prefixes in RIS, in order: [first, excluded]
    None,
    PROBE_COUNT, MAX_TARGET_IP_ATTEMPTS

VARIABLES
    finding,        \* the one measured again
    atlas,
    probeListing,   \* probe_listing.json: probe -> [cc, asn, connected]
    probeRegistry,  \* asn_probe_registry.json: its ASNs
    latest,         \* the latest corroboration, and its measurement's file:
                    \* [cc, asn, probes, target], no probes if there is no file
    still           \* history: it was made in the world as it is listed now

vars == <<finding, atlas, probeListing, probeRegistry, latest, still>>

Connected(table) == {p \in DOMAIN table : table[p].connected}
Override(p, asn) == IF p \in DOMAIN PROBE_ASN_OVERRIDES THEN PROBE_ASN_OVERRIDES[p] ELSE asn

\* Per economy, the probes Atlas has in it, and those known to stand in it.
build_probe_listing ==
    LET cc(p) == IF atlas[p].cc \in Economy THEN atlas[p].cc ELSE PROBE_ECONOMY_OVERRIDES[p] IN
    [p \in {q \in DOMAIN atlas : atlas[q].cc \in Economy \/ q \in DOMAIN PROBE_ECONOMY_OVERRIDES} |->
        [atlas[p] EXCEPT !.cc = cc(p)]]

\* Per economy, but only as Atlas has it.
build_asn_probe_registry ==
    {Override(p, atlas[p].asn) : p \in {q \in Connected(atlas) : atlas[q].cc \in Economy}}

probe_asn(p) == Override(p, probeListing[p].asn)

\* Connected probes of an ASN in an economy: a retest's own, if there are any.
source_probe_ids(asn, cc) ==
    {p \in Connected(probeListing) : probeListing[p].cc = cc /\ probe_asn(p) = asn}

same_network(a, b) == a = b \/ \E group \in SAME_NETWORK_ASN_GROUPS : {a, b} \subseteq group

any_probe_asn_for_cc(cc) ==
    LET candidates == {a \in probeRegistry \cap DOMAIN AsnToCc : AsnToCc[a] = cc} IN
    IF candidates = {} THEN None ELSE CHOOSE a \in candidates : \A b \in candidates : a <= b
-----------------------------------------------------------------------------
TheOnly(S) == IF \E x \in S : S = {x} THEN CHOOSE x \in S : TRUE ELSE None

\* Mutant of original_vantage: the label is taken at its word.
LabelledVantage == [cc |-> latest.cc, asn |-> None]

\* Where the probes of the latest measurement are now.
original_vantage ==
    LET placed == latest.probes \cap DOMAIN probeListing
        ccs == {probeListing[p].cc : p \in placed} IN
    IF latest.cc \in ccs \/ TheOnly(ccs) = None THEN [cc |-> latest.cc, asn |-> None]
    ELSE [cc |-> TheOnly(ccs), asn |-> TheOnly({probeListing[p].asn : p \in placed})]

\* The network to measure from: with a new economy, another one.
Source ==
    LET v == original_vantage
        known == IF v.cc = latest.cc THEN latest.asn ELSE v.asn IN
    [cc |-> v.cc, asn |-> IF known = None THEN any_probe_asn_for_cc(v.cc) ELSE known]

\* A target would be measured from itself: from the finding's own upstream,
\* then, or not at all.
FromItself == Source.asn # None /\ same_network(Source.asn, finding.target)
UpstreamMeasures ==
    /\ finding.asn # None /\ ~same_network(finding.asn, finding.target)
    /\ source_probe_ids(finding.asn, finding.cc) # {}

candidate_from_finding ==
    IF Source.asn = None \/ (FromItself /\ ~UpstreamMeasures) THEN None
    ELSE IF FromItself THEN [cc |-> finding.cc, asn |-> finding.asn] ELSE Source

\* The first address of each prefix, once, and of none that is excluded.
list_target_ips ==
    LET Prefixes == PrefixesOf[finding.target]
        usable == {n \in DOMAIN Prefixes : ~Prefixes[n].excluded}
        Again(n) == \E m \in usable : m < n /\ Prefixes[m].first = Prefixes[n].first
        kept == SelectSeq([n \in DOMAIN Prefixes |-> n], LAMBDA n : n \in usable /\ ~Again(n))
    IN  [n \in DOMAIN kept |-> Prefixes[kept[n]].first]

\* Addresses a retest may end up at: the one traced before if the target is no
\* network of the region.  The second is tried when the first shows nothing.
traced_address == latest.target
Targets ==
    IF finding.target \notin DOMAIN AsnToCc /\ traced_address # None THEN {traced_address}
    ELSE {list_target_ips[n] : n \in {m \in DOMAIN list_target_ips : m <= MAX_TARGET_IP_ATTEMPTS}}

\* The probes asked: a network's own by their ids, or any of the economy.
Asked(c) ==
    LET own == source_probe_ids(c.asn, c.cc)
        pool == IF own # {} THEN own ELSE {p \in Connected(atlas) : atlas[p].cc = c.cc} IN
    {S \in SUBSET pool : S # {} /\ Cardinality(S) <= PROBE_COUNT}

\* What is recorded as a probe's network: for a probe that is not listed, the
\* first its trace shows.
VantageAsn(c, p) == IF p \in DOMAIN probeListing THEN probe_asn(p) ELSE Override(p, atlas[p].asn)
-----------------------------------------------------------------------------
Init ==
    /\ atlas \in Worlds
    /\ probeListing = build_probe_listing /\ probeRegistry = build_asn_probe_registry
    /\ \E o \in Outset : finding = o.finding /\ latest = o.latest
    /\ still = FALSE

Move ==
    /\ atlas' \in Worlds \ {atlas}
    /\ still' = FALSE
    /\ UNCHANGED <<finding, probeListing, probeRegistry, latest>>

Relist ==
    /\ probeListing # build_probe_listing
    /\ probeListing' = build_probe_listing /\ still' = FALSE
    /\ UNCHANGED <<finding, atlas, probeRegistry, latest>>

Reregister ==
    /\ probeRegistry # build_asn_probe_registry
    /\ probeRegistry' = build_asn_probe_registry
    /\ UNCHANGED <<finding, atlas, probeListing, latest, still>>

\* The retest finds what it found before: those of its probes that are
\* connected report, and each is a corroboration, in any order.
Corroborate ==
    LET c == candidate_from_finding IN
    /\ c # None
    /\ \E asked \in Asked(c), target \in Targets :
       \E p \in asked \cap Connected(atlas) :
          latest' = [cc |-> c.cc, asn |-> VantageAsn(c, p),
                     probes |-> asked \cap Connected(atlas), target |-> target]
    /\ still' = (probeListing = build_probe_listing)
    /\ UNCHANGED <<finding, atlas, probeListing, probeRegistry>>

Next == Move \/ Relist \/ Reregister \/ Corroborate

Spec == Init /\ [][Next]_vars
-----------------------------------------------------------------------------
Where(p) == IF atlas[p].cc \in Economy THEN atlas[p].cc
            ELSE IF p \in DOMAIN PROBE_ECONOMY_OVERRIDES THEN PROBE_ECONOMY_OVERRIDES[p] ELSE None

\* Retests settle.  Once a finding was corroborated and nothing has moved since,
\* its next retest is of the same economy, or of its own upstream's; it goes
\* out from probes of one network, by their ids, and that is not the target's;
\* only one that would be from the target itself is passed over.
Settled ==
    still =>
        LET c == candidate_from_finding IN
        IF c = None THEN FromItself
        ELSE /\ c.cc \in {latest.cc, finding.cc}
             /\ source_probe_ids(c.asn, c.cc) # {}
             /\ ~same_network(c.asn, finding.target)

\* A wrong label is put right: with a current listing, a retest is of the one
\* economy the probes are in that measured last, whatever they were filed as.
FollowsItsProbes ==
    probeListing = build_probe_listing /\ candidate_from_finding # None /\ ~FromItself =>
        LET places == {Where(p) : p \in latest.probes} \ {None} IN
        \A cc \in places : places = {cc} => candidate_from_finding.cc = cc

\* A target outside the region is traced at the address it was found at, if
\* that is known, not at one RIS has of its network.
KeepsItsAddress ==
    LET known == {o.latest.target : o \in {q \in Outset : q.finding = finding}} IN
    finding.target \notin DOMAIN AsnToCc /\ None \notin known => latest.target \in known

\* The three together.
RetestsSettle == Settled /\ FollowsItsProbes /\ KeepsItsAddress
=============================================================================
