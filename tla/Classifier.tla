----------------------------- MODULE Classifier -----------------------------
(***************************************************************************)
(* The rules of analysis/auto_classify.py: what _classify_corridor decides *)
(* to file, and to escalate, from the traces of one measurement's probes.  *)
(*                                                                         *)
(* A probe's trace is reduced to what the rules ask of it:                 *)
(*   first       the first ASN is the source's ("local") or a proxy's      *)
(*   loop        no routing loop, a known one, or a new one                *)
(*   crossings   the exchanges crossed, in order: in_fishbowl, the city    *)
(*               (Unmapped: no coordinates), and slow: the local crossing  *)
(*               adds more than LOCAL_IXP_LATENCY_THRESHOLD_MS             *)
(*   up          check_neighbor_agreement's upstream ASN, with ris,        *)
(*               contiguous; reached: the target is in the AS sequence;    *)
(*               hidden: hidden_hops_reason gives one                      *)
(*   hub         find_router_hub's result: its city, the verdict of the    *)
(*               fibre floor, the ASNs BGP gives the router's address      *)
(*   floors      floors[c]: the worst of check_detour_trace's two checks,  *)
(*               were the claim a detour via c ("no_hop", too, if an       *)
(*               economy has no coordinates or the traces cannot be read)  *)
(*                                                                         *)
(* Probes come in a sequence: the code walks them in order, and several    *)
(* rules keep the first that fits.                                         *)
(***************************************************************************)
EXTENDS Naturals, Sequences, FiniteSets, FiniteSetsExt

CONSTANTS
    Asn,            \* networks
    Fishbowl,       \* those of asn_registry.json, the Pacific's own
    City,           \* hub cities with coordinates (EXTERNAL_HUB_LATLON)
    Unmapped,       \* any other city
    None            \* no upstream, no router hub, no detour

ASSUME ClassifierAssumption ==
    /\ Fishbowl \subseteq Asn /\ None \notin Asn /\ Unmapped \notin City
    /\ None \notin [by : {"ixp", "router"}, city : City \cup {Unmapped}]

Crossing == [in : {"TBA", "out", "local"}, city : City \cup {Unmapped}, slow : BOOLEAN]
Hub == [city : City \cup {Unmapped}, floor : {"ok", "too_fast", "unmapped"}, owners : SUBSET Asn]

\* What is at some places in a sequence, in its order.
Chosen(s, places) ==
    [n \in 1..Cardinality(places) |->
        s[CHOOSE i \in places : Cardinality({j \in places : j <= i}) = n]]

\* The probes' traces come in a sequence, as do the crossings of each; and each
\* has a floor for every city a detour may be via.
Readable(ps) ==
    /\ ps \in Seq(Range(ps))
    /\ \A p \in Range(ps) :
         /\ p.crossings \in Seq(Range(p.crossings))
         /\ \A c \in City : p.floors[c] \in {"ok", "impossible", "no_hop"}
         /\ p.hub # None /\ p.hub.floor = "ok" => p.hub.city \in City
-----------------------------------------------------------------------------
\* Rule 0.
Clean(ps) == Chosen(ps, {i \in DOMAIN ps : ps[i].first = "local"})

\* Rule 2: the first crossing of an exchange in a mapped hub city.
HubCrossings(p) ==
    {n \in DOMAIN p.crossings : p.crossings[n].in = "out" /\ p.crossings[n].city \in City}
IxpPick(ps) ==
    LET crossing == {i \in DOMAIN ps : HubCrossings(ps[i]) # {}}
        first == ps[Min(crossing)]
    IN IF crossing = {} THEN None
       ELSE [by |-> "ixp", city |-> first.crossings[Min(HubCrossings(first))].city]

\* Mutation of HubVerdict: the network guard is left out.
HubVerdictUnguarded(h) == h.floor

\* The network guard: an off-region name on an address of a Pacific network,
\* or on one without a single owner, is never filed by itself.
HubVerdict(h) ==
    IF h.floor # "ok" THEN h.floor
    ELSE IF h.owners \cap Fishbowl # {} THEN "in_region"
    ELSE IF Cardinality(h.owners) # 1 THEN "no_owner"
    ELSE "ok"

\* Router hubs are looked for only if no exchange gave a detour.
RouterHubs(ps) == {p.hub : p \in {q \in Range(ps) : IxpPick(ps) = None /\ q.hub # None}}
HubCities(ps) == {h.city : h \in {g \in RouterHubs(ps) : HubVerdict(g) = "ok"}}

\* Mutation of RouterPick: the first router decides.
RouterPickFirst(ps) ==
    IF HubCities(ps) = {} THEN None
    ELSE [by |-> "router",
          city |-> SelectSeq(ps, LAMBDA p : p.hub # None /\ HubVerdict(p.hub) = "ok")[1].hub.city]

RouterPick(ps) ==
    IF Cardinality(HubCities(ps)) # 1 THEN None
    ELSE [by |-> "router", city |-> CHOOSE c \in HubCities(ps) : TRUE]

DetourPick(ps) == IF IxpPick(ps) # None THEN IxpPick(ps) ELSE RouterPick(ps)

(***************************************************************************)
(* Validation Rule 2 (_detour_feasibility): the claim rests on the probes  *)
(* that crossed the hub, or on all of them if none did.                    *)
(***************************************************************************)
CrossesHub(p, pick) ==
    \/ \E x \in Range(p.crossings) : x.city = pick.city
    \/ pick.by = "router" /\ p.hub # None /\ HubVerdict(p.hub) = "ok" /\ p.hub.city = pick.city

ClaimProbes(ps, pick) ==
    LET crossed == {p \in Range(ps) : CrossesHub(p, pick)} IN
    IF crossed = {} THEN Range(ps) ELSE crossed

ClaimVerdict(ps, pick) ==
    LET said == {p.floors[pick.city] : p \in ClaimProbes(ps, pick)} \ {"no_hop"} IN
    CASE said = {} -> "no_hop"
      [] said = {"ok"} -> "ok"
      [] said = {"impossible"} -> "impossible"
      [] OTHER -> "mixed"

\* Mutation of Detour: an impossible claim is escalated and filed all the same.
DetourAnyway(ps) == DetourPick(ps)

\* The detour that is filed.
Detour(ps) ==
    LET pick == DetourPick(ps) IN
    IF pick # None /\ ClaimVerdict(ps, pick) = "impossible" THEN None ELSE pick
-----------------------------------------------------------------------------
\* Rule 3, and rule 4 with its demand for real hop data up to the target.
ShowsTransit(p) == p.up \in Fishbowl /\ p.ris /\ p.contiguous
ShowsCandidate(p) == p.up # None /\ ~p.ris /\ p.reached /\ p.contiguous /\ ~p.hidden

TransitPick(ps) ==
    LET picks == {i \in DOMAIN ps : ShowsTransit(ps[i])} IN
    IF picks = {} THEN None ELSE ps[Min(picks)].up
CandidatePicks(ps) == Chosen(ps, {i \in DOMAIN ps : ShowsCandidate(ps[i])})

\* Why a run asks for a human look.
Crosses(ps, kind) == \E p \in Range(ps) : \E x \in Range(p.crossings) : x.in = kind

\* Mutation of TbaCrossed: an exchange nobody has classified is passed over.
TbaIgnored(ps) == FALSE

TbaCrossed(ps) == Crosses(ps, "TBA") /\ DetourPick(ps) = None

SlowLocal(ps) == \E p \in Range(ps) : \E x \in Range(p.crossings) : x.in = "local" /\ x.slow

Claim(ps) ==
    IF DetourPick(ps) = None THEN "no_hop" ELSE ClaimVerdict(ps, DetourPick(ps))

Escalations(ps) ==
    ({HubVerdict(h) : h \in RouterHubs(ps)} \ {"ok"})
    \cup {r \in {"loop", "several_cities", "tba", "slow_local", "infeasible", "mixed"} :
            CASE r = "loop" -> \E p \in Range(ps) : p.loop = "new"
              [] r = "several_cities" -> Cardinality(HubCities(ps)) > 1
              [] r = "tba" -> TbaCrossed(ps)
              [] r = "slow_local" -> SlowLocal(ps)
              [] r = "infeasible" -> Claim(ps) = "impossible"
              [] r = "mixed" -> Claim(ps) = "mixed"}
=============================================================================
