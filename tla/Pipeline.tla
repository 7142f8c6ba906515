------------------------------ MODULE Pipeline ------------------------------
(***************************************************************************)
(* The weekly pipeline: six steps, each a file rebuilt from the files of   *)
(* the steps before it and from outside sources.  A failed step is noted   *)
(* in the manifest and the next one goes on with what there is.  Each      *)
(* source fails in its own way: some raise, some keep what they had, some  *)
(* answer with nothing.  The exchange step is module IxpRegistry; here it  *)
(* only succeeds or fails.                                                 *)
(***************************************************************************)
EXTENDS Naturals, Sequences

CONSTANTS
    Asn, Home,      \* the economy APNIC, or a correction by hand, has an ASN in
    Supplementary,  \* SUPPLEMENTARY_ASNS
    Probe, Host,    \* probes, and the ASN Atlas (or an override) has each on
    Economy

VARIABLES
    excluded,   \* EXCLUDED_ASNS, as the owner extends it
    registry,   \* asn_registry.json
    rawPaths,   \* data/ris/raw: ASN -> whether RIS had paths
    rawV6,      \* data/ris/raw_v6_prefix_counts: ASN -> whether it counted any
    pdbCache,   \* peeringdb_cache.json: its age, and the ASNs it was asked about
    fishbowl,   \* fishbowl.json: ASN -> [paths, v6, onPeeringdb]
    leads,      \* irr_leads.json: ASN -> whether its AS-SET had members
    probes,     \* asn_probe_registry.json
    quarantine, \* probe_quarantine.json
    step, results,  \* the run: steps done, and what becomes the manifest
    cut,        \* history: EXCLUDED_ASNS when discovery last ran
    ris,        \* history: the last answer RIS gave on an ASN's paths
    judged      \* history: probes the last audit looked at

files == <<registry, rawPaths, rawV6, pdbCache, fishbowl, leads, probes, quarantine>>
run == <<step, results>>
history == <<cut, ris, judged>>
vars == <<excluded, files, run, history>>

NoFile == [a \in {} |-> FALSE]
NeverFetched == [age |-> "none", asked |-> {}, on |-> {}]

\* Mutant of Steps: the audit before the registry of probes.
AuditFirst == <<"discovery", "fishbowl", "ixp_lan_registry", "irr_leads",
                "probe_geo_audit", "asn_probe_registry">>

Steps == <<"discovery", "fishbowl", "ixp_lan_registry", "irr_leads",
           "asn_probe_registry", "probe_geo_audit">>

Idle == Len(Steps) + 1

Init ==
    /\ excluded = {}
    /\ registry = {} /\ rawPaths = NoFile /\ rawV6 = NoFile /\ pdbCache = NeverFetched
    /\ fishbowl = NoFile /\ leads = NoFile /\ probes = {} /\ quarantine = {}
    /\ step = Idle /\ results = [s \in {} |-> ""]
    /\ cut = {} /\ ris = [a \in Asn |-> "unasked"] /\ judged = {}

\* By the owner, at any time.
Exclude(a) == excluded' = excluded \cup {a} /\ UNCHANGED <<files, run, history>>

\* A month goes by.
Age ==
    /\ pdbCache.age = "fresh" /\ pdbCache' = [pdbCache EXCEPT !.age = "old"]
    /\ UNCHANGED <<excluded, registry, rawPaths, rawV6, fishbowl, leads, probes, quarantine, run, history>>

Start ==
    /\ step = Idle
    /\ step' = 1 /\ results' = [s \in {} |-> ""]
    /\ UNCHANGED <<excluded, files, history>>

At(name) == step < Idle /\ Steps[step] = name
Done(result) ==
    /\ step' = step + 1
    /\ results' = [s \in DOMAIN results \cup {Steps[step]} |->
                     IF s = Steps[step] THEN result ELSE results[s]]

\* What APNIC has allocated by now and the supplements, less the exclusions.
build_registry ==
    /\ At("discovery")
    /\ \E allocated \in SUBSET Asn : registry' = (allocated \cup Supplementary) \ excluded
    /\ cut' = excluded
    /\ Done("ok")
    /\ UNCHANGED <<excluded, rawPaths, rawV6, pdbCache, fishbowl, leads, probes, quarantine, ris, judged>>

Overwrite(file, new) ==
    [a \in DOMAIN file \cup DOMAIN new |-> IF a \in DOMAIN new THEN new[a] ELSE file[a]]

\* Mutant of PathsAfter: an ASN that cannot be fetched is written without paths.
WrittenAnyway(file, answers) == Overwrite(file, [a \in registry |->
                                  IF a \in DOMAIN answers THEN answers[a] ELSE FALSE])

\* Every week anew; an ASN that cannot be fetched keeps the paths it had.
PathsAfter(file, answers) == Overwrite(file, answers)

\* Once only; an ASN that cannot be fetched has no IPv6 from then on.
V6After(file, answers) ==
    Overwrite([a \in registry |-> a \in DOMAIN answers /\ answers[a]], file)

Answers(S) == UNION {[T -> BOOLEAN] : T \in SUBSET S}

\* Per ASN: whether it was fetched, and then whether there was any.
fetch_aspaths_for_asn == Answers(registry)
fetch_originated_prefixes == Answers(registry)

FetchRis ==
    \E paths \in fetch_aspaths_for_asn, v6 \in fetch_originated_prefixes :
        /\ rawPaths' = PathsAfter(rawPaths, paths)
        /\ rawV6' = V6After(rawV6, v6)
        /\ ris' = [a \in Asn |-> IF a \notin DOMAIN paths THEN ris[a]
                                ELSE IF paths[a] THEN "paths" ELSE "none"]

\* The networks PeeringDB has of those asked about; it answers or raises.
fetch_net_ids(S) == SUBSET S

\* Thirty days old or not there: asked about the ASNs of today.
FetchPeeringdb ==
    IF pdbCache.age = "fresh" THEN UNCHANGED pdbCache
    ELSE \E on \in fetch_net_ids(registry) : pdbCache' = [age |-> "fresh", asked |-> registry, on |-> on]

build_fishbowl ==
    /\ At("fishbowl")
    /\ FetchRis /\ FetchPeeringdb
    /\ fishbowl' = [a \in registry |->
         [paths |-> a \in DOMAIN rawPaths' /\ rawPaths'[a], v6 |-> rawV6'[a],
          onPeeringdb |-> a \in pdbCache'.on]]
    /\ Done("ok")
    /\ UNCHANGED <<excluded, registry, leads, probes, quarantine, cut, judged>>

\* PeeringDB raises when RIS has been fetched.
FishbowlFails ==
    /\ At("fishbowl") /\ pdbCache.age # "fresh"
    /\ FetchRis
    /\ Done("failed")
    /\ UNCHANGED <<excluded, registry, pdbCache, fishbowl, leads, probes, quarantine, cut, judged>>

build_ixp_lan_registry ==
    /\ At("ixp_lan_registry") /\ Done("ok")
    /\ UNCHANGED <<excluded, files, history>>

\* The ASNs whose AS-SET PeeringDB returns: a chunk it keeps refusing is left
\* out.  Whether the AS-SET has members: one that cannot be read has none.
fetch_irr_as_set_names == SUBSET registry
resolve_as_set == BOOLEAN

\* An ASN whose AS-SET PeeringDB does not return keeps its lead; one whose
\* AS-SET WHOIS does not return has none in it from now on.
build_irr_leads ==
    /\ At("irr_leads")
    /\ \E declared \in fetch_irr_as_set_names : \E found \in [declared -> resolve_as_set] :
        leads' = [a \in declared \cup (registry \cap DOMAIN leads) |->
                    IF a \in declared THEN found[a] ELSE leads[a]]
    /\ Done("ok")
    /\ UNCHANGED <<excluded, registry, rawPaths, rawV6, pdbCache, fishbowl, probes, quarantine, history>>

\* Whatever probes are connected.
build_asn_probe_registry ==
    /\ At("asn_probe_registry")
    /\ probes' \in SUBSET Probe
    /\ Done("ok")
    /\ UNCHANGED <<excluded, registry, rawPaths, rawV6, pdbCache, fishbowl, leads, quarantine, history>>

\* Where Atlas has each probe now, against the economy of its ASN.
Mismatched(p, place) == Host[p] \notin registry \/ place # Home[Host[p]]

probe_geo_audit ==
    /\ At("probe_geo_audit")
    /\ \E place \in [Probe -> Economy] : quarantine' = {p \in probes : Mismatched(p, place[p])}
    /\ judged' = probes
    /\ Done("ok")
    /\ UNCHANGED <<excluded, registry, rawPaths, rawV6, pdbCache, fishbowl, leads, probes, cut, ris>>

\* Any other exception, before the step has written anything.
StepFails == step < Idle /\ Done("failed") /\ UNCHANGED <<excluded, files, history>>

\* The process dies between two steps: no manifest.
Die ==
    /\ step < Idle /\ step' = Idle /\ results' = [s \in {} |-> ""]
    /\ UNCHANGED <<excluded, files, history>>

Next ==
    \/ \E a \in Asn : Exclude(a)
    \/ Age \/ Start \/ StepFails \/ Die
    \/ build_registry \/ build_fishbowl \/ FishbowlFails \/ build_ixp_lan_registry
    \/ build_irr_leads \/ build_asn_probe_registry \/ probe_geo_audit

Spec == Init /\ [][Next]_vars

Ok(s) == s \in DOMAIN results /\ results[s] = "ok"

\* What a manifest without failures in two dependent steps may be taken for:
\* an ASN excluded before discovery ran is no target any more, and no probe
\* is a source of its economy that was not looked at where it is.
RunHangsTogether ==
    step = Idle =>
        /\ Ok("discovery") /\ Ok("fishbowl") =>
            DOMAIN fishbowl = registry /\ registry \cap cut = {}
        /\ Ok("asn_probe_registry") /\ Ok("probe_geo_audit") =>
            \A p \in probes \ quarantine : p \in judged

\* A source that fails for an ASN takes nothing away: paths RIS has shown stay
\* in the fishbowl until RIS answers that there are none, and an AS-SET once
\* declared stays a lead as long as the ASN is in scope.
KnownIsKept ==
    [][/\ fishbowl' # fishbowl =>
            \A a \in DOMAIN fishbowl' : ris'[a] = "paths" => fishbowl'[a].paths
       /\ registry \cap DOMAIN leads \subseteq DOMAIN leads']_vars
=============================================================================
