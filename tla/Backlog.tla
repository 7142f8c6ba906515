------------------------------- MODULE Backlog -------------------------------
(***************************************************************************)
(* Which corridors are proposed, in which order, and what closes one: the  *)
(* probe files, the RIS view, the pairs marked tested and the findings, as *)
(* the process that reads them has them.  A batch is a run of one process, *)
(* which imports the findings once and reads the other files at each pick. *)
(* Only fresh corridors; the retests of findings are in Rotation.          *)
(***************************************************************************)
EXTENDS Integers, FiniteSets

CONSTANTS
    Asn,            \* numbers, as the order of the backlog compares them
    EconomyOf,      \* economy of an ASN in fishbowl.json
    Announcing,     \* ASNs with a prefix in RIS
    Probe, HostOf,  \* probes, and the ASN the registry files one under
    External,       \* EXTERNAL_NON_CANDIDATE_ASNS
    Quarantined,    \* QUARANTINED_ASN_SET
    WholesaleOnly,  \* DOMESTIC_WHOLESALE_ONLY_ASNS
    Siblings,       \* SAME_NETWORK_ASN_GROUPS
    Domestic,       \* DOMESTIC_TEST_ECONOMIES
    Seeds,          \* SEED_TESTED_ECONOMY_PAIRS
    Listings, Registries, Neighbourhoods,  \* what the refreshes may bring
    Nowhere, MaxRuns,
    MaxCuts         \* bound on the classifications broken off in their writes

ASSUME BacklogAssumption ==
    /\ Asn \subseteq Int /\ Announcing \subseteq Asn
    /\ HostOf \in [Probe -> Asn] /\ MaxRuns \in Nat /\ MaxCuts \in Nat
    /\ \A a \in Asn : EconomyOf[a] # Nowhere
    /\ Registries \subseteq SUBSET Probe

VARIABLES
    listing,    \* economy of a connected probe its host has placed, else Nowhere
    registry,   \* probes in the ASN registry
    neighbours, \* RIS neighbours in fishbowl.json
    tested,     \* tested_pairs.json
    findings,   \* the store: pairs and economies of each finding
    snapshot,   \* corridor_backlog_snapshot.json
    stage,      \* of the process: "idle", collecting "before" or "after" the
                \* "batch", or with the backlog "written" and not the snapshot
    run,        \* number of the batch, or of the last one
    imported,   \* findings the process imported when it started
    tried,      \* skip_this_run
    busy,       \* corridors the workers have in flight
    parked,     \* corridors whose measurement is parked
    fired,      \* history: every corridor picked, with its run
    settled,    \* history: how often a classification began to write about a pair
    cuts,       \* history: how many of them were broken off in between
    together    \* history: pairs in flight or parked with their reverse

files == <<listing, registry, neighbours>>
history == <<fired, settled, cuts, together>>
vars == <<files, tested, findings, snapshot, stage, run, imported, tried, busy,
          parked, history>>

Nothing == [asns |-> {}, seen |-> {}]

Init ==
    /\ listing \in Listings /\ registry \in Registries /\ neighbours \in Neighbourhoods
    /\ tested = {} /\ findings = {} /\ snapshot = Nothing
    /\ stage = "idle" /\ run = 0 /\ imported = {} /\ tried = {}
    /\ busy = {} /\ parked = {}
    /\ fired = {} /\ settled = [p \in Asn \X Asn |-> 0] /\ cuts = 0 /\ together = {}

Registered == {HostOf[p] : p \in registry}
LiveAt(a) == {listing[p] : p \in {q \in registry : HostOf[q] = a}} \ {Nowhere}
SameNetwork(a, b) == a = b \/ \E g \in Siblings : {a, b} \subseteq g
Adjacencies == UNION {{<<a, n>> : n \in neighbours[a]} : a \in Asn}

NewProbes == Registered \ snapshot.asns
NewNeighbours == Adjacencies \ snapshot.seen

\* Only transit and candidate findings name both networks; a detour does not.
TestedPairs == tested \cup {f.edge : f \in {g \in imported : g.kind = "edge"}}
\* Mutant of ClosedEconomies: detours, which name no source network, are left out.
DetoursForgotten == Seeds \cup {f.economies : f \in {g \in imported : g.kind = "edge"}}

ClosedEconomies == Seeds \cup {f.economies : f \in imported}

Pair(c) == <<c.from, c.to>>
Reverse(p) == <<p[2], p[1]>>
IsDomestic(c) == c.at = EconomyOf[c.to]
EconomyPair(c) == {c.at, EconomyOf[c.to]}

\* Mutant of Proposed: the reverse of a tested pair is proposed.
ProposesReverse(c) ==
    /\ c.at \in LiveAt(c.from)
    /\ {c.from, c.to} \cap (External \cup Quarantined) = {}
    /\ c.to \in Announcing
    /\ ~SameNetwork(c.from, c.to)
    /\ IsDomestic(c) => c.at \in Domestic /\ c.from \notin WholesaleOnly
    /\ Pair(c) \notin TestedPairs
    /\ ~IsDomestic(c) => EconomyPair(c) \notin ClosedEconomies

Proposed(c) ==
    /\ c.at \in LiveAt(c.from)
    /\ {c.from, c.to} \cap (External \cup Quarantined) = {}
    /\ c.to \in Announcing
    /\ ~SameNetwork(c.from, c.to)
    /\ IsDomestic(c) => c.at \in Domestic /\ c.from \notin WholesaleOnly
    /\ {Pair(c), Reverse(Pair(c))} \cap TestedPairs = {}
    /\ ~IsDomestic(c) => EconomyPair(c) \notin ClosedEconomies

Candidates ==
    {c \in UNION {[from : {a}, at : LiveAt(a), to : Asn] : a \in Asn} : Proposed(c)}

Places(c) == <<
    IF c.from \in NewProbes THEN 0 ELSE 1,
    IF {Pair(c), Reverse(Pair(c))} \cap NewNeighbours # {} THEN 0 ELSE 1,
    c.from, c.to>>

\* The sort key of the backlog is compared place by place.
Ahead(c, d) == \E i \in 1..4 :
    /\ Places(c)[i] < Places(d)[i]
    /\ \A j \in 1..(i - 1) : Places(c)[j] = Places(d)[j]
First(S) == {c \in S : \A d \in S : ~Ahead(d, c)}

\* The weekly pipeline and the nightly listing, in processes of their own.
Refresh ==
    /\ stage = "idle"
    /\ listing' \in Listings /\ registry' \in Registries /\ neighbours' \in Neighbourhoods
    /\ UNCHANGED <<tested, findings, snapshot, stage, run, imported, tried, busy, parked, history>>

Start ==
    /\ stage = "idle" /\ run < MaxRuns
    /\ stage' = "before" /\ run' = run + 1
    /\ imported' = findings
    /\ UNCHANGED <<files, tested, findings, snapshot, tried, busy, parked, history>>

\* The workers start, and have all been joined; only they look at what was
\* imported and tried.
Work ==
    /\ stage = "before" /\ stage' = "batch"
    /\ UNCHANGED <<files, tested, findings, snapshot, run, imported, tried, busy, parked, history>>

Join ==
    /\ stage = "batch" /\ busy = {}
    /\ stage' = "after" /\ imported' = {} /\ tried' = {}
    /\ UNCHANGED <<files, tested, findings, snapshot, run, busy, parked, history>>

Free(c) ==
    /\ c.from \notin {d.from : d \in busy}
    /\ Pair(c) \notin tried \cup {Pair(d) : d \in parked}

\* The backlog is read again for every pick, under the batch's lock.
Pick ==
    /\ stage = "batch"
    /\ \E c \in First({d \in Candidates : Free(d)}) :
        /\ busy' = busy \cup {c}
        /\ fired' = fired \cup {[corridor |-> c, run |-> run]}
        /\ together' = IF Reverse(Pair(c)) \in {Pair(d) : d \in busy \cup parked}
                       THEN together \cup {{c.from, c.to}} ELSE together
    /\ UNCHANGED <<files, tested, findings, snapshot, stage, run, imported, tried, parked, settled, cuts>>

Detour(c) == [kind |-> "detour", economies |-> EconomyPair(c), edge |-> <<>>, run |-> run]
Edge(u, c) == [kind |-> "edge", economies |-> {EconomyOf[u], EconomyOf[c.to]},
               edge |-> <<u, c.to>>, run |-> run]

\* What a classification may file: nothing, a detour, or an edge into the
\* target from whichever network of the region the traces arrived through.
Outcomes(c) == {{}, {Detour(c)}} \cup {{Edge(u, c)} : u \in Asn \ {c.to}}

\* Findings and corroborations are committed before the pair is marked.
File(c) ==
    /\ \E filed \in Outcomes(c) : findings' = findings \cup filed
    /\ settled' = [settled EXCEPT ![Pair(c)] = @ + 1]

mark_corridor_tested(c) == tested' = tested \cup {Pair(c)}

Settle(c) == File(c) /\ mark_corridor_tested(c) /\ UNCHANGED cuts

\* A commit or tested_pairs.json fails after some of it was filed; the pair
\* stays untested.
BreakOff(c) ==
    /\ cuts < MaxCuts /\ cuts' = cuts + 1
    /\ File(c) /\ UNCHANGED tested

Conclude(c) ==
    /\ Settle(c) /\ busy' = busy \ {c}
    /\ UNCHANGED <<files, snapshot, stage, run, imported, tried, parked, fired, together>>

\* The worker's except clause, the writing begun: nothing is parked.  (Raised
\* after the mark, it skips a pair which being tested excludes anyway.)
FailWriting(c) ==
    /\ BreakOff(c) /\ tried' = tried \cup {Pair(c)} /\ busy' = busy \ {c}
    /\ UNCHANGED <<files, snapshot, stage, run, imported, parked, fired, together>>

\* No probe answered, or an exception before anything was written.
Fail(c) ==
    /\ tried' = tried \cup {Pair(c)} /\ busy' = busy \ {c}
    /\ UNCHANGED <<files, tested, findings, snapshot, stage, run, imported, parked, history>>

Park(c) ==
    /\ parked' = parked \cup {c} /\ busy' = busy \ {c}
    /\ UNCHANGED <<files, tested, findings, snapshot, stage, run, imported, tried, history>>

\* Classified, broken off and not parked again, or given up on.
Collect(c) ==
    /\ stage \in {"before", "after"} /\ parked' = parked \ {c}
    /\ \/ Settle(c) \/ BreakOff(c)
       \/ UNCHANGED <<tested, findings, settled, cuts>>
    /\ UNCHANGED <<files, snapshot, stage, run, imported, tried, busy, fired, together>>

\* The regeneration is a process of its own: it imports the findings anew,
\* writes corridor_backlog.md and then the snapshot.
Regenerate ==
    /\ stage \in {"idle", "after"}
    /\ stage' = "written" /\ imported' = findings /\ tried' = {}
    /\ UNCHANGED <<files, tested, findings, snapshot, run, busy, parked, history>>

SaveSnapshot ==
    /\ stage = "written" /\ stage' = "idle"
    /\ snapshot' = [asns |-> Registered, seen |-> Adjacencies]
    /\ imported' = {}
    /\ UNCHANGED <<files, tested, findings, run, tried, busy, parked, history>>

\* Whatever the process had written is there: what it was about to write when
\* it died in a write phase is BreakOff's.
Die ==
    /\ stage # "idle" /\ stage' = "idle"
    /\ busy' = {} /\ imported' = {} /\ tried' = {}
    /\ UNCHANGED <<files, tested, findings, snapshot, run, parked, history>>

Next ==
    \/ Refresh \/ Start \/ Work \/ Join \/ Regenerate \/ SaveSnapshot \/ Pick \/ Die
    \/ \E c \in busy : Conclude(c) \/ FailWriting(c) \/ Fail(c) \/ Park(c)
    \/ \E c \in parked : Collect(c)

Spec == Init /\ [][Next]_vars

\* Nothing is written about a pair that a classification has marked tested, and
\* about its reverse only if the two corridors were in flight or parked at the
\* same time: workers and parked measurements exclude the direction they are in,
\* not the reverse.  So a pair is classified again only after its
\* classification was broken off between the findings and the mark.
SettledOnce ==
    [][\A p \in Asn \X Asn : settled'[p] # settled[p] =>
        /\ p \notin tested
        /\ Reverse(p) \in tested => {p[1], p[2]} \in together]_vars

\* Once a finding covers two economies no later batch fires a corridor between
\* them, wherever the finding's own probes were.  The batch that filed it may
\* go on: it imported the findings when it started.
ClosedEconomiesStay ==
    \A f \in findings, x \in fired :
        /\ ~IsDomestic(x.corridor)
        /\ EconomyPair(x.corridor) = f.economies
        => x.run <= f.run
=============================================================================
