------------------------------- MODULE Filing -------------------------------
(***************************************************************************)
(* From a measurement's traces to the database: _classify_corridor's rules *)
(* (Classifier) applied to one measurement after another, _finalize filing *)
(* what they say (FindingsStore), and the weekly ASPA recheck promoting    *)
(* candidates between two nights.                                          *)
(*                                                                         *)
(* Everything here happens under run_batch's write lock, one measurement   *)
(* at a time; each step is one commit or one file, and the run may raise   *)
(* between any two of them.                                                *)
(***************************************************************************)
EXTENDS Classifier, FindingsStore

CONSTANTS
    EconomyOf,      \* EconomyOf[a]: the economy of source network a
    Target,         \* target networks
    Traces,         \* the sequences of traces a measurement can return
    MaxRuns,        \* bound on the number of measurements
    MaxFailures     \* and on those that raise

ASSUME FilingAssumption ==
    /\ NULL = None
    /\ \A traces \in Traces : Readable(traces)

Fresh == 0          \* a run that re-tests no finding
Source == DOMAIN EconomyOf

VARIABLES
    run,            \* the measurement being filed, or NoRun (since: history, the
                    \* id the first finding it files would get)
    tested,         \* tested_pairs.json
    runs,           \* measurements so far; the current one's id
    failed          \* history: runs that raised while they were writing

vars == <<store, run, tested, runs, failed>>

NoRun == [stage |-> "idle"]

\* The groups of evidence _finalize files: for one adjacency each, with the
\* probes that show it; create: file the adjacency if it is not on file.
Group(kind, up, probes, create) == [kind |-> kind, up |-> up, probes |-> probes, create |-> create]
Through(ps, up) == Chosen(ps, {i \in DOMAIN ps : ps[i].up = up})

\* Mutation of Groups: every probe's evidence goes to the first upstream.
GroupsLumped(ps) ==
    IF Detour(ps) # None THEN {Group("detour", None, ps, TRUE)}
    ELSE IF TransitPick(ps) # None THEN {Group("transit", TransitPick(ps), ps, TRUE)}
    ELSE IF CandidatePicks(ps) = <<>> THEN {}
    ELSE {Group("candidate", CandidatePicks(ps)[1].up, CandidatePicks(ps), TRUE)}

\* Mutation of Groups: a detour run files the transit edge it sees as well.
GroupsWithNewEdge(ps) ==
    {Group("detour", None, ps, TRUE) : d \in {Detour(ps)} \ {None}}
    \cup {Group("transit", up, Through(ps, up), TRUE) : up \in {TransitPick(ps)} \ {None}}

Groups(ps) ==
    LET detour == Detour(ps)
        transit == TransitPick(ps)
        picks == CandidatePicks(ps)
    IN  IF detour # None
          THEN {Group("detour", None, ps, TRUE)} \cup
               {Group("transit", up, Through(ps, up), FALSE) :
                   up \in {transit} \ {u \in {None} \cup Asn : u = None \/ detour.by = "ixp"}}
        ELSE IF transit # None THEN {Group("transit", transit, Through(ps, transit), TRUE)}
        ELSE {Group("candidate", up, Through(picks, up), TRUE) : up \in {p.up : p \in Range(picks)}}
-----------------------------------------------------------------------------
Init == StoreInit /\ run = NoRun /\ tested = {} /\ runs = 0 /\ failed = {}

\* A measurement from network src comes back.  A retest may be fired from
\* another economy than its finding's: _original_vantage corrects labels.
Classify(src, tgt, retest, traces) ==
    /\ run.stage = "idle" /\ runs < MaxRuns
    /\ retest # Fresh => Row(retest).tgt = tgt
    /\ runs' = runs + 1
    /\ LET clean == Clean(traces) IN
       run' = [stage |-> IF traces = <<>> THEN "escalate" ELSE "file",
               src |-> src, tgt |-> tgt, retest |-> retest,
               traces |-> traces, since |-> nextId,
               groups |-> Groups(clean), finding |-> 0, left |-> <<>>]
    /\ UNCHANGED <<store, tested, failed>>

\* Mutation of Existing: a re-tested detour is looked up by economy only.
ExistingByEconomy(g) ==
    IF g.kind = "detour" THEN FindExistingDetour(EconomyOf[run.src], run.tgt)
    ELSE FindExisting(g.kind, g.up, run.tgt)

\* _reverified_detour first: the finding under retest, if it is one of this
\* target's detours; then the lookups by identity.
Existing(g) ==
    IF g.kind # "detour" THEN FindExisting(g.kind, g.up, run.tgt)
    ELSE LET retested == {i \in Ids \cap {run.retest} : Row(i).kind = "detour" /\ Row(i).tgt = run.tgt} IN
         IF retested # {} THEN retested ELSE FindExistingDetour(EconomyOf[run.src], run.tgt)

\* The detour before the edge it refreshes, the upstream most probes show
\* before the others.
Turn(g) == \A h \in run.groups : h.create => g.create /\ Len(h.probes) <= Len(g.probes)

\* Mutation of Take: the adjacency is filed without its evidence.
TakeNothing(g, finding) ==
    run' = [run EXCEPT !.groups = @ \ {g}, !.finding = finding]

Take(g, finding) ==
    run' = [run EXCEPT !.groups = @ \ {g}, !.finding = finding, !.left = g.probes]

Extend(g) ==
    /\ run.stage = "file" /\ run.left = <<>> /\ Turn(g)
    /\ \E i \in Existing(g) : Take(g, i)
    /\ UNCHANGED <<store, tested, runs, failed>>

Create(g) ==
    /\ run.stage = "file" /\ run.left = <<>> /\ Turn(g)
    /\ Existing(g) = {} /\ g.create
    /\ CreateFinding(g.kind, IF g.kind = "detour" THEN EconomyOf[run.src] ELSE None, g.up, run.tgt)
    /\ Take(g, nextId)
    /\ UNCHANGED <<tested, runs, failed>>

\* There is no such edge on file to refresh.
Skip(g) ==
    /\ run.stage = "file" /\ run.left = <<>> /\ Turn(g)
    /\ Existing(g) = {} /\ ~g.create
    /\ run' = [run EXCEPT !.groups = @ \ {g}]
    /\ UNCHANGED <<store, tested, runs, failed>>

\* _corroborate, one probe.
Corroborate ==
    /\ run.stage = "file" /\ run.left # <<>>
    /\ AddCorroboration([finding |-> run.finding, msm |-> runs, up |-> Head(run.left).up,
                         cc |-> EconomyOf[run.src], retest |-> run.retest])
    /\ run' = [run EXCEPT !.left = Tail(@)]
    /\ UNCHANGED <<tested, runs, failed>>

\* mark_corridor_tested, after everything is filed.
MarkTested ==
    /\ run.stage = "file" /\ run.left = <<>> /\ run.groups = {}
    /\ tested' = tested \cup {<<run.src, run.tgt>>}
    /\ run' = [run EXCEPT !.stage = "escalate"]
    /\ UNCHANGED <<store, runs, failed>>

\* _write_escalations, and back to the batch.
Finish ==
    /\ run.stage = "escalate"
    /\ run' = NoRun
    /\ UNCHANGED <<store, tested, runs, failed>>

\* The database is locked, the disk is full: run_batch logs it and goes on.
Raise ==
    /\ run.stage # "idle" /\ Cardinality(failed) < MaxFailures
    /\ run' = NoRun
    /\ failed' = failed \cup {runs}
    /\ UNCHANGED <<store, tested, runs>>

\* recheck_aspa_candidates, one finding the target's ASPA record confirms.
Promote(i) ==
    /\ run.stage = "idle" /\ Row(i).kind = "candidate"
    /\ MarkAspaChecked(i)
    /\ UNCHANGED <<run, tested, runs, failed>>

FileGroup == run.stage = "file" /\ \E g \in run.groups : Extend(g) \/ Create(g) \/ Skip(g)

Measure(S) ==
    \E src \in Source, tgt \in Target, retest \in Ids \cup {Fresh}, traces \in S :
        Classify(src, tgt, retest, traces)

Advance == FileGroup \/ Corroborate \/ MarkTested \/ Finish \/ Raise \/ \E i \in Ids : Promote(i)

Next == Measure(Traces) \/ Advance

Spec == Init /\ [][Next]_vars
-----------------------------------------------------------------------------
\* Evidence is for the finding it is filed under: the adjacency's own
\* upstream, or a detour from the trace's own economy unless the trace was a
\* retest of that very detour.  (In 2026 probe 64953's chain through AS3605
\* was filed under AS7131.)
EvidenceMatches ==
    \A n \in DOMAIN corrs : LET c == corrs[n]  f == Row(c.finding) IN
        IF f.kind = "detour" THEN c.cc = f.cc \/ c.retest = f.id ELSE c.up = f.asn

\* A retest that finds its detour again refreshes that finding, wherever its
\* probes have turned out to be; it files no other detour.  Otherwise the
\* finding would stay the oldest and be queued again every rotation.
RetestRefreshes ==
    \A n \in DOMAIN corrs : LET c == corrs[n] IN
        c.retest # Fresh /\ Row(c.finding).kind = "detour" /\ Row(c.retest).kind = "detour"
            => c.finding = c.retest

\* A run says one thing of a corridor: it never writes about a transit edge and
\* a candidate, and the findings it creates, if any, are of the kind it writes
\* about.  Only a detour run may give a transit edge evidence too, and then one
\* that is on file: whether the detour is new or on file itself, it creates none.
Made == {f.kind : f \in {g \in findings : g.id >= run.since}}
Written == {Row(corrs[n].finding).kind : n \in {m \in DOMAIN corrs : corrs[m].msm = runs}}
OneKindPerRun ==
    run.stage # "idle" =>
        /\ \A k, l \in Made \cup Written : k # l => {k, l} = {"detour", "transit"}
        /\ \A k \in Made : k # "detour" => Made \cup Written = {k}

\* A finding without evidence can never be re-tested (_candidate_from_finding
\* finds no vantage).  Each run that raised while writing leaves at most one,
\* and a run that is writing has at most one of its own.
OneBareFindingPerFailure ==
    Cardinality({f \in findings : Evidence(f.id) = {}})
        <= Cardinality(failed) + (IF run.stage = "file" /\ run.left # <<>> THEN 1 ELSE 0)

\* A run that files nothing and asks for nobody's look ("inconclusive", and
\* never tested again) saw no new loop, no router off region by its name, no
\* exchange without a verdict or slower than a local one, and no upstream it
\* could read.  Two things the rules do pass over in silence, against what
\* auto_classify.py says of them (ExternalUpstreamEscalates): an exchange out of
\* the region in a city without coordinates, and an upstream out of the region
\* that RIS confirms.
PassedOver(crossing) == crossing.in = "out" /\ crossing.city \notin City
ExternalUpstream(p) == p.ris /\ p.contiguous /\ p.up \notin Fishbowl \cup {None}
Unread(p) == p.up = None \/ ~p.contiguous \/ (~p.ris /\ (~p.reached \/ p.hidden))
InconclusiveIsQuiet ==
    run.stage = "escalate" /\ run.traces # <<>> =>
        LET clean == Clean(run.traces) IN
        Groups(clean) = {} /\ Escalations(clean) = {} =>
            \A p \in Range(clean) :
                /\ p.loop # "new" /\ p.hub = None
                /\ \A x \in Range(p.crossings) :
                     /\ x.in # "TBA"
                     /\ x.in = "local" => ~x.slow
                     /\ x.in = "out" => PassedOver(x)
                /\ Unread(p) \/ ExternalUpstream(p)

\* A detour filed on a router's name alone rests on a router of one foreign
\* network, answering no faster than light allows, and on probes that agree
\* on the city: no Pacific network's own or misnamed router makes a detour.
RouterDetourIsGuarded ==
    run.stage = "file" =>
        LET clean == Clean(run.traces)  d == Detour(clean) IN
        d # None /\ d.by = "router" =>
            /\ \E p \in Range(clean) : p.hub # None /\ p.hub.city = d.city /\ p.hub.floor = "ok"
            /\ \A p \in Range(clean) :
                 p.hub # None /\ p.hub.floor = "ok" /\ p.hub.owners \subseteq Asn \ Fishbowl
                   /\ Cardinality(p.hub.owners) = 1 => p.hub.city = d.city
            /\ \E p \in Range(clean) : p.hub # None /\ p.hub.city = d.city
                   /\ p.hub.owners # {} /\ p.hub.owners \cap Fishbowl = {}

\* Which city is filed does not depend on the order of the probes when no
\* exchange gave it: "which city got filed used to depend on probe order".
Reversed(s) == [i \in DOMAIN s |-> s[Len(s) + 1 - i]]
RouterOrderIrrelevant ==
    run.stage = "file" =>
        LET clean == Clean(run.traces) IN
        IxpPick(clean) = None => Detour(clean) = Detour(Reversed(clean))

\* No detour is filed that every probe it rests on contradicts.
NoImpossibleDetour ==
    run.stage = "file" =>
        LET clean == Clean(run.traces)  d == Detour(clean) IN
        d # None /\ (\E p \in Range(clean) : CrossesHub(p, d) /\ p.floors[d.city] = "impossible") =>
            \E p \in Range(clean) : CrossesHub(p, d) /\ p.floors[d.city] = "ok"

\* Findings never disappear, keep their identity and their evidence, and
\* change kind only from candidate to transit.
FindingsOnlyGrow ==
    [][/\ \A f \in findings : \E g \in findings' :
            /\ g = [f EXCEPT !.kind = g.kind]
            /\ g.kind # f.kind => f.kind = "candidate" /\ g.kind = "transit"
       /\ Len(corrs') >= Len(corrs) /\ \A n \in DOMAIN corrs : corrs'[n] = corrs[n]]_vars

\* "An external upstream at a hub with no known coordinates" is what the
\* escalations are for (their file's header); of its two halves auto_classify.py
\* says that "unmapped hubs escalate instead of guessing" (rule 2), and that an
\* external upstream no hub was resolved for "escalates rather than being filed
\* as a locationless detour" (rule 3).
ExternalUpstreamEscalates ==
    run.stage = "file" =>
        LET clean == Clean(run.traces) IN
        Detour(clean) = None
          /\ (\E p \in Range(clean) :
                ExternalUpstream(p) /\ \E x \in Range(p.crossings) : PassedOver(x))
            => Groups(clean) # {} \/ Escalations(clean) # {}
=============================================================================
