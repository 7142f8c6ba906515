------------------------------- MODULE Record -------------------------------
(***************************************************************************)
(* The findings as the reports read them: migrated once from the tables    *)
(* that were kept by hand, filed and promoted since, exported to the       *)
(* committed file and rebuilt from it.  Every statement commits by itself. *)
(* Filing.tla says which findings a measurement makes; here one of a small *)
(* set is filed, with all the columns a report looks at.                   *)
(***************************************************************************)
EXTENDS Naturals, Sequences, FiniteSets, FiniteSetsExt, SequencesExt, TLC

CONSTANTS
    Legacy,         \* the three tables kept by hand, one after the other
    Fact,           \* what a classification may file: [row, evidence]
    QUARANTINED_ASN_SET, HELD_FINDING_KEYS,
    None,
    MaxRows, MaxCorrs   \* bounds on the two tables

VARIABLES
    rows,           \* table findings by id: none is ever deleted
    corrs,          \* table corroborations, in the order of their ids
    export          \* findings_export.jsonl

record == <<rows, corrs, export>>

Detour == "confirmed_detour"
Transit == "confirmed_local_transit"
Candidate == "candidate_peering"

\* SQL's order of the kinds, which are text.
KindRank == [k \in {Detour, Transit, Candidate} |->
               CASE k = Candidate -> 1 [] k = Detour -> 2 [] k = Transit -> 3]

\* A note is the ASNs it mentions and the highest corroboration it counts.
BlankNote == [asns |-> {}, ordinal |-> 1]
Merged(notes) == [asns |-> UNION {n.asns : n \in notes}, ordinal |-> Max({n.ordinal : n \in notes})]
-----------------------------------------------------------------------------
\* Hand-kept entries that are one finding now: those of a detour's, or a
\* candidate's, economy and target.
SameFinding(e, f) == e.kind = f.kind /\ e.kind # Transit /\ e.cc = f.cc /\ e.tgt = f.tgt
IsFirst(n) == \A m \in 1..(n - 1) : ~SameFinding(Legacy[m], Legacy[n])
Firsts == SelectSeq([n \in DOMAIN Legacy |-> n], IsFirst)
FindingOf(n) == CHOOSE k \in DOMAIN Firsts : n = Firsts[k] \/ SameFinding(Legacy[Firsts[k]], Legacy[n])

LegacyRow(k) ==
    LET e == Legacy[Firsts[k]] IN
    [kind |-> e.kind, cc |-> e.cc, asn |-> IF e.kind = Detour THEN None ELSE e.asn,
     tcc |-> e.tcc, tgt |-> e.tgt,
     ix |-> IF e.kind = Detour THEN e.ix ELSE None, hub |-> IF e.kind = Detour THEN e.hub ELSE None,
     note |-> Merged({Legacy[n].note : n \in {m \in DOMAIN Legacy : FindingOf(m) = k}}),
     aspa |-> FALSE, checked |-> FALSE]

LegacyEvidence(n) ==
    LET e == Legacy[n] IN
    [msm |-> e.msm, vp |-> IF e.kind = Detour THEN e.cc ELSE e.vp,
     count |-> IF e.kind = Candidate THEN None ELSE e.count,
     agrees |-> e.kind # Candidate, chain |-> {}, crosses |-> None]

migrate ==
    /\ rows = [k \in DOMAIN Firsts |-> LegacyRow(k)]
    /\ corrs = [n \in DOMAIN Legacy |-> [finding |-> FindingOf(n), ev |-> LegacyEvidence(n)]]

RecordInit == migrate /\ export = <<>>
-----------------------------------------------------------------------------
\* (A query that does not tell rows apart returns them in the order of the ids.)
Before(i, j) ==
    LET r == rows[i]  s == rows[j]
        First(x, y, rest) == x < y \/ (x = y /\ rest) IN
    First(KindRank[r.kind], KindRank[s.kind], First(r.tgt, s.tgt, First(r.cc, s.cc, i < j)))

\* By kind, target and economy.
all_findings == SortSeq([n \in DOMAIN rows |-> n], Before)

get_corroborations(i) ==
    LET own == SelectSeq(corrs, LAMBDA c : c.finding = i) IN [n \in DOMAIN own |-> own[n].ev]

note_for(i) ==
    IF rows[i].note # None THEN rows[i].note
    ELSE [BlankNote EXCEPT !.asns = UNION {e.chain : e \in Range(get_corroborations(i))}]

is_quarantined(r) ==
    \/ {r.asn, r.tgt} \cap QUARANTINED_ASN_SET # {}
    \/ <<r.kind, r.asn, r.tgt>> \in HELD_FINDING_KEYS

\* A finding as the reports have it; its first corroboration speaks for it.
Loaded(i) ==
    LET r == rows[i]
        evidence == get_corroborations(i)
        First(field, default) == IF evidence = <<>> \/ evidence[1][field] = None THEN default
                                 ELSE evidence[1][field] IN
    [kind |-> r.kind, cc |-> r.cc, asn |-> IF r.asn = None THEN 0 ELSE r.asn, tcc |-> r.tcc, tgt |-> r.tgt,
     ix |-> r.ix, hub |-> r.hub, msm |-> First("msm", 0), vp |-> First("vp", r.cc),
     count |-> First("count", 0), note |-> note_for(i)]

LoadedAll == LET ids == all_findings IN [n \in DOMAIN ids |-> Loaded(ids[n])]

\* Mutant of Load: held or not.
LoadHeldToo(kind) == SelectSeq(LoadedAll, LAMBDA f : f.kind = kind)

\* load_confirmed_detours, load_confirmed_local_transit and
\* load_candidate_peering, without what is held.
Load(kind) == SelectSeq(LoadedAll, LAMBDA f : f.kind = kind /\ ~is_quarantined(f))
-----------------------------------------------------------------------------
Same(r, s) ==
    /\ r.kind = s.kind /\ r.tgt = s.tgt
    /\ IF r.kind = Detour THEN r.cc = s.cc ELSE r.asn = s.asn

\* A classification files a finding or finds it on file, and corroborates it;
\* or dies in between.
File(fact, dies) ==
    LET known == {i \in DOMAIN rows : Same(rows[i], fact.row)}
        id == IF known = {} THEN Len(rows) + 1 ELSE CHOOSE i \in known : TRUE IN
    /\ Len(rows) < MaxRows /\ Len(corrs) < MaxCorrs
    /\ IF known = {} THEN rows' = Append(rows, fact.row) ELSE ~dies /\ UNCHANGED rows
    /\ corrs' = IF dies THEN corrs ELSE Append(corrs, [finding |-> id, ev |-> fact.evidence])
    /\ UNCHANGED export

\* mark_aspa_checked, for the target's ASPA record of the day.
MarkAspaChecked(i, confirmed) ==
    LET r == rows[i]
        promoted == [r EXCEPT !.kind = Transit, !.aspa = TRUE, !.checked = TRUE,
                      !.note = Merged({IF @ = None THEN BlankNote ELSE @,
                                       [BlankNote EXCEPT !.asns = {r.asn, r.tgt}]})]
        free == \A j \in DOMAIN rows : ~Same(rows[j], promoted) IN
    /\ r.kind = Candidate
    /\ rows' = [rows EXCEPT ![i] = IF confirmed /\ free THEN promoted ELSE [r EXCEPT !.checked = TRUE]]
    /\ UNCHANGED <<corrs, export>>

\* What is exported of a finding: everything but its id and the date of its
\* last ASPA look-up.
Exported ==
    LET ids == all_findings IN
    [n \in DOMAIN ids |->
        [row |-> [rows[ids[n]] EXCEPT !.checked = FALSE], evidence |-> get_corroborations(ids[n])]]

export_jsonl == export' = Exported /\ UNCHANGED <<rows, corrs>>

\* By the owner: the database is deleted and filled again, line by line; the
\* process may die after any of them.
import_jsonl(lines) ==
    /\ export # <<>>
    /\ rows' = [n \in 1..lines |-> export[n].row]
    /\ corrs' = FlattenSeq([n \in 1..lines |->
                    [m \in DOMAIN export[n].evidence |->
                        [finding |-> n, ev |-> export[n].evidence[m]]]])
    /\ UNCHANGED export
=============================================================================
