---------------------------- MODULE FindingsStore ----------------------------
(***************************************************************************)
(* The findings database of analysis/store.py: adjacencies and the traces  *)
(* that corroborate them.  Every operation commits by itself.              *)
(***************************************************************************)
EXTENDS Naturals, Sequences, FiniteSets

CONSTANTS
    Economy,        \* the Pacific's economies
    Network,        \* ASNs
    NULL            \* SQL's (a detour has no upstream_asn)

Kinds == {"detour", "transit", "candidate"}

VARIABLES
    findings,       \* the rows of table findings
    corrs,          \* those of table corroborations, in the order of their ids
    nextId          \* findings' AUTOINCREMENT

store == <<findings, corrs, nextId>>

\* Table findings: asn is the upstream's, NULL for a detour, whose identity
\* is its source economy; cc is kept for detours only.
Finding(id) == [id : id, kind : Kinds, cc : Economy \cup {NULL}, asn : Network \cup {NULL}, tgt : Network]

StoreInit == findings = {} /\ corrs = <<>> /\ nextId = 1
-----------------------------------------------------------------------------
Ids == {f.id : f \in findings}
Row(i) == CHOOSE f \in findings : f.id = i
Evidence(i) == {n \in DOMAIN corrs : corrs[n].finding = i}

\* find_existing and find_existing_detour.
FindExisting(kind, asn, tgt) == {f.id : f \in {g \in findings : g.kind = kind /\ g.asn = asn /\ g.tgt = tgt}}
FindExistingDetour(cc, tgt) == {f.id : f \in {g \in findings : g.kind = "detour" /\ g.cc = cc /\ g.tgt = tgt}}

\* The two partial unique indexes.
SameIdentity(f, g) ==
    /\ f.kind = g.kind /\ f.tgt = g.tgt
    /\ IF f.kind = "detour" THEN f.cc = g.cc ELSE f.asn = g.asn

Unique(row, rows) == \A g \in rows : ~SameIdentity(row, g)

\* create_finding; an insert the indexes refuse raises and changes nothing.
CreateFinding(kind, cc, asn, tgt) ==
    LET row == [id |-> nextId, kind |-> kind, cc |-> cc, asn |-> asn, tgt |-> tgt] IN
    /\ Unique(row, findings)
    /\ findings' = findings \cup {row}
    /\ nextId' = nextId + 1
    /\ UNCHANGED corrs

AddCorroboration(c) == corrs' = Append(corrs, c) /\ UNCHANGED <<findings, nextId>>

\* Mutation of MarkAspaChecked: a promoted finding is filed anew, under its
\* new kind, and leaves its evidence behind.
MarkAspaCheckedAnew(f) ==
    LET row == [Row(f) EXCEPT !.kind = "transit", !.id = nextId] IN
    /\ Unique(row, findings)
    /\ findings' = (findings \ {Row(f)}) \cup {row}
    /\ nextId' = nextId + 1
    /\ UNCHANGED corrs

\* mark_aspa_checked when the target's ASPA record names the upstream: the
\* candidate is promoted, unless the adjacency is on file as transit already
\* (then, as when nothing is confirmed, only aspa_checked_at is touched).
MarkAspaChecked(f) ==
    LET row == [Row(f) EXCEPT !.kind = "transit"] IN
    /\ Unique(row, findings)
    /\ findings' = (findings \ {Row(f)}) \cup {row}
    /\ UNCHANGED <<corrs, nextId>>
=============================================================================
