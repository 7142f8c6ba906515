----------------------------- MODULE ProbeWatch -----------------------------
(***************************************************************************)
(* Nightly probe watch (atlas/probe_watch.py): compares the probe listing  *)
(* with last night's snapshot, traces the egress of probes that moved to   *)
(* another network, joined the fleet or still owe a trace, weekly also of  *)
(* the watched networks' probes, and records what it saw in three files,   *)
(* one after the other: egress history, escalations, snapshot.             *)
(*                                                                         *)
(* A probe's economy and IPv4 ASN, the fields that call for a trace, are   *)
(* one value here, its network.  Its IPv6 ASN is reported and nothing else.*)
(***************************************************************************)
CONSTANTS
    Probe,
    Network,        \* economies and ASNs a probe can be on
    Watched,        \* networks in EGRESS_WATCH_ASNS
    Bolo,           \* BOLO_PROBES
    None

VARIABLES
    listing,        \* the probe listing, rebuilt every night
    snapshot,       \* probe_watch_snapshot.json
    egress,         \* last_egress: the first hop of each probe's latest check
    told,           \* history: blocks escalated since the snapshot was written
    vouched,        \* history: networks each probe was traced on since the
                    \* snapshot last had it elsewhere, or took it as it was
    run             \* run_watch: its locals

vars == <<listing, snapshot, egress, told, vouched, run>>

Status == {"Connected", "Disconnected"}
Gone == [net |-> None, status |-> "Abandoned"]
State == [net : Network, status : Status] \cup {Gone}
Hop == {"local", "proxy"}       \* the latter in NON_LOCAL_FIRST_HOP_ASNS

NoSnapshot == [taken |-> FALSE, probes |-> [p \in Probe |-> Gone], pending |-> {}]
Asleep == [at |-> "asleep", traced |-> <<>>, pending |-> {}, blocks |-> {}]

Init ==
    /\ listing \in [Probe -> State]
    /\ snapshot = NoSnapshot
    /\ egress = [p \in Probe |-> None]
    /\ told = {} /\ vouched = [p \in Probe |-> {}]
    /\ run = Asleep

\* probe_state keeps the probes with a tracked status.
Live(probes) == {p \in Probe : probes[p] # Gone}
Current == Live(listing)
Previous == Live(snapshot.probes)

\* diff_states, metadata_changed_probes and newly_tracked_probes; with no
\* snapshot to compare with there are none of either.
Changed == {p \in Previous \cap Current : snapshot.probes[p].net # listing[p].net}
NewlyTracked == IF snapshot.taken THEN Current \ Previous ELSE {}

\* Mutation of NeedsTrace: what an earlier night could not trace is forgotten.
NeedsTraceTonight == Changed \cup NewlyTracked
NeedsTrace == (snapshot.pending \cup Changed \cup NewlyTracked) \cap Current

Connected == {p \in Current : listing[p].status = "Connected"}
OnWatch == {p \in Connected : listing[p].net \in Watched}

\* escalation_blocks: every move and every return of a BOLO probe, traced or
\* not, and what the traces of other probes show.
Block(p, title, from, to) == [probe |-> p, title |-> title, from |-> from, to |-> to]
MoveBlocks == {Block(p, "moved", snapshot.probes[p].net, listing[p].net) : p \in Changed}
BoloBlocks == {Block(p, "back", None, listing[p].net) : p \in NewlyTracked \cap Bolo}
TraceBlocks(traced) ==
    LET others   == DOMAIN traced \ (Changed \cup (NewlyTracked \cap Bolo))
        deferred == others \cap snapshot.pending
        new      == {p \in (others \ deferred) \cap NewlyTracked : traced[p] = "proxy"}
        shifted  == {p \in others \ (deferred \cup NewlyTracked) :
                        traced[p] # IF egress[p] = None THEN "proxy" ELSE egress[p]}
        blocks(ps, title) == {Block(p, title, egress[p], traced[p]) : p \in ps}
    IN blocks(deferred, "deferred") \cup blocks(new, "non-local")
          \cup blocks(shifted, "egress changed")

\* trace_egress, and all there is to write.  Nothing resolves if Atlas refuses
\* or results cannot be read; probe_watch carries on.
Watch(weekly) ==
    /\ run.at = "asleep"
    /\ LET toTrace == (NeedsTrace \cap Connected) \cup (IF weekly THEN OnWatch ELSE {})
       IN \E resolved \in SUBSET toTrace : \E traced \in [resolved -> Hop] :
             run' = [at |-> "traced", traced |-> traced, pending |-> NeedsTrace \ resolved,
                     blocks |-> MoveBlocks \cup BoloBlocks \cup TraceBlocks(traced)]
    /\ vouched' = [p \in Probe |-> IF p \in DOMAIN run'.traced
                      THEN vouched[p] \cup {listing[p].net} ELSE vouched[p]]
    /\ UNCHANGED <<listing, snapshot, egress, told>>

AppendHistory ==
    /\ run.at = "traced"
    /\ egress' = [p \in Probe |-> IF p \in DOMAIN run.traced THEN run.traced[p] ELSE egress[p]]
    /\ run' = [run EXCEPT !.at = "recorded"]
    /\ UNCHANGED <<listing, snapshot, told, vouched>>

\* Mutation of Escalate: only what a trace stands behind is worth a block.
EscalateTraced ==
    /\ run.at = "recorded"
    /\ told' = told \cup {b \in run.blocks : b.probe \in DOMAIN run.traced}
    /\ run' = [run EXCEPT !.at = "escalated"]
    /\ UNCHANGED <<listing, snapshot, egress, vouched>>

Escalate ==
    /\ run.at = "recorded"
    /\ told' = told \cup run.blocks
    /\ run' = [run EXCEPT !.at = "escalated"]
    /\ UNCHANGED <<listing, snapshot, egress, vouched>>

\* A quiet night's early return leaves the file as this would write it.
WriteSnapshot ==
    /\ run.at = "escalated"
    /\ snapshot' = [taken |-> TRUE, probes |-> listing, pending |-> run.pending]
    /\ told' = {}
    /\ vouched' = [p \in Probe |->
          IF snapshot.taken /\ snapshot.probes[p].net = listing[p].net THEN vouched[p]
          ELSE IF p \in DOMAIN run.traced \/ ~snapshot.taken THEN {listing[p].net}
          ELSE {}]
    /\ run' = Asleep
    /\ UNCHANGED <<listing, egress>>

Die ==
    /\ run.at # "asleep" /\ run' = Asleep
    /\ UNCHANGED <<listing, snapshot, egress, told, vouched>>

\* What Atlas says of a probe changes between two runs.
Relist(p) ==
    /\ run.at = "asleep"
    /\ \E s \in State : listing' = [listing EXCEPT ![p] = s]
    /\ UNCHANGED <<snapshot, egress, told, vouched, run>>

Next ==
    \/ \E weekly \in BOOLEAN : Watch(weekly)
    \/ AppendHistory \/ Escalate \/ WriteSnapshot \/ Die
    \/ \E p \in Probe : Relist(p)

Spec == Init /\ [][Next]_vars

(***************************************************************************)
(* The snapshot never moves past something the owner was not told of: a    *)
(* probe on another network, or a BOLO probe back from outside the tracked *)
(* statuses.  "A crash in between re-files tomorrow rather than losing it" *)
(* (run_watch).                                                            *)
(***************************************************************************)
MovesTold ==
    \A p \in Probe :
       LET old == snapshot.probes[p].net
           new == snapshot'.probes[p].net
       IN snapshot.taken /\ old # new /\ new # None =>
             /\ old # None => Block(p, "moved", old, new) \in told
             /\ old = None /\ p \in Bolo => Block(p, "back", None, new) \in told
MovesAreEscalated == [][MovesTold]_vars

(***************************************************************************)
(* A probe the snapshot has on some network, and not among those that owe  *)
(* a trace, has been traced on that network since it came there (or was    *)
(* there at the first snapshot): through failed traces, nights offline,    *)
(* absences and deaths between the writes.                                 *)
(***************************************************************************)
SettledIsTraced ==
    \A p \in Previous \ snapshot.pending : snapshot.probes[p].net \in vouched[p]
=============================================================================
