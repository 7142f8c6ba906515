------------------------------ MODULE Rotation ------------------------------
(***************************************************************************)
(* Rolling reverification: which findings are due for a fresh look.        *)
(* analysis/auto_classify.py ranks the findings by _last_checked, stages   *)
(* the oldest twelfth each night, and stamps a retest once its fate is     *)
(* known.                                                                  *)
(*                                                                         *)
(* Timestamps are all taken "now", so a new one is the newest of all: the  *)
(* ranking is kept as a sequence, oldest first, and a look moves a finding *)
(* to its end.  The order in which a batch pops the staged findings depends*)
(* on which sources are busy, so the queue is a set here; module           *)
(* CorridorBatch has the batch itself.                                     *)
(***************************************************************************)
EXTENDS Naturals, FiniteSets, SequencesExt

CONSTANTS
    Finding,        \* the ids findings have or may get
    Filed,          \* those that have been on file for a while
    Quarantined,    \* findings with a quarantined ASN at either end
    Stuck,          \* findings no retest can be fired for: no corroboration to
                    \* take a vantage from, no probe left in its economy, no
                    \* address to trace
    Part,           \* 1 / _REVERIFY_FRACTION
    NoDataRequired  \* NO_DATA_ATTEMPTS_REQUIRED

VARIABLES
    rank,           \* the findings on file, the longest without a look first
    noData,         \* noData[f]: retests without data since f's last look
    queue,          \* reverify_queue.json
    parked,         \* findings whose retest is a parked measurement
    night,          \* the batch is running
    tonight         \* history: findings whose retest fired or ended this night

vars == <<rank, noData, queue, parked, night, tonight>>

OnFile == ToSet(rank)

Init ==
    /\ rank \in SetToSeqs(Filed) /\ noData = [f \in Finding |-> 0]
    /\ queue = {} /\ parked = {}
    /\ night = FALSE /\ tonight = {}

\* select_reverification_batch: places in the ranking.
Ranked == {i \in DOMAIN rank : rank[i] \notin Quarantined}
Ration == (Cardinality(Ranked) + Part - 1) \div Part

Oldest(places) ==
    {rank[i] : i \in {i \in places : Cardinality({j \in places : j <= i}) <= Ration}}

\* Mutation of Due: a finding whose retest is parked is staged again.
DueParkedToo == Oldest(Ranked)

Due == Oldest({i \in Ranked : rank[i] \notin parked})

\* write_reverification_queue overwrites what last night left; when staging
\* fails the script goes on with what last night left.
Stage ==
    /\ ~night
    /\ queue' = Due
    /\ night' = TRUE /\ tonight' = {}
    /\ UNCHANGED <<rank, noData, parked>>

StageFails ==
    /\ ~night
    /\ night' = TRUE /\ tonight' = {}
    /\ UNCHANGED <<rank, noData, queue, parked>>

\* Mutation of Looked: only a corroboration counts as a look, as it did when
\* findings were ranked on _last_verified alone.
LookedIfCorroborated(f) ==
    \/ /\ rank' = Append(Remove(rank, f), f)
       /\ noData' = [noData EXCEPT ![f] = 0]
    \/ UNCHANGED <<rank, noData>>

\* f's latest corroboration or attempt is the newest of all.
Looked(f) ==
    /\ rank' = Append(Remove(rank, f), f)
    /\ noData' = [noData EXCEPT ![f] = 0]

\* An attempt without data counts for nothing until there are enough of them.
NothingHeard(f) ==
    IF noData[f] + 1 < NoDataRequired
      THEN noData' = [noData EXCEPT ![f] = @ + 1] /\ UNCHANGED rank
      ELSE Looked(f)

Popped(f) == night /\ f \in queue /\ queue' = queue \ {f}

\* _candidate_from_finding gives None, or the retest fails before a measurement
\* exists: popped and not stamped.
Skip(f) ==
    /\ Popped(f)
    /\ UNCHANGED <<rank, noData, parked, night, tonight>>

\* The retest would trace a network to itself: stamped, not fired.
NoVantage(f) ==
    /\ f \notin Stuck
    /\ Popped(f) /\ Looked(f)
    /\ UNCHANGED <<parked, night, tonight>>

Retested(f) ==
    /\ f \notin Stuck
    /\ Popped(f)
    /\ tonight' = tonight \cup {f}
    /\ UNCHANGED night

\* The retest was fired, and classified, dark, or not finished.
Answered(f) == Retested(f) /\ Looked(f) /\ UNCHANGED parked
Silent(f) == Retested(f) /\ NothingHeard(f) /\ UNCHANGED parked
Park(f) == Retested(f) /\ parked' = parked \cup {f} /\ UNCHANGED <<rank, noData>>

Collected(f) ==
    /\ night /\ f \in parked
    /\ parked' = parked \ {f}
    /\ tonight' = tonight \cup {f}
    /\ UNCHANGED <<queue, night>>

\* _classify_collected stamps a parked retest when it is classified or lost.
Settle(f) == Collected(f) /\ (Looked(f) \/ NothingHeard(f))

\* The process dies after collect_ready took the entry out, or the attempt
\* cannot be recorded.
Forget(f) == Collected(f) /\ UNCHANGED <<rank, noData>>

\* Some measurement corroborates f although it is not f's retest.
Corroborate(f) ==
    /\ night /\ f \in OnFile /\ Looked(f)
    /\ UNCHANGED <<queue, parked, night, tonight>>

\* A new finding: created_at is the newest timestamp.
File(f) ==
    /\ night /\ f \notin OnFile /\ Looked(f)
    /\ UNCHANGED <<queue, parked, night, tonight>>

\* The deadline, or the end of the process: the rest of the queue stays.
EndNight ==
    /\ night /\ night' = FALSE
    /\ UNCHANGED <<rank, noData, queue, parked, tonight>>

Fired(f) == Answered(f) \/ Silent(f) \/ Park(f)
Next == \/ Stage \/ StageFails \/ EndNight
        \/ \E f \in Finding : \/ Skip(f) \/ NoVantage(f) \/ Fired(f) \/ Settle(f) \/ Forget(f)
                              \/ Corroborate(f) \/ File(f)

Spec == Init /\ [][Next]_vars

\* Cron starts every night and staging does not fail every night; a parked
\* measurement is settled (CorridorBatch's ParkedIsSettled) unless the process
\* dies just then, and it does not die each time; a retest that can be fired
\* and is staged night after night is fired some night.
FairSpec ==
    /\ Spec
    /\ SF_vars(Stage) /\ WF_vars(EndNight)
    /\ \A f \in Finding : SF_vars(Settle(f)) /\ SF_vars(Fired(f))
-----------------------------------------------------------------------------
\* A finding is retested at most once a night, whatever was parked, left over
\* from last night or staged again: "staging it again the next night would
\* re-fire a measurement that already ran" (select_reverification_batch).
RetestedOnceANight ==
    [][\A f \in Finding : f \in queue \ queue' /\ f \in tonight' => f \notin tonight]_vars

\* Every finding that can be retested gets a fresh look again and again: the
\* nightly script's "every finding gets a fresh look roughly once a fortnight",
\* and write_reverification_queue's "superseded, not lost".
EveryFindingLookedAt ==
    \A f \in Finding \ (Stuck \cup Quarantined) :
        [](f \in OnFile => <>(OnFile # {} /\ Last(rank) = f))
=============================================================================
