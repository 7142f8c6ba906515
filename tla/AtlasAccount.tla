---------------------------- MODULE AtlasAccount ----------------------------
(***************************************************************************)
(* The RIPE Atlas account every job shares: atlas/rate_limit.py's          *)
(* wait_for_headroom before each creation, by the nightly batch's workers  *)
(* (smoketest._fire_and_persist, one measurement at a time) and by the     *)
(* offshore check (offshore_check._measure, a batch of pings at a time).   *)
(*                                                                         *)
(* Atlas counts what is in flight and refuses a creation at its cap.  A    *)
(* worker is back for its next measurement as soon as it has read results, *)
(* which Atlas still counts: one-off measurements "read Ongoing long after *)
(* their probes have reported".                                            *)
(***************************************************************************)
EXTENDS Naturals, FiniteSets

CONSTANTS
    Worker,         \* the nightly batch's threads
    Pings,          \* offshore_check's BATCH_SIZE; 0: it does not run
    Cap,            \* ACCOUNT_CONCURRENCY_CAP
    Margin,         \* HEADROOM_MARGIN
    MaxPolls,       \* max_wait_s / poll_s
    MaxRetries,     \* offshore_check's CAP_RETRIES
    Overlap         \* the offshore check is run by hand while a batch is on;
                    \* the nightly script runs it when the batch has ended

ASSUME AccountAssumption ==
    /\ IsFiniteSet(Worker) /\ "offshore" \notin Worker
    /\ {Pings, Cap, Margin, MaxPolls, MaxRetries} \subseteq Nat
    /\ Margin <= Cap /\ Overlap \in BOOLEAN

Limit == Cap - Margin
Job == Worker \cup {"offshore"}
Need(j) == IF j = "offshore" THEN Pings ELSE 1

VARIABLES
    inFlight,       \* the account's unfinished measurements, as Atlas counts
    pc,             \* pc[j]: "off" (not firing), "ask" for headroom, "create"
    polls,          \* polls[j]: how often j has waited
    left,           \* pings of the offshore check's batch still to create
    retries,        \* how often the current ping was refused
    blind,          \* history: some job went ahead without headroom
    refused         \* history: Atlas refused a creation

vars == <<inFlight, pc, polls, left, retries, blind, refused>>

Init ==
    /\ inFlight \in 0..Limit
    /\ pc = [j \in Job |-> "off"]
    /\ polls = [j \in Job |-> 0]
    /\ left = 0 /\ retries = 0
    /\ blind = FALSE /\ refused = FALSE

\* A worker has its next corridor, the offshore check its next batch.
Call(j) ==
    /\ pc[j] = "off"
    /\ Overlap \/ \A k \in Job : j = "offshore" \/ k = "offshore" => pc[k] = "off"
    /\ pc' = [pc EXCEPT ![j] = "ask"]
    /\ UNCHANGED <<inFlight, polls, left, retries, blind, refused>>

\* Mutation of Fits: the measurements about to be created are not counted.
FitsAlready(j) == inFlight <= Limit

Fits(j) == inFlight + Need(j) <= Limit

GoAhead(j) ==
    /\ pc' = [pc EXCEPT ![j] = "create"]
    /\ polls' = [polls EXCEPT ![j] = 0]
    /\ left' = IF j = "offshore" THEN Pings ELSE left
    /\ UNCHANGED <<inFlight, retries, refused>>

Headroom(j) == pc[j] = "ask" /\ Fits(j) /\ GoAhead(j) /\ UNCHANGED blind

Wait(j) ==
    /\ pc[j] = "ask" /\ ~Fits(j) /\ polls[j] < MaxPolls
    /\ polls' = [polls EXCEPT ![j] = @ + 1]
    /\ UNCHANGED <<inFlight, pc, left, retries, blind, refused>>

\* Mutation of FireAnyway: a job waits for headroom as long as it takes.
FireAnywayNever(j) == pc[j] = "ask" /\ ~Fits(j) /\ polls[j] = MaxPolls /\ UNCHANGED vars

\* Still full after max_wait_s.
FireAnyway(j) ==
    /\ pc[j] = "ask" /\ ~Fits(j) /\ polls[j] = MaxPolls
    /\ GoAhead(j) /\ blind' = TRUE

\* count_in_flight could not ask Atlas: fails open.
Unreadable(j) == pc[j] = "ask" /\ GoAhead(j) /\ blind' = TRUE

\* Created, or refused and left to run_batch's handling of the exception.
CreateTrace(w) ==
    /\ pc[w] = "create"
    /\ IF inFlight < Cap THEN inFlight' = inFlight + 1 /\ UNCHANGED refused
       ELSE refused' = TRUE /\ UNCHANGED inFlight
    /\ pc' = [pc EXCEPT ![w] = "off"]
    /\ UNCHANGED <<polls, left, retries, blind>>

\* _create_with_retry: one ping of the batch, created or given up on.
CreatePing ==
    /\ pc["offshore"] = "create" /\ left > 0
    /\ IF inFlight < Cap
         THEN inFlight' = inFlight + 1 /\ left' = left - 1 /\ retries' = 0 /\ UNCHANGED refused
         ELSE /\ refused' = TRUE /\ UNCHANGED inFlight
              /\ IF retries < MaxRetries THEN retries' = retries + 1 /\ UNCHANGED left
                 ELSE retries' = 0 /\ left' = left - 1
    /\ UNCHANGED <<pc, polls, blind>>

\* Atlas refuses one ping for some other reason: _create_with_retry's None.
SkipPing ==
    /\ pc["offshore"] = "create" /\ left > 0
    /\ left' = left - 1 /\ retries' = 0
    /\ UNCHANGED <<inFlight, pc, polls, blind, refused>>

\* The request fails otherwise: the worker files an error and moves on, the
\* offshore check's run ends where it is.
Raises(j) ==
    /\ pc[j] = "create"
    /\ pc' = [pc EXCEPT ![j] = "off"]
    /\ IF j = "offshore" THEN left' = 0 /\ retries' = 0 ELSE UNCHANGED <<left, retries>>
    /\ UNCHANGED <<inFlight, polls, blind, refused>>

\* _wait_until_done has seen its measurements end, or run out of time.
BatchDone ==
    /\ pc["offshore"] = "create" /\ left = 0
    /\ pc' = [pc EXCEPT !["offshore"] = "off"]
    /\ UNCHANGED <<inFlight, polls, left, retries, blind, refused>>

\* Atlas is done with one.
Finish ==
    /\ inFlight > 0 /\ inFlight' = inFlight - 1
    /\ UNCHANGED <<pc, polls, left, retries, blind, refused>>

Ask(j) == Headroom(j) \/ Wait(j) \/ FireAnyway(j)
Trace(w) == Ask(w) \/ CreateTrace(w)
Offshore == Ask("offshore") \/ CreatePing \/ BatchDone

Next == \/ Finish \/ Offshore \/ SkipPing
        \/ \E w \in Worker : Trace(w)
        \/ \E j \in Job : Call(j) \/ Unreadable(j) \/ Raises(j)

Spec == Init /\ [][Next]_vars

\* Threads and jobs are scheduled.  When Atlas finishes anything, and whether
\* it fails to answer, is its affair.
FairSpec == Spec /\ WF_vars(Offshore) /\ \A w \in Worker : WF_vars(Trace(w))
-----------------------------------------------------------------------------
TypeOK ==
    /\ inFlight \in 0..Cap
    /\ pc \in [Job -> {"off", "ask", "create"}]
    /\ polls \in [Job -> 0..MaxPolls]
    /\ left \in 0..Pings /\ retries \in 0..MaxRetries
    /\ blind \in BOOLEAN /\ refused \in BOOLEAN

\* As long as every job got its count and its headroom, Atlas refuses nobody,
\* although the check and the creation are two steps, and a batch's eighty
\* creations are many: "room for another job that starts between our check
\* and our create" (HEADROOM_MARGIN); "wait_for_headroom enforces it either
\* way" (BATCH_SIZE).
NeverRefused == ~blind => ~refused

\* Nobody waits for headroom for ever, even if Atlas never finishes anything:
\* a job that is still out of room after max_wait_s fires anyway.
EveryoneFires == \A j \in Job : pc[j] = "ask" ~> pc[j] = "create"
-----------------------------------------------------------------------------
(***************************************************************************)
(* The inductive invariant behind NeverRefused: what is in flight and what *)
(* has been granted headroom fit under the cap together.                   *)
(***************************************************************************)
Granted == {w \in Worker : pc[w] = "create"}

Exclusive == pc["offshore"] # "off" => \A w \in Worker : pc[w] = "off"

Fitting == IF pc["offshore"] = "create" THEN inFlight + left <= Cap
           ELSE inFlight + Cardinality(Granted) <= Cap

Accounted == Exclusive /\ (~blind => Fitting /\ ~refused)
=============================================================================
