--------------------------- MODULE CorridorBatch ---------------------------
(***************************************************************************)
(* The nightly corridor batch: analysis/auto_classify.py's run_batch, its  *)
(* worker threads, classify_corridor as far as control goes, and the two   *)
(* files that outlive a night, the reverification queue and the parked     *)
(* measurements of analysis/pending_measurements.py.                       *)
(*                                                                         *)
(* Simplifications.                                                        *)
(*  - What a measurement says is reduced to whether any probe reported     *)
(*    ("signal") or none did ("no_data"); module Classifier has the rules  *)
(*    that turn a signal into a finding.                                   *)
(*  - run_batch's write lock is not a variable: a section the code runs    *)
(*    under the lock is one action.  A section that can fail half way has  *)
(*    one action for each point at which it can stop.                      *)
(*  - The reverification queue and the parking file are sets: whatever     *)
(*    order findings are popped in is the order of some staged list.       *)
(*  - Nights are 24 hours apart and a batch lasts at most a few hours, so  *)
(*    MIN_RETRY_INTERVAL (12h) and MAX_AGE (24h) become "not again this    *)
(*    night" and an age in nights.                                         *)
(***************************************************************************)
EXTENDS Naturals, FiniteSets

CONSTANTS
    Network,        \* ASNs: sources and targets of corridors
    Backlog,        \* the corridors the backlog proposes, as <<source, target>>
    Finding,        \* ids of findings on file that may be re-tested
    RetestPair,     \* RetestPair[f]: the corridor _candidate_from_finding rebuilds
    Worker,         \* the batch's threads (max_concurrent of them)
    Main,           \* the thread that runs run_batch itself
    Mid,            \* Atlas measurement ids
    MaxAttempts,    \* pending_measurements.MAX_CLASSIFY_ATTEMPTS
    MaxTargetIps,   \* auto_classify._MAX_TARGET_IP_ATTEMPTS
    MaxCrash,       \* bound on the number of times the batch process dies
    Fresh, NoJob, NoMid, NoEntry   \* markers: not a retest / no job / none / not parked

Pair == Network \X Network
Actor == Worker \cup {Main}

ASSUME BatchAssumption ==
    /\ Backlog \subseteq Pair
    /\ RetestPair \in [Finding -> Pair]
    /\ Main \notin Worker
    /\ NoMid \notin Mid
    /\ Fresh \notin Finding
    /\ MaxAttempts \in Nat \ {0}
    /\ MaxTargetIps \in Nat \ {0}
    /\ MaxCrash \in Nat

\* A corridor to test; finding is Fresh unless it re-tests a finding on file.
Job == [pair : Pair, finding : Finding \cup {Fresh}]
\* A parked measurement; cool: its latest failed classification was tonight.
Entry == [job : Job, attempts : 0..MaxAttempts, cool : BOOLEAN, age : 0..2]

ASSUME MarkerAssumption == NoJob \notin Job /\ NoEntry \notin Entry

VARIABLES
    \* files
    queue,          \* reverify_queue.json: findings staged for tonight
    tested,         \* tested_pairs.json
    pending,        \* pending_measurements.json: pending[m] is m's entry or NoEntry
    \* run_batch's own state
    phase,          \* "off", "before" (first collection), "work", "after" (second)
    late,           \* the time budget is spent
    skip,           \* skip_this_run
    inFlight,       \* in_flight: source networks a worker has taken
    \* each thread's position and locals
    pc,
    job,            \* the candidate it works on
    msm,            \* _Progress.fired, or the collected measurement
    out,            \* the measurement it has created and still waits for
    tries,          \* target addresses used up
    res,            \* what classify_corridor will report
    \* the collector's locals
    ready,          \* collect_ready's result: ready[m] is m's entry or NoEntry
    lost,           \* parked measurements collect_ready gave up on, not stamped yet
    \* history, read by no action
    jobOf,          \* jobOf[m]: the job measurement m was fired for
    writes,         \* writes[m]: how often a write phase started on m
    closed,         \* closed[m]: how m was given up without being written
    stamps,         \* stamps[m]: reverification attempts recorded for m
    unrecorded,     \* measurements whose attempt the findings store would not take
    picked,         \* fresh corridors picked since the run began
    crashes

files == <<queue, tested, pending>>
runVars == <<phase, late, skip, inFlight>>
threadVars == <<pc, job, msm, out, tries, res>>
collectVars == <<ready, lost>>
history == <<jobOf, writes, closed, stamps, unrecorded, picked, crashes>>
vars == <<files, runVars, threadVars, collectVars, history>>

Pc == {"off", "loop", "pick", "fire", "wait", "analyze", "write", "settle",
       "failed", "failedWriting", "release", "collect", "lost", "next"}
Closed == {"open", "dropped", "superseded", "forgotten", "crashed"}
-----------------------------------------------------------------------------
Source(p) == p[1]
Reverse(p) == <<p[2], p[1]>>
IsRetest(j) == j.finding # Fresh

Parked == {m \in Mid : pending[m] # NoEntry}
ParkedFindings == {pending[m].job.finding : m \in Parked}
PendingPairs == {pending[m].job.pair : m \in Parked}

\* enumerate_candidate_corridors, as far as this run changes it.
Untested == {p \in Backlog : p \notin tested /\ Reverse(p) \notin tested}

\* _note_reverification_attempt for the measurements in S that are retests: one
\* attempt more each, except where the store raises sqlite3.Error (refused).
\* That is logged, nothing is recorded, and the batch goes on.
Stamp(S) ==
    LET retests == {m \in S \cap Mid : IsRetest(jobOf[m])} IN
    \E refused \in SUBSET retests :
        /\ stamps' = [m \in Mid |-> IF m \in retests \ refused THEN stamps[m] + 1 ELSE stamps[m]]
        /\ unrecorded' = unrecorded \cup refused

Init ==
    /\ queue = {} /\ tested = {} /\ pending = [m \in Mid |-> NoEntry]
    /\ phase = "off" /\ late = FALSE /\ skip = {} /\ inFlight = {}
    /\ pc = [a \in Actor |-> "off"]
    /\ job = [a \in Actor |-> NoJob]
    /\ msm = [a \in Actor |-> NoMid]
    /\ out = [a \in Actor |-> NoMid]
    /\ tries = [a \in Actor |-> 0]
    /\ res = [a \in Actor |-> "none"]
    /\ ready = [m \in Mid |-> NoEntry] /\ lost = {}
    /\ jobOf = [m \in Mid |-> NoJob]
    /\ writes = [m \in Mid |-> 0]
    /\ closed = [m \in Mid |-> "open"]
    /\ stamps = [m \in Mid |-> 0] /\ unrecorded = {}
    /\ picked = {} /\ crashes = 0
-----------------------------------------------------------------------------
(***************************************************************************)
(* A night: the script stages the ration, then starts the batch.           *)
(***************************************************************************)

\* write_reverification_queue overwrites the queue with findings that have no
\* retest parked; when staging fails last night's leftovers stay queued.
Stage ==
    \/ queue' \in SUBSET (Finding \ ParkedFindings)
    \/ UNCHANGED queue

\* The clock has moved a day on since the last batch.
Aged(e) == IF e = NoEntry THEN e
           ELSE [e EXCEPT !.cool = FALSE, !.age = IF @ = 2 THEN 2 ELSE @ + 1]

StartBatch ==
    /\ phase = "off"
    /\ Stage
    /\ pending' = [m \in Mid |-> Aged(pending[m])]
    /\ phase' = "before" /\ late' = FALSE /\ skip' = {} /\ inFlight' = {}
    /\ pc' = [pc EXCEPT ![Main] = "collect"]
    /\ picked' = {}
    /\ UNCHANGED <<tested, job, msm, out, tries, res, collectVars,
                   jobOf, writes, closed, stamps, unrecorded, crashes>>

\* time.monotonic() reaches the deadline.
Deadline ==
    /\ phase = "work" /\ ~late
    /\ late' = TRUE
    /\ UNCHANGED <<files, phase, skip, inFlight, threadVars, collectVars, history>>

(***************************************************************************)
(* _classify_collected, on the main thread before the workers start and    *)
(* after they have joined.                                                 *)
(***************************************************************************)
\* What Atlas says of a measurement; an unreachable Atlas gives no results.
Answer == {r \in [status : {"finished", "never_ran", "running", "unreachable"}, results : BOOLEAN] :
             r.status = "unreachable" => ~r.results}

\* Mutation of Verdict: the attempt limit is off by one.
VerdictOffByOne(e, r, expired) ==
    IF e.attempts > MaxAttempts THEN "drop"
    ELSE IF e.attempts > 0 THEN (IF e.cool THEN "keep" ELSE "ready")
    ELSE IF r.status = "never_ran" /\ ~r.results THEN "drop"
    ELSE IF r.status \in {"finished", "never_ran"} \/ (r.results /\ expired) THEN "ready"
    ELSE IF expired THEN "drop"
    ELSE "keep"

\* What collect_ready decides for one entry, given Atlas's answer.
Verdict(e, r, expired) ==
    IF e.attempts >= MaxAttempts THEN "drop"
    ELSE IF e.attempts > 0 THEN (IF e.cool THEN "keep" ELSE "ready")
    ELSE IF r.status = "never_ran" /\ ~r.results THEN "drop"
    ELSE IF r.status \in {"finished", "never_ran"} \/ (r.results /\ expired) THEN "ready"
    ELSE IF expired THEN "drop"
    ELSE "keep"

\* A measurement parked last night is just under or just over MAX_AGE when
\* tonight's two collections look at it.
Expired(e) == IF e.age = 0 THEN {FALSE} ELSE IF e.age = 1 THEN BOOLEAN ELSE {TRUE}
Verdicts(e) == {Verdict(e, r, x) : r \in Answer, x \in Expired(e)}

CollectReady ==
    /\ pc[Main] = "collect"
    /\ \E verdict \in [Parked -> {"drop", "keep", "ready"}] :
        /\ \A m \in Parked : verdict[m] \in Verdicts(pending[m])
        /\ LET Says(v) == {m \in Parked : verdict[m] = v} IN
           /\ ready' = [m \in Mid |-> IF m \in Says("ready") THEN pending[m] ELSE NoEntry]
           /\ pending' = [m \in Mid |-> IF m \in Says("keep") THEN pending[m] ELSE NoEntry]
           /\ closed' = [m \in Mid |-> IF m \in Says("drop") THEN "dropped" ELSE closed[m]]
           /\ lost' = Says("drop")
    /\ pc' = [pc EXCEPT ![Main] = "lost"]
    /\ UNCHANGED <<queue, tested, runVars, job, msm, out, tries, res,
                   jobOf, writes, stamps, unrecorded, picked, crashes>>

\* Mutation of StampLost: a retest that was given up leaves no trace.
StampLostForgets ==
    /\ pc[Main] = "lost"
    /\ lost' = {}
    /\ pc' = [pc EXCEPT ![Main] = "next"]
    /\ UNCHANGED <<files, runVars, job, msm, out, tries, res, ready, history>>

\* A dropped retest is recorded as an attempt that was "lost".
StampLost ==
    /\ pc[Main] = "lost"
    /\ Stamp(lost)
    /\ lost' = {}
    /\ pc' = [pc EXCEPT ![Main] = "next"]
    /\ UNCHANGED <<files, runVars, job, msm, out, tries, res, ready,
                   jobOf, writes, closed, picked, crashes>>

TakeReady(m) ==
    /\ pc[Main] = "next" /\ ready[m] # NoEntry
    /\ pc' = [pc EXCEPT ![Main] = "analyze"]
    /\ job' = [job EXCEPT ![Main] = ready[m].job]
    /\ msm' = [msm EXCEPT ![Main] = m]
    /\ UNCHANGED <<files, runVars, out, tries, res, collectVars, history>>

\* Everything collected is dealt with: start the workers, or end the run.
CollectDone ==
    /\ pc[Main] = "next" /\ \A m \in Mid : ready[m] = NoEntry
    /\ phase' = IF phase = "before" THEN "work" ELSE "off"
    /\ pc' = [a \in Actor |-> IF a \in Worker /\ phase = "before" THEN "loop" ELSE "off"]
    /\ UNCHANGED <<files, late, skip, inFlight, job, msm, out, tries, res, collectVars, history>>

JoinWorkers ==
    /\ phase = "work" /\ \A w \in Worker : pc[w] = "off"
    /\ phase' = "after"
    /\ pc' = [pc EXCEPT ![Main] = "collect"]
    /\ UNCHANGED <<files, late, skip, inFlight, job, msm, out, tries, res, collectVars, history>>
-----------------------------------------------------------------------------
(***************************************************************************)
(* A worker's loop: look at the clock, take a job under the lock.          *)
(***************************************************************************)
LoopHead(w) ==
    /\ pc[w] = "loop"
    /\ pc' = [pc EXCEPT ![w] = IF late THEN "off" ELSE "pick"]
    /\ UNCHANGED <<files, runVars, job, msm, out, tries, res, collectVars, history>>

\* Mutation of Free: a retest is popped whatever is in flight.
FreeIgnoringInFlight(S) == S

\* The queued findings, of those in S, whose vantage no worker occupies.
Free(S) == {f \in S : Source(RetestPair[f]) \notin inFlight}

\* Mutation of Pickable: parked corridors are not left out.
PickableParkedToo == {p \in Untested : Source(p) \notin inFlight /\ p \notin skip}

\* What _pick_next_for_batch may return.
Pickable == {p \in Untested : Source(p) \notin inFlight /\ p \notin skip \cup PendingPairs}

Assign(w, j) ==
    /\ job' = [job EXCEPT ![w] = j]
    /\ inFlight' = inFlight \cup {Source(j.pair)}
    /\ pc' = [pc EXCEPT ![w] = "fire"]

\* _pop_reverify_candidate: entries met on the way that can no longer be
\* rebuilt (gone) are dropped for good, blocked ones stay.
PickRetest(w) ==
    /\ pc[w] = "pick"
    /\ \E gone \in SUBSET queue : \E f \in Free(queue \ gone) :
        /\ queue' = queue \ (gone \cup {f})
        /\ Assign(w, [pair |-> RetestPair[f], finding |-> f])
    /\ UNCHANGED <<tested, pending, phase, late, skip, msm, out, tries, res, collectVars, history>>

\* No retest can be popped: every queued finding is gone or blocked.
PickFresh(w) ==
    /\ pc[w] = "pick"
    /\ \E gone \in SUBSET queue : \E p \in Pickable :
        /\ Free(queue \ gone) = {}
        /\ queue' = queue \ gone
        /\ Assign(w, [pair |-> p, finding |-> Fresh])
        /\ picked' = picked \cup {p}
    /\ UNCHANGED <<tested, pending, phase, late, skip, msm, out, tries, res, collectVars,
                   jobOf, writes, closed, stamps, unrecorded, crashes>>

\* Nothing to take: the thread ends if nobody holds a source, else it sleeps.
PickNothing(w) ==
    /\ pc[w] = "pick"
    /\ \E gone \in SUBSET queue :
        /\ Free(queue \ gone) = {} /\ Pickable = {}
        /\ queue' = queue \ gone
    /\ pc' = [pc EXCEPT ![w] = IF inFlight = {} THEN "off" ELSE "loop"]
    /\ UNCHANGED <<tested, pending, runVars, job, msm, out, tries, res, collectVars, history>>

\* Picking runs outside the worker's try: an unreadable cache ends the thread.
PickRaises(w) ==
    /\ pc[w] = "pick"
    /\ pc' = [pc EXCEPT ![w] = "off"]
    /\ UNCHANGED <<files, runVars, job, msm, out, tries, res, collectVars, history>>

(***************************************************************************)
(* _fire_measurement: create, then wait_for_results.                       *)
(***************************************************************************)
\* No target address, a refusal, or no more of the model's measurement ids.
FireRefused(w) ==
    /\ pc[w] = "fire"
    /\ pc' = [pc EXCEPT ![w] = "failed"]
    /\ UNCHANGED <<files, runVars, job, msm, out, tries, res, collectVars, history>>

Create(w) ==
    /\ pc[w] = "fire"
    /\ \E m \in Mid :
        /\ jobOf[m] = NoJob
        /\ jobOf' = [jobOf EXCEPT ![m] = job[w]]
        /\ out' = [out EXCEPT ![w] = m]
    /\ tries' = [tries EXCEPT ![w] = @ + 1]
    /\ pc' = [pc EXCEPT ![w] = "wait"]
    /\ UNCHANGED <<files, runVars, job, msm, res, collectVars,
                   writes, closed, stamps, unrecorded, picked, crashes>>

\* The measurement a worker held before the one it waits for was fully dark;
\* once the second one exists for the program its results are not read again.
Supersede(w) == [m \in Mid |-> IF m = msm[w] THEN "superseded" ELSE closed[m]]

\* Still unfinished, or its status could not be read: parked under the lock.
WaitPending(w) ==
    /\ pc[w] = "wait"
    /\ pending' = [pending EXCEPT ![out[w]] =
                     [job |-> job[w], attempts |-> 0, cool |-> FALSE, age |-> 0]]
    /\ closed' = Supersede(w)
    /\ out' = [out EXCEPT ![w] = NoMid]
    /\ msm' = [msm EXCEPT ![w] = NoMid]
    /\ res' = [res EXCEPT ![w] = "pending"]
    /\ pc' = [pc EXCEPT ![w] = "settle"]
    /\ UNCHANGED <<queue, tested, runVars, job, tries, collectVars,
                   jobOf, writes, stamps, unrecorded, picked, crashes>>

WaitReturns(w) ==
    /\ pc[w] = "wait"
    /\ closed' = Supersede(w)
    /\ msm' = [msm EXCEPT ![w] = out[w]]
    /\ out' = [out EXCEPT ![w] = NoMid]
    /\ pc' = [pc EXCEPT ![w] = "analyze"]
    /\ UNCHANGED <<files, runVars, job, tries, res, collectVars,
                   jobOf, writes, stamps, unrecorded, picked, crashes>>

\* The results fetch after a terminal status, the write to the Atlas cache or
\* the reading of the creation's response raises before _fire_measurement has
\* returned, so progress.fired is never set to this measurement.
WaitRaises(w) ==
    /\ pc[w] = "wait"
    /\ closed' = [closed EXCEPT ![out[w]] = "forgotten"]
    /\ out' = [out EXCEPT ![w] = NoMid]
    /\ pc' = [pc EXCEPT ![w] = "failed"]
    /\ UNCHANGED <<files, runVars, job, msm, tries, res, collectVars,
                   jobOf, writes, stamps, unrecorded, picked, crashes>>
-----------------------------------------------------------------------------
(***************************************************************************)
(* Classification, by a worker or by the collector.                        *)
(***************************************************************************)
\* A fully dark measurement is retried against the next cached prefix.
TryNextTarget(w) ==
    /\ pc[w] = "analyze" /\ tries[w] < MaxTargetIps
    /\ pc' = [pc EXCEPT ![w] = "fire"]
    /\ UNCHANGED <<files, runVars, job, msm, out, tries, res, collectVars, history>>

Analyze(a) ==
    /\ pc[a] = "analyze"
    /\ \E r \in {"no_data", "signal"} : res' = [res EXCEPT ![a] = r]
    /\ pc' = [pc EXCEPT ![a] = "write"]
    /\ UNCHANGED <<files, runVars, job, msm, out, tries, collectVars, history>>

AnalyzeRaises(a) ==
    /\ pc[a] = "analyze"
    /\ pc' = [pc EXCEPT ![a] = "failed"]
    /\ UNCHANGED <<files, runVars, job, msm, out, tries, res, collectVars, history>>

\* The corridor is marked tested unless no probe returned data.
Write(a) ==
    /\ pc[a] = "write"
    /\ writes' = [writes EXCEPT ![msm[a]] = @ + 1]
    /\ tested' = IF res[a] = "signal" THEN tested \cup {job[a].pair} ELSE tested
    /\ pc' = [pc EXCEPT ![a] = "settle"]
    /\ UNCHANGED <<queue, pending, runVars, job, msm, out, tries, res, collectVars,
                   jobOf, closed, stamps, unrecorded, picked, crashes>>

\* progress.writing is set, then a commit, tested_pairs.json or escalations.md
\* fails: before or after the corridor was marked tested.
WriteRaises(a) ==
    /\ pc[a] = "write"
    /\ writes' = [writes EXCEPT ![msm[a]] = @ + 1]
    /\ \/ UNCHANGED tested
       \/ res[a] = "signal" /\ tested' = tested \cup {job[a].pair}
    /\ pc' = [pc EXCEPT ![a] = "failedWriting"]
    /\ UNCHANGED <<queue, pending, runVars, job, msm, out, tries, res, collectVars,
                   jobOf, closed, stamps, unrecorded, picked, crashes>>

(***************************************************************************)
(* A worker's bookkeeping after classify_corridor returned or raised.      *)
(***************************************************************************)
\* Sent back to be released; S is stamped, and the pair skipped if skips.
Conclude(w, S, skips) ==
    /\ skip' = IF skips THEN skip \cup {job[w].pair} ELSE skip
    /\ Stamp(S)
    /\ pc' = [pc EXCEPT ![w] = "release"]
    /\ UNCHANGED <<queue, tested, phase, late, inFlight, job, msm, out, tries, res, collectVars,
                   jobOf, writes, closed, picked, crashes>>

Settle(w) ==
    /\ pc[w] = "settle"
    /\ Conclude(w, {msm[w]}, res[w] = "no_data")
    /\ UNCHANGED pending

\* Nothing was written: the measurement fired in this call, if any, is parked
\* as already failed once.
Fail(w) ==
    /\ pc[w] = "failed"
    /\ pending' = [m \in Mid |-> IF m # msm[w] THEN pending[m]
                     ELSE [job |-> job[w], attempts |-> 1, cool |-> TRUE, age |-> 0]]
    /\ Conclude(w, {}, TRUE)

\* Mutation of FailWriting: parks the measurement as Fail does.
FailWritingParks(w) ==
    /\ pc[w] = "failedWriting"
    /\ pending' = [pending EXCEPT ![msm[w]] =
                     [job |-> job[w], attempts |-> 1, cool |-> TRUE, age |-> 0]]
    /\ Conclude(w, {msm[w]}, TRUE)

FailWriting(w) ==
    /\ pc[w] = "failedWriting"
    /\ Conclude(w, {msm[w]}, TRUE)
    /\ UNCHANGED pending

\* Mutation of Release: the worker's finally clause forgets its source.
ReleaseKeepsSource(w) ==
    /\ pc[w] = "release"
    /\ job' = [job EXCEPT ![w] = NoJob]
    /\ msm' = [msm EXCEPT ![w] = NoMid]
    /\ tries' = [tries EXCEPT ![w] = 0]
    /\ res' = [res EXCEPT ![w] = "none"]
    /\ pc' = [pc EXCEPT ![w] = "loop"]
    /\ UNCHANGED <<files, phase, late, skip, inFlight, out, collectVars, history>>

Release(w) ==
    /\ pc[w] = "release"
    /\ inFlight' = inFlight \ {Source(job[w].pair)}
    /\ job' = [job EXCEPT ![w] = NoJob]
    /\ msm' = [msm EXCEPT ![w] = NoMid]
    /\ tries' = [tries EXCEPT ![w] = 0]
    /\ res' = [res EXCEPT ![w] = "none"]
    /\ pc' = [pc EXCEPT ![w] = "loop"]
    /\ UNCHANGED <<files, phase, late, skip, out, collectVars, history>>

(***************************************************************************)
(* The collector's.                                                        *)
(***************************************************************************)
\* Back to the collector's loop, done with its current entry.
NextReady ==
    /\ ready' = [ready EXCEPT ![msm[Main]] = NoEntry]
    /\ job' = [job EXCEPT ![Main] = NoJob]
    /\ msm' = [msm EXCEPT ![Main] = NoMid]
    /\ res' = [res EXCEPT ![Main] = "none"]
    /\ pc' = [pc EXCEPT ![Main] = "next"]
    /\ UNCHANGED <<queue, tested, runVars, out, tries, lost,
                   jobOf, writes, closed, picked, crashes>>

\* Classified, or failed once writing had begun: never parked again.
CollectorStamps ==
    /\ pc[Main] \in {"settle", "failedWriting"}
    /\ Stamp({msm[Main]})
    /\ NextReady
    /\ UNCHANGED pending

\* Mutations of Repark: a failure in the write phase is re-parked as well, the
\* entry is not put back, or its failures are not counted.
ReparkAfterWriting ==
    /\ pc[Main] \in {"failed", "failedWriting"}
    /\ pending' = [pending EXCEPT ![msm[Main]] =
                     [ready[msm[Main]] EXCEPT !.attempts = @ + 1, !.cool = TRUE]]
    /\ NextReady
    /\ UNCHANGED <<stamps, unrecorded>>

ReparkNothing == pc[Main] = "failed" /\ NextReady /\ UNCHANGED <<pending, stamps, unrecorded>>

ReparkUncounted ==
    /\ pc[Main] = "failed"
    /\ pending' = [pending EXCEPT ![msm[Main]] = [ready[msm[Main]] EXCEPT !.cool = TRUE]]
    /\ NextReady
    /\ UNCHANGED <<stamps, unrecorded>>

Repark ==
    /\ pc[Main] = "failed"
    /\ pending' = [pending EXCEPT ![msm[Main]] =
                     [ready[msm[Main]] EXCEPT !.attempts = @ + 1, !.cool = TRUE]]
    /\ NextReady
    /\ UNCHANGED <<stamps, unrecorded>>
-----------------------------------------------------------------------------
(***************************************************************************)
(* The process dies: everything but the files is gone.                     *)
(***************************************************************************)
InHand(m) == \/ \E a \in Actor : msm[a] = m \/ out[a] = m
             \/ ready[m] # NoEntry

Crash ==
    /\ phase # "off" /\ crashes < MaxCrash
    /\ crashes' = crashes + 1
    /\ closed' = [m \in Mid |-> IF InHand(m) /\ writes[m] = 0 /\ pending[m] = NoEntry
                                THEN "crashed" ELSE closed[m]]
    /\ phase' = "off" /\ late' = FALSE /\ skip' = {} /\ inFlight' = {}
    /\ pc' = [a \in Actor |-> "off"]
    /\ job' = [a \in Actor |-> NoJob]
    /\ msm' = [a \in Actor |-> NoMid]
    /\ out' = [a \in Actor |-> NoMid]
    /\ tries' = [a \in Actor |-> 0]
    /\ res' = [a \in Actor |-> "none"]
    /\ ready' = [m \in Mid |-> NoEntry] /\ lost' = {}
    /\ UNCHANGED <<files, jobOf, writes, stamps, unrecorded, picked>>

Classify(a) == Analyze(a) \/ AnalyzeRaises(a) \/ Write(a) \/ WriteRaises(a)

WorkerStep(w) ==
    \/ LoopHead(w)
    \/ PickRetest(w) \/ PickFresh(w) \/ PickNothing(w) \/ PickRaises(w)
    \/ FireRefused(w) \/ Create(w)
    \/ WaitPending(w) \/ WaitReturns(w) \/ WaitRaises(w)
    \/ TryNextTarget(w) \/ Classify(w)
    \/ Settle(w) \/ Fail(w) \/ FailWriting(w) \/ Release(w)

MainStep ==
    \/ CollectReady \/ StampLost \/ CollectDone \/ JoinWorkers
    \/ \E m \in Mid : TakeReady(m)
    \/ Classify(Main) \/ CollectorStamps \/ Repark

Next == \/ StartBatch \/ Deadline \/ MainStep \/ Crash
        \/ \E w \in Worker : WorkerStep(w)

Spec == Init /\ [][Next]_vars

\* cron starts the script every night and threads are scheduled.  There is no
\* fairness for the choices inside a step (what Atlas answers), for Crash, nor
\* for Deadline: a batch has to end even if its time budget is endless.
Fairness == /\ WF_vars(StartBatch) /\ WF_vars(MainStep)
            /\ \A w \in Worker : WF_vars(WorkerStep(w))

FairSpec == Spec /\ Fairness
-----------------------------------------------------------------------------
FilesOK ==
    /\ queue \subseteq Finding
    /\ tested \subseteq Pair
    /\ pending \in [Mid -> Entry \cup {NoEntry}]

RunOK ==
    /\ phase \in {"off", "before", "work", "after"}
    /\ late \in BOOLEAN
    /\ skip \subseteq Pair
    /\ inFlight \subseteq Network

ThreadsOK ==
    /\ pc \in [Actor -> Pc]
    /\ job \in [Actor -> Job \cup {NoJob}]
    /\ msm \in [Actor -> Mid \cup {NoMid}]
    /\ out \in [Actor -> Mid \cup {NoMid}]
    /\ tries \in [Actor -> 0..MaxTargetIps]
    /\ res \in [Actor -> {"none", "no_data", "signal", "pending"}]

CollectorOK ==
    /\ ready \in [Mid -> Entry \cup {NoEntry}]
    /\ lost \subseteq Mid

HistoryOK ==
    /\ jobOf \in [Mid -> Job \cup {NoJob}]
    /\ writes \in [Mid -> Nat]
    /\ closed \in [Mid -> Closed]
    /\ stamps \in [Mid -> Nat]
    /\ unrecorded \subseteq Mid
    /\ picked \subseteq Pair
    /\ crashes \in 0..MaxCrash

TypeOK == FilesOK /\ RunOK /\ ThreadsOK /\ CollectorOK /\ HistoryOK

Busy(w) == pc[w] \notin {"off", "loop", "pick"}

\* Two workers never test from the same source network at a time: Atlas would
\* only queue one's measurements behind the other's (run_batch's docstring).
OneJobPerSource ==
    \A v, w \in Worker :
        v # w /\ Busy(v) /\ Busy(w) => Source(job[v].pair) # Source(job[w].pair)

\* No measurement enters a second write phase, over any number of nights,
\* failed classifications, re-parkings and deaths of the process:
\* "re-classifying could file duplicates (corroborations aren't deduplicated)".
FiledAtMostOnce == \A m \in Mid : writes[m] <= 1

\* Every measurement the program has learned the id of is in a thread's hands,
\* parked, written up, or was given up on purpose ("dropped" by collect_ready,
\* "superseded" by an alternate target).  "forgotten" and "crashed" stand for
\* the two ways the code has of losing one unnoticed.
NothingMislaid ==
    \A m \in Mid : jobOf[m] # NoJob =>
        InHand(m) \/ m \in Parked \/ writes[m] > 0 \/ closed[m] # "open"

\* A finding's retest is out at most once: queued, in a worker's hands, parked
\* or collected.  The nightly script: "findings with a retest still parked are
\* skipped so they aren't fired twice".
Carries(w, f) ==
    pc[w] \in {"fire", "wait", "analyze", "write", "failed"} /\ job[w].finding = f
Carriers(f) ==
    {<<"queue", f>> : g \in queue \cap {f}}
      \cup {<<"worker", w>> : w \in {v \in Worker : Carries(v, f)}}
      \cup {<<"parked", m>> : m \in {n \in Parked : pending[n].job.finding = f}}
      \cup {<<"ready", m>> : m \in {n \in Mid : ready[n] # NoEntry /\ ready[n].job.finding = f}}
RetestOutOnce == \A f \in Finding : Cardinality(Carriers(f)) <= 1

\* A scheduled retest is counted once when its measurement is written up or
\* given up by collect_ready, never before and never twice: an unstamped one
\* would stay at the head of the ranking, a double one would hide a finding.
\* Short of a death of the process, the only way to go uncounted is a store
\* that refused the one attempt there was to count it: no path leaves it out,
\* and a refused one is not tried again.
Finished(m) == /\ ~InHand(m) /\ m \notin Parked /\ m \notin lost
               /\ writes[m] > 0 \/ closed[m] = "dropped"
RetestStampedOnce ==
    \A m \in Mid : jobOf[m] # NoJob /\ IsRetest(jobOf[m]) =>
        /\ stamps[m] <= IF m \in unrecorded THEN 0 ELSE 1
        /\ m \in Parked => stamps[m] = 0 /\ m \notin unrecorded
        /\ Finished(m) /\ crashes = 0 => stamps[m] = 1 \/ m \in unrecorded

\* Both: a scheduled retest of a finding is out once and counted once.
RetestOnce == RetestOutOnce /\ RetestStampedOnce

\* A run picks a fresh corridor at most once, whatever became of the first
\* try: tested, no data, an exception, or parked.  Otherwise a worker would
\* spend the whole time budget re-firing one broken corridor.
FreshPickedOncePerRun ==
    [][\A w \in Worker :
         pc[w] = "pick" /\ pc'[w] = "fire" /\ ~IsRetest(job'[w]) => job'[w].pair \notin picked]_vars

\* The pipeline implements the promise of MeasurementLedger.
Life(m) == IF jobOf[m] = NoJob THEN "unfired"
           ELSE IF m \in Parked THEN "parked"
           ELSE IF writes[m] > 0 THEN "written"
           ELSE IF InHand(m) THEN "held"
           ELSE IF closed[m] # "open" THEN "lost"
           ELSE "mislaid"
Ledger == INSTANCE MeasurementLedger WITH status <- [m \in Mid |-> Life(m)]
LedgerKept == Ledger!Spec

\* A batch ends even if its time budget never runs out of work: no corridor is
\* picked for ever, and no worker sleeps on a source nobody will release.
BatchEnds == phase # "off" ~> phase = "off"

\* A parked measurement is written up or given up for good after finitely many
\* nights: failed classifications are counted and old ones expire.
ParkedIsSettled ==
    \A m \in Mid : m \in Parked ~> (writes[m] > 0 \/ closed[m] # "open")

\* "A measurement fired in this call is paid for [...] park it so a later run
\* classifies its results instead of firing again" (auto_classify.py).
PaidIsKept == \A m \in Mid : closed[m] # "forgotten"
-----------------------------------------------------------------------------
(***************************************************************************)
(* The inductive invariant behind TypeOK, OneJobPerSource and              *)
(* FiledAtMostOnce; CorridorBatch_proofs shows that every step keeps it.   *)
(***************************************************************************)
IdlePc == {"off", "loop", "pick"}
HoldPc == {"analyze", "write", "settle", "failed", "failedWriting"}

\* What a worker's position says about its locals and the run's phase.
WorkerControl ==
    \A w \in Worker :
        /\ pc[w] \notin {"collect", "lost", "next"}
        /\ pc[w] \in IdlePc => msm[w] = NoMid /\ tries[w] = 0
        /\ pc[w] \notin IdlePc => job[w] \in Job
        /\ pc[w] = "fire" => tries[w] < MaxTargetIps
        /\ (pc[w] = "wait") <=> (out[w] \in Mid)
        /\ pc[w] \in {"analyze", "write", "failedWriting"} => msm[w] \in Mid
        /\ phase # "work" => pc[w] = "off"

\* And the collector's; it never takes up an entry without attempts left.
MainControl ==
    /\ pc[Main] \in {"off", "collect", "lost", "next"} \cup HoldPc
    /\ out[Main] = NoMid
    /\ pc[Main] \in HoldPc =>
        /\ msm[Main] \in Mid /\ ready[msm[Main]] # NoEntry
        /\ job[Main] \in Job
    /\ pc[Main] \notin HoldPc => msm[Main] = NoMid
    /\ pc[Main] \in {"off", "collect"} => \A m \in Mid : ready[m] = NoEntry
    /\ phase \in {"off", "work"} <=> pc[Main] = "off"
    /\ \A m \in Mid : ready[m] # NoEntry => ready[m].attempts < MaxAttempts

\* in_flight holds the source of every busy worker.
BusyInFlight == \A w \in Worker : Busy(w) => Source(job[w].pair) \in inFlight

\* A measurement nobody has fired is nowhere.
UnfiredNowhere ==
    \A m \in Mid : jobOf[m] = NoJob =>
        /\ writes[m] = 0 /\ pending[m] = NoEntry /\ ready[m] = NoEntry
        /\ \A w \in Worker : msm[w] # m /\ out[w] # m

\* Whoever may still write a measurement up holds one that never was.
ParkedUnwritten ==
    \A m \in Mid : pending[m] # NoEntry => writes[m] = 0 /\ ready[m] = NoEntry
ReadyUnwritten ==
    \A m \in Mid : ready[m] # NoEntry /\ writes[m] > 0 =>
        msm[Main] = m /\ pc[Main] \in {"settle", "failedWriting"}
AwaitedUnwritten ==
    \A w \in Worker : out[w] \in Mid => writes[out[w]] = 0 /\ pending[out[w]] = NoEntry
HeldUnwritten ==
    \A w \in Worker :
        msm[w] \in Mid /\ pc[w] \in {"fire", "wait", "analyze", "write", "failed"} =>
            writes[msm[w]] = 0 /\ pending[msm[w]] = NoEntry

\* No two workers, and no two of a worker's variables, hold the same one.
OwnersDiffer ==
    /\ \A w \in Worker : msm[w] \in Mid => msm[w] # out[w]
    /\ \A v, w \in Worker : v # w =>
        /\ msm[v] \in Mid => msm[v] # msm[w] /\ msm[v] # out[w]
        /\ out[v] \in Mid => out[v] # out[w]

Control == WorkerControl /\ MainControl
Sources == BusyInFlight /\ OneJobPerSource
Ownership == /\ UnfiredNowhere /\ ParkedUnwritten /\ ReadyUnwritten
             /\ AwaitedUnwritten /\ HeldUnwritten /\ OwnersDiffer
             /\ FiledAtMostOnce

IInv == TypeOK /\ Control /\ Sources /\ Ownership
-----------------------------------------------------------------------------
(***************************************************************************)
(* What NothingMislaid, LedgerKept, FreshPickedOncePerRun and RetestOnce   *)
(* rest on, each inductive together with IInv; CorridorLedger_proofs shows *)
(* that every step keeps them.                                             *)
(***************************************************************************)
\* Who is past a write phase has begun one, and a worker lets go only of a
\* measurement that is written up or parked.
WrittenUp ==
    /\ \A a \in Actor :
        pc[a] \in {"settle", "failedWriting"} /\ msm[a] \in Mid => writes[msm[a]] > 0
    /\ \A w \in Worker :
        pc[w] = "release" /\ msm[w] \in Mid =>
            writes[msm[w]] > 0 \/ pending[msm[w]] # NoEntry

Kept == WrittenUp /\ NothingMislaid

\* A worker forgets a corridor only when it is tested, parked or skipped.
CorridorSettled ==
    \A w \in Worker :
        /\ pc[w] = "write" => res[w] \in {"no_data", "signal"}
        /\ pc[w] = "settle" => \/ res[w] = "no_data"
                               \/ job[w].pair \in tested \cup PendingPairs
        /\ pc[w] = "release" => job[w].pair \in tested \cup skip \cup PendingPairs

\* So what was picked this run is one of those, or still being worked on.
PickedSettled ==
    /\ phase = "before" => picked = {}
    /\ phase = "work" => \A p \in picked :
        \/ p \in tested \cup skip \cup PendingPairs
        \/ \E w \in Worker : Busy(w) /\ job[w].pair = p

PickedOnce == CorridorSettled /\ PickedSettled

\* The carriers of a finding, two by two: queue, workers, file and collector.
OnFile(m, f) == \/ pending[m] # NoEntry /\ pending[m].job.finding = f
                \/ ready[m] # NoEntry /\ ready[m].job.finding = f

QueuedAlone ==
    \A f \in queue : /\ \A w \in Worker : ~Carries(w, f)
                     /\ \A m \in Mid : ~OnFile(m, f)
WorkersDiffer ==
    \A v, w \in Worker, f \in Finding : Carries(v, f) /\ Carries(w, f) => v = w
CarriedNotOnFile ==
    \A w \in Worker, m \in Mid, f \in Finding : ~(Carries(w, f) /\ OnFile(m, f))
FilesDiffer ==
    \A m, n \in Mid, f \in Finding : OnFile(m, f) /\ OnFile(n, f) => m = n

CarriersDiffer == QueuedAlone /\ WorkersDiffer /\ CarriedNotOnFile /\ FilesDiffer

\* Somebody will yet record an attempt for m, or decide not to.
StampDue(m) ==
    \/ m \in lost \/ pending[m] # NoEntry \/ ready[m] # NoEntry
    \/ \E w \in Worker : out[w] = m \/ (msm[w] = m /\ pc[w] # "release")

LostNowhere == /\ lost # {} => pc[Main] = "lost"
               /\ \A m \in lost : /\ pending[m] = NoEntry /\ ready[m] = NoEntry
                                 /\ jobOf[m] # NoJob
DueUnstamped ==
    \A m \in Mid : jobOf[m] = NoJob \/ StampDue(m) => stamps[m] = 0 /\ m \notin unrecorded
StampedAtMostOnce == \A m \in Mid : stamps[m] <= IF m \in unrecorded THEN 0 ELSE 1
FinishedStamped ==
    \A m \in Mid :
        /\ jobOf[m] # NoJob /\ IsRetest(jobOf[m]) /\ crashes = 0
        /\ writes[m] > 0 \/ closed[m] = "dropped"
        /\ ~StampDue(m)
        => stamps[m] = 1 \/ m \in unrecorded

StampsRight == LostNowhere /\ DueUnstamped /\ StampedAtMostOnce /\ FinishedStamped
=============================================================================
