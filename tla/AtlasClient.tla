----------------------------- MODULE AtlasClient -----------------------------
(***************************************************************************)
(* One measurement of the Atlas client: create it, poll its status, fetch  *)
(* its results, fetch again while they are empty, write them to the cache, *)
(* and what an escalation says of a measurement that brought nothing.      *)
(* Atlas moves by itself: its status and its results are two answers that  *)
(* need not agree.  Time is counted in polls and in retry delays.          *)
(***************************************************************************)
EXTENDS Integers

CONSTANTS
    Probe,
    Own,        \* connected probes on the corridor's source ASN, in its economy
    ProtocolOf, \* PROBE_PROTOCOL_OVERRIDES over "ICMP"
    MaxPolls,   \* polls within max_wait
    Retries,    \* empty_result_retries
    MaxLag,     \* retry delays after which Atlas has indexed what was reported
    MaxErrors   \* requests that fail

VARIABLES
    status, reported, readable,  \* Atlas: status, results sent, results it serves
    at,        \* where the client is
    asked,     \* the measurement's definition
    seen,      \* last status the client read
    polls, attempt, errors,
    got,       \* results of the last fetch
    raw, parsed,  \* the two cache files
    blame      \* what the escalation says, or "none"

atlas == <<status, reported, readable>>
counts == <<polls, attempt, errors>>
cache == <<raw, parsed>>
vars == <<atlas, at, asked, seen, counts, got, cache, blame>>

NoFile == "no file"
Terminal == {"Stopped", "Failed", "No suitable probes"}
NoRetry == {"No suitable probes"}
NeverRan == {"Scheduled", "Failed", "No suitable probes"}

Init ==
    /\ status = "none" /\ reported = {} /\ readable = {}
    /\ at = "idle" /\ asked = [source |-> "none", protocol |-> "none", defer |-> FALSE]
    /\ seen = "none" /\ polls = 0 /\ attempt = 0 /\ errors = 0 /\ got = {}
    /\ raw = NoFile /\ parsed = NoFile /\ blame = "none"

\* One protocol for the measurement: an override only if every probe has it.
Protocol(S) ==
    LET wanted == {ProtocolOf[p] : p \in S}
    IN IF \E x \in wanted : wanted = {x} THEN CHOOSE x \in wanted : TRUE ELSE "ICMP"

\* A corridor is traced from its own probes, by country only if it has none.
Corridor ==
    IF Own # {} THEN [source |-> "probes", protocol |-> Protocol(Own), defer |-> TRUE]
    ELSE [source |-> "country", protocol |-> "ICMP", defer |-> TRUE]

\* The smoke tests, the exchange-member probe and the weekly checks wait.
Waiting == {[source |-> "country", protocol |-> "ICMP", defer |-> FALSE],
            [source |-> "probes", protocol |-> Protocol(Probe), defer |-> FALSE]}

Create ==
    /\ at = "idle"
    /\ \E call \in Waiting \cup {Corridor} :
        \/ /\ at' = "poll" /\ asked' = call /\ status' = "Scheduled"
        \/ /\ at' = "raised" /\ UNCHANGED <<asked, status>>  \* refused, or not valid
    /\ UNCHANGED <<reported, readable, seen, counts, got, cache, blame>>

\* Atlas.
Progress ==
    /\ \/ status = "Scheduled" /\ status' \in {"Ongoing", "Failed", "No suitable probes"}
       \/ status = "Ongoing" /\ status' = "Stopped"
    /\ UNCHANGED <<reported, readable, at, asked, seen, counts, got, cache, blame>>

Report(p) ==
    /\ status = "Ongoing" /\ p \notin reported
    /\ reported' = reported \cup {p}
    /\ UNCHANGED <<status, readable, at, asked, seen, counts, got, cache, blame>>

Index ==
    /\ readable # reported /\ readable' = reported
    /\ UNCHANGED <<status, reported, at, asked, seen, counts, got, cache, blame>>

Error == errors < MaxErrors /\ errors' = errors + 1

fetch_measurement_status ==
    /\ at = "poll"
    /\ \/ /\ Error  \* a timeout
          /\ at' = IF asked.defer THEN "pending" ELSE "raised"
          /\ UNCHANGED <<seen, polls>>
       \/ /\ seen' = status
          /\ \/ status \in Terminal /\ at' = "fetch" /\ UNCHANGED polls
             \/ /\ status \notin Terminal /\ polls < MaxPolls
                /\ polls' = polls + 1 /\ UNCHANGED at
             \/ /\ status \notin Terminal /\ polls = MaxPolls
                /\ at' = (IF asked.defer THEN "unfinished" ELSE "fetch") /\ UNCHANGED polls
          /\ UNCHANGED errors
    /\ UNCHANGED <<atlas, asked, attempt, got, cache, blame>>

\* What is there of an unfinished measurement is taken; nothing is parked.
FetchUnfinished ==
    /\ at = "unfinished"
    /\ \/ Error /\ at' = "pending" /\ UNCHANGED got
       \/ got' = readable /\ at' = (IF readable = {} THEN "pending" ELSE "persist") /\ UNCHANGED errors
    /\ UNCHANGED <<atlas, asked, seen, polls, attempt, cache, blame>>

FirstFetch ==
    /\ at = "fetch"
    /\ \/ Error /\ at' = "raised" /\ UNCHANGED got
       \/ /\ got' = readable
          /\ at' = IF readable = {} /\ seen \notin NoRetry THEN "retry" ELSE "persist"
          /\ UNCHANGED errors
    /\ UNCHANGED <<atlas, asked, seen, polls, attempt, cache, blame>>

\* The assumption on Atlas: it indexes within MaxLag delays of a terminal status.
IndexedInTime == seen \in Terminal /\ attempt + 1 >= MaxLag => readable = reported

\* Mutant of Retry: a failed request ends the retries.
RetryOrGiveUp ==
    /\ at = "retry" /\ attempt < Retries /\ IndexedInTime
    /\ attempt' = attempt + 1
    /\ \/ Error /\ UNCHANGED got /\ at' = "persist"
       \/ /\ got' = readable /\ UNCHANGED errors
          /\ at' = IF got' # {} \/ attempt' = Retries THEN "persist" ELSE "retry"
    /\ UNCHANGED <<atlas, asked, seen, polls, cache, blame>>

\* A failed request is one more empty answer.
Retry ==
    /\ at = "retry" /\ attempt < Retries /\ IndexedInTime
    /\ attempt' = attempt + 1
    /\ \/ Error /\ UNCHANGED got
       \/ got' = readable /\ UNCHANGED errors
    /\ at' = IF got' # {} \/ attempt' = Retries THEN "persist" ELSE "retry"
    /\ UNCHANGED <<atlas, asked, seen, polls, cache, blame>>

persist_results ==
    /\ \/ at = "persist" /\ raw' = got /\ at' = "parse" /\ UNCHANGED parsed
       \/ at = "parse" /\ parsed' = got /\ at' = "done" /\ UNCHANGED raw
    /\ UNCHANGED <<atlas, asked, seen, counts, got, blame>>

\* The weekly checks read once more when the last of theirs has been fired.
refetch_parsed ==
    /\ at = "done" /\ ~asked.defer /\ attempt <= Retries
    /\ attempt' = Retries + 1
    /\ \/ Error /\ at' = "raised" /\ UNCHANGED got
       \/ got' = readable /\ at' = "persist" /\ UNCHANGED errors
    /\ UNCHANGED <<atlas, asked, seen, polls, cache, blame>>

\* Why a corridor's measurement is empty, from its status at that moment.
zero_probe_detail ==
    /\ at = "done" /\ asked.defer /\ parsed = {} /\ blame = "none"
    /\ \/ Error /\ blame' = "unknown"
       \/ /\ blame' = IF status \in NeverRan THEN "source probe" ELSE "results race"
          /\ UNCHANGED errors
    /\ UNCHANGED <<atlas, at, asked, seen, polls, attempt, got, cache>>

Die ==
    /\ at \notin {"idle", "done", "pending", "raised", "dead"} /\ at' = "dead"
    /\ UNCHANGED <<atlas, asked, seen, counts, got, cache, blame>>

Next ==
    \/ Create \/ Progress \/ Index \/ \E p \in Probe : Report(p)
    \/ fetch_measurement_status \/ FetchUnfinished \/ FirstFetch \/ Retry
    \/ persist_results \/ refetch_parsed \/ zero_probe_detail \/ Die

Spec == Init /\ [][Next]_vars

\* What reaches the cache as a measurement without results had none: Atlas may
\* call it stopped up to MaxLag delays before its results can be read, and a
\* request may fail in between, as long as both fit into the retries.  Only a
\* caller that does not defer takes an unfinished measurement for empty, and a
\* source probe is blamed only when it has sent nothing.
EmptyIsGenuine ==
    /\ at = "done" /\ parsed = {} =>
        IF seen \in Terminal THEN reported = {} ELSE ~asked.defer
    /\ blame = "source probe" => reported = {}
=============================================================================
