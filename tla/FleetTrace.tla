----------------------------- MODULE FleetTrace -----------------------------
(***************************************************************************)
(* Queued fleet traceroutes (atlas/fleet_trace.py): the owner queues an    *)
(* address, the nightly script traces it once from every connected probe   *)
(* and reports it.  The queue file is read when the run starts and written *)
(* once, after the last target; the owner may queue another meanwhile.     *)
(***************************************************************************)
CONSTANTS
    Target          \* addresses that may be queued

VARIABLES
    queue,          \* fleet_trace_queue.json
    reported,       \* history: queued targets with a section in the report
    asked,          \* history: targets the owner has queued
    late,           \* history: those queued while a run was in progress
    run             \* run_queued: its locals, all empty when it is not running

vars == <<queue, reported, asked, late, run>>

Asleep == [at |-> "asleep", todo |-> {}, entry |-> {}, remaining |-> {}]

Init ==
    /\ queue = {} /\ reported = {} /\ asked = {} /\ late = {}
    /\ run = Asleep

\* enqueue: a target that is queued already is not added twice.
Enqueue(t) ==
    /\ t \notin queue
    /\ queue' = queue \cup {t}
    /\ asked' = asked \cup {t} /\ reported' = reported \ {t}
    /\ late' = IF run.at = "asleep" THEN late \ {t} ELSE late \cup {t}
    /\ UNCHANGED run

\* run_queued: an empty queue ends it at once.
Start ==
    /\ run.at = "asleep" /\ queue # {}
    /\ run' = [Asleep EXCEPT !.at = "firing", !.todo = queue]
    /\ late' = late \ queue
    /\ UNCHANGED <<queue, reported, asked>>

\* RequestException or ValueError out of _fire_and_persist: kept for the next
\* night, whether the measurement had been created or not.
NotFired(t) ==
    /\ run.at = "firing" /\ t \in run.todo
    /\ run' = [run EXCEPT !.todo = @ \ {t}, !.remaining = @ \cup {t}]
    /\ UNCHANGED <<queue, reported, asked, late>>

Fire(t) ==
    /\ run.at = "firing" /\ t \in run.todo
    /\ run' = [run EXCEPT !.at = "collecting", !.todo = @ \ {t}, !.entry = {t}]
    /\ UNCHANGED <<queue, reported, asked, late>>

\* refetch_parsed, render_section and _prepend_report.
Report ==
    /\ run.at = "collecting"
    /\ reported' = reported \cup run.entry
    /\ run' = [run EXCEPT !.at = "firing", !.entry = {}]
    /\ UNCHANGED <<queue, asked, late>>

\* Mutation of Save: the refused targets are dropped with the others.
SaveNothing ==
    /\ run.at = "firing" /\ run.todo = {}
    /\ queue' = {} /\ run' = Asleep
    /\ UNCHANGED <<reported, asked, late>>

\* _save_queue overwrites the file with what this run has left over.
Save ==
    /\ run.at = "firing" /\ run.todo = {}
    /\ queue' = run.remaining /\ run' = Asleep
    /\ UNCHANGED <<reported, asked, late>>

\* An exception nobody catches (refetch_parsed is outside the try) or the
\* end of the process; the script carries on without it.
Die ==
    /\ run.at # "asleep"
    /\ run' = Asleep
    /\ UNCHANGED <<queue, reported, asked, late>>

Next ==
    \/ \E t \in Target : Enqueue(t) \/ NotFired(t) \/ Fire(t)
    \/ Start \/ Report \/ Save \/ Die

Spec == Init /\ [][Next]_vars

(***************************************************************************)
(* A target leaves the queue only with its section in the report, whatever *)
(* is refused, raises or dies on the way.  Not so for a target queued      *)
(* while a run was in progress: Save overwrites it, and nobody reports it. *)
(***************************************************************************)
LeavesQueueReported == asked \subseteq queue \cup reported \cup late
=============================================================================
