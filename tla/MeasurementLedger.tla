------------------------- MODULE MeasurementLedger -------------------------
(***************************************************************************)
(* What the corridor pipeline promises about a RIPE Atlas measurement it   *)
(* has paid for, whatever the number of workers, nights and retries: a     *)
(* measurement is fired once, is then either in somebody's hands or parked *)
(* in data/analysis/pending_measurements.json, and ends written up or      *)
(* lost, after which it never comes back.  Writing it up twice would file  *)
(* its corroborations twice (they are not deduplicated), so "written" is   *)
(* final.  CorridorBatch is shown to implement this module.                *)
(*                                                                         *)
(* Several measurements may move in one step: collect_ready rewrites the   *)
(* whole parking file at once.                                             *)
(***************************************************************************)
CONSTANT Mid        \* measurement ids

VARIABLE status     \* status[m]: where measurement m is in its life

Status == {"unfired", "held", "parked", "written", "lost"}

\* The moves one measurement may make.  "held" covers both a worker that
\* waits for it and the collector that has taken it out of the file; a
\* parked measurement can be collected and written only via "held".
Moves ==
    { <<"unfired", "held">>,
      <<"held", "parked">>, <<"held", "written">>, <<"held", "lost">>,
      <<"parked", "held">>, <<"parked", "lost">> }

Init == status = [m \in Mid |-> "unfired"]

Next ==
    /\ status' \in [Mid -> Status]
    /\ \A m \in Mid : status'[m] # status[m] => <<status[m], status'[m]>> \in Moves

Spec == Init /\ [][Next]_status
=============================================================================
