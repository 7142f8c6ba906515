------------------------ MODULE CorridorBatch_proofs ------------------------
(***************************************************************************)
(* Type correctness of the corridor batch and its first safety theorems,   *)
(* for any number of networks, workers, measurements and findings and any  *)
(* number of nights, failures and deaths of the process.                   *)
(*                                                                         *)
(* IInv is the inductive invariant.  There is one lemma per action, and in *)
(* it one step per part of IInv that the action's assignments can disturb; *)
(* the last step but one is for the parts whose variables do not change.   *)
(***************************************************************************)
EXTENDS CorridorBatch, TLAPS

USE BatchAssumption, MarkerAssumption
USE DEF IInv, TypeOK, FilesOK, RunOK, ThreadsOK, CollectorOK, HistoryOK, Actor,
        Control, Sources, Ownership, files, runVars, threadVars, collectVars, history
-----------------------------------------------------------------------------
(***************************************************************************)
(* Jobs and entries.                                                       *)
(***************************************************************************)
\* The fields of a job, which is never the marker NoJob.
LEMMA JobFields ==
    ASSUME NEW j \in Job
    PROVE  j # NoJob /\ j.pair \in Pair /\ Source(j.pair) \in Network
  BY DEF Job, Pair, Source

\* The corridors a worker is given are jobs.
LEMMA PickedJobs ==
    /\ \A f \in Finding : [pair |-> RetestPair[f], finding |-> f] \in Job
    /\ \A p \in Backlog : [pair |-> p, finding |-> Fresh] \in Job
  BY DEF Job

\* The fields of an entry of the parking file, which is never NoEntry.
LEMMA EntryFields ==
    ASSUME NEW e \in Entry
    PROVE  e # NoEntry /\ e.job \in Job /\ e.attempts \in 0..MaxAttempts
  BY DEF Entry

\* What the parking file may be given: a new entry, one re-parked, one aged.
LEMMA NewEntry ==
    ASSUME NEW j \in Job, NEW n \in 0..MaxAttempts, NEW c \in BOOLEAN
    PROVE  [job |-> j, attempts |-> n, cool |-> c, age |-> 0] \in Entry
  BY DEF Entry

LEMMA ReparkedEntry ==
    ASSUME NEW e \in Entry, e.attempts < MaxAttempts
    PROVE  [e EXCEPT !.attempts = @ + 1, !.cool = TRUE] \in Entry
<1>1. ASSUME NEW n \in 0..MaxAttempts PROVE [e EXCEPT !.attempts = n, !.cool = TRUE] \in Entry
  BY DEF Entry
<1>2. e.attempts + 1 \in 0..MaxAttempts
  BY EntryFields
<1> QED
  BY <1>1, <1>2

LEMMA AgedEntry ==
    ASSUME NEW e \in Entry \cup {NoEntry}
    PROVE  /\ Aged(e) \in Entry \cup {NoEntry}
           /\ Aged(e) = NoEntry <=> e = NoEntry
<1>1. CASE e = NoEntry
  BY <1>1 DEF Aged
<1>2. CASE e \in Entry
  <2>1. ASSUME NEW n \in 0..2 PROVE [e EXCEPT !.cool = FALSE, !.age = n] \in Entry
    BY <1>2 DEF Entry
  <2>2. (IF e.age = 2 THEN 2 ELSE e.age + 1) \in 0..2
    BY <1>2 DEF Entry
  <2> QED
    BY <1>2, <2>1, <2>2, EntryFields DEF Aged
<1> QED
  BY <1>1, <1>2

\* collect_ready hands back no entry that has used up its attempts.
LEMMA ReadyHasAttemptsLeft ==
    ASSUME NEW e \in Entry, "ready" \in Verdicts(e)
    PROVE  e.attempts < MaxAttempts
  BY DEF Verdicts, Verdict, Entry
-----------------------------------------------------------------------------
(***************************************************************************)
(* The initial state, and who holds what in any state.                     *)
(***************************************************************************)
LEMMA InitIInv == Init => IInv
<1> SUFFICES ASSUME Init PROVE IInv
  OBVIOUS
<1> USE DEF Init
<1>1. FilesOK /\ RunOK /\ CollectorOK
  OBVIOUS
<1>2. ThreadsOK
  BY DEF Pc
<1>3. HistoryOK
  BY DEF Closed
<1>4. WorkerControl /\ MainControl
  BY DEF WorkerControl, MainControl, IdlePc, HoldPc
<1>5. BusyInFlight /\ OneJobPerSource
  BY DEF BusyInFlight, OneJobPerSource, Busy
<1>6. UnfiredNowhere /\ ParkedUnwritten /\ ReadyUnwritten
  BY DEF UnfiredNowhere, ParkedUnwritten, ReadyUnwritten
<1>7. AwaitedUnwritten /\ HeldUnwritten /\ OwnersDiffer /\ FiledAtMostOnce
  BY DEF AwaitedUnwritten, HeldUnwritten, OwnersDiffer, FiledAtMostOnce
<1> QED
  BY <1>1, <1>2, <1>3, <1>4, <1>5, <1>6, <1>7

\* While a worker is busy or waits, the collector is not at work.
LEMMA WorkersAlone ==
    ASSUME IInv, NEW w \in Worker, pc[w] # "off"
    PROVE  /\ phase = "work" /\ pc[Main] = "off" /\ msm[Main] = NoMid
           /\ \A m \in Mid : ready[m] = NoEntry
  BY DEF WorkerControl, MainControl, HoldPc

\* While the collector is at work, every worker is off and holds nothing.
LEMMA CollectorAlone ==
    ASSUME IInv, pc[Main] # "off"
    PROVE  \A w \in Worker : pc[w] = "off" /\ msm[w] = NoMid /\ out[w] \notin Mid
  BY DEF WorkerControl, MainControl, HoldPc, IdlePc

\* A thread about to write holds a measurement that was never written, is not
\* parked, and is nobody else's.
LEMMA WriterOwns ==
    ASSUME IInv, NEW a \in Actor, pc[a] = "write"
    PROVE  /\ msm[a] \in Mid /\ writes[msm[a]] = 0 /\ pending[msm[a]] = NoEntry
           /\ jobOf[msm[a]] # NoJob /\ job[a] \in Job
           /\ a # Main => ready[msm[a]] = NoEntry
           /\ \A w \in Worker : /\ w # a => msm[w] # msm[a]
                                /\ out[w] # msm[a]
<1>1. CASE a = Main
  <2>1. msm[a] \in Mid /\ ready[msm[a]] # NoEntry /\ job[a] \in Job
    BY <1>1 DEF MainControl, HoldPc
  <2>2. writes[msm[a]] = 0 /\ pending[msm[a]] = NoEntry /\ jobOf[msm[a]] # NoJob
    BY <1>1, <2>1 DEF ReadyUnwritten, ParkedUnwritten, UnfiredNowhere
  <2>3. \A w \in Worker : msm[w] # msm[a] /\ out[w] # msm[a]
    BY <1>1, <2>1, CollectorAlone
  <2> QED
    BY <1>1, <2>1, <2>2, <2>3
<1>2. CASE a \in Worker
  <2>1. msm[a] \in Mid /\ job[a] \in Job
    BY <1>2 DEF WorkerControl, IdlePc
  <2>2. writes[msm[a]] = 0 /\ pending[msm[a]] = NoEntry /\ jobOf[msm[a]] # NoJob
    BY <1>2, <2>1 DEF HeldUnwritten, UnfiredNowhere
  <2>3. \A w \in Worker : /\ w # a => msm[w] # msm[a]
                          /\ out[w] # msm[a]
    BY <1>2, <2>1 DEF OwnersDiffer
  <2> QED
    BY <1>2, <2>1, <2>2, <2>3, WorkersAlone
<1> QED
  BY <1>1, <1>2
-----------------------------------------------------------------------------
(***************************************************************************)
(* Every step keeps the invariant.                                         *)
(***************************************************************************)
\* The write phase, whether it ends well or raises half way.
LEMMA WritePhaseKeepsIInv ==
    ASSUME IInv, NEW a \in Actor, pc[a] = "write", NEW x \in {"settle", "failedWriting"},
           tested' = tested \/ tested' = tested \cup {job[a].pair},
           writes' = [writes EXCEPT ![msm[a]] = @ + 1],
           pc' = [pc EXCEPT ![a] = x],
           UNCHANGED <<queue, pending, runVars, job, msm, out, tries, res, collectVars,
                       jobOf, closed, stamps, unrecorded, picked, crashes>>
    PROVE  IInv'
<1> DEFINE m == msm[a]
<1>a. /\ m \in Mid /\ writes[m] = 0 /\ pending[m] = NoEntry
      /\ jobOf[m] # NoJob /\ job[a] \in Job
      /\ a # Main => ready[m] = NoEntry
      /\ \A w \in Worker : /\ w # a => msm[w] # m
                           /\ out[w] # m
  BY WriterOwns
<1>b. writes'[m] = 1 /\ \A n \in Mid : n # m => writes'[n] = writes[n]
  BY <1>a
<1>c. writes' \in [Mid -> Nat]
  BY <1>a
<1> HIDE DEF m
<1>1. FilesOK' /\ RunOK' /\ CollectorOK'
  BY <1>a, JobFields
<1>2. ThreadsOK'
  BY DEF Pc
<1>3. HistoryOK'
  BY <1>c DEF Closed
<1>4. WorkerControl'
  BY <1>a DEF WorkerControl, IdlePc, m
<1>5. MainControl'
  BY <1>a DEF MainControl, HoldPc
<1>6. BusyInFlight' /\ OneJobPerSource'
  BY DEF BusyInFlight, OneJobPerSource, Busy
<1>7. UnfiredNowhere'
  BY <1>a, <1>b DEF UnfiredNowhere
<1>8. ParkedUnwritten'
  BY <1>a, <1>b DEF ParkedUnwritten
<1>9. ReadyUnwritten'
  BY <1>a, <1>b DEF ReadyUnwritten, m
<1>10. AwaitedUnwritten'
  BY <1>a, <1>b DEF AwaitedUnwritten
<1>11. HeldUnwritten'
  <2> SUFFICES ASSUME NEW w \in Worker, msm[w] \in Mid,
                      pc'[w] \in {"fire", "wait", "analyze", "write", "failed"}
               PROVE  writes'[msm[w]] = 0 /\ pending[msm[w]] = NoEntry
    BY DEF HeldUnwritten
  <2>1. w # a
    OBVIOUS
  <2> QED
    BY <2>1, <1>a, <1>b DEF HeldUnwritten
<1>12. OwnersDiffer'
  BY DEF OwnersDiffer
<1>13. FiledAtMostOnce'
  BY <1>a, <1>b DEF FiledAtMostOnce
<1> QED
  BY <1>1, <1>2, <1>3, <1>4, <1>5, <1>6, <1>7, <1>8, <1>9, <1>10, <1>11, <1>12, <1>13

\* Between two nights only parked measurements grow older.
LEMMA StartBatchKeepsIInv == ASSUME IInv, StartBatch PROVE IInv'
<1> USE DEF StartBatch, Stage
<1>a. \A m \in Mid : /\ pending'[m] \in Entry \cup {NoEntry}
                     /\ pending'[m] = NoEntry <=> pending[m] = NoEntry
  BY AgedEntry
<1>b. /\ \A m \in Mid : ready[m] = NoEntry
      /\ \A w \in Worker : pc[w] = "off" /\ pc'[w] = "off"
  BY DEF WorkerControl, MainControl, HoldPc
<1>1. FilesOK'
  BY <1>a
<1>2. RunOK'
  OBVIOUS
<1>3. ThreadsOK'
  BY DEF Pc
<1>4. HistoryOK'
  BY DEF Closed
<1>5. WorkerControl'
  BY DEF WorkerControl, IdlePc, HoldPc
<1>6. MainControl'
  BY DEF MainControl, HoldPc
<1>7. BusyInFlight'
  BY <1>b DEF BusyInFlight, Busy
<1>8. OneJobPerSource'
  BY DEF OneJobPerSource, Busy, Source
<1>9. UnfiredNowhere'
  BY <1>a DEF UnfiredNowhere
<1>10. ParkedUnwritten'
  BY <1>a, <1>b DEF ParkedUnwritten
<1>11. ReadyUnwritten'
  BY <1>b DEF ReadyUnwritten
<1>12. AwaitedUnwritten'
  BY <1>a DEF AwaitedUnwritten
<1>13. HeldUnwritten'
  BY <1>b DEF HeldUnwritten
<1>14. (CollectorOK /\ OwnersDiffer /\ FiledAtMostOnce)'
  BY DEF OwnersDiffer, FiledAtMostOnce
<1> QED
  BY <1>1, <1>2, <1>3, <1>4, <1>5, <1>6, <1>7, <1>8, <1>9, <1>10, <1>11, <1>12,
     <1>13, <1>14

\* Nothing but the loop head looks at the clock.
LEMMA DeadlineKeepsIInv == ASSUME IInv, Deadline PROVE IInv'
<1> USE DEF Deadline
<1>1. RunOK'
  OBVIOUS
<1>2. (FilesOK /\ ThreadsOK /\ CollectorOK /\ HistoryOK /\ WorkerControl /\
      MainControl /\ BusyInFlight /\ OneJobPerSource /\ UnfiredNowhere /\
      ParkedUnwritten /\ ReadyUnwritten /\ AwaitedUnwritten /\ HeldUnwritten /\
      OwnersDiffer /\ FiledAtMostOnce)'
  BY DEF Pc, Closed, WorkerControl, IdlePc, HoldPc, MainControl, BusyInFlight, Busy, Source,
     OneJobPerSource, UnfiredNowhere, ParkedUnwritten, ReadyUnwritten, AwaitedUnwritten,
     HeldUnwritten, OwnersDiffer, FiledAtMostOnce
<1> QED
  BY <1>1, <1>2

\* Entries leave the parking file for the collector's hands.
LEMMA CollectReadyKeepsIInv == ASSUME IInv, CollectReady PROVE IInv'
<1> USE DEF CollectReady
<1>a. PICK verdict \in [Parked -> {"drop", "keep", "ready"}] :
        /\ \A m \in Parked : verdict[m] \in Verdicts(pending[m])
        /\ ready' = [m \in Mid |-> IF m \in {n \in Parked : verdict[n] = "ready"}
                                   THEN pending[m] ELSE NoEntry]
        /\ pending' = [m \in Mid |-> IF m \in {n \in Parked : verdict[n] = "keep"}
                                     THEN pending[m] ELSE NoEntry]
        /\ closed' = [m \in Mid |-> IF m \in {n \in Parked : verdict[n] = "drop"}
                                    THEN "dropped" ELSE closed[m]]
        /\ lost' = {n \in Parked : verdict[n] = "drop"}
  OBVIOUS
<1>b. \A m \in Mid : ready'[m] # NoEntry =>
        /\ ready'[m] = pending[m] /\ pending'[m] = NoEntry
        /\ pending[m] \in Entry /\ pending[m].attempts < MaxAttempts
  BY <1>a, ReadyHasAttemptsLeft DEF Parked
<1>c. \A m \in Mid : pending'[m] # NoEntry => pending'[m] = pending[m] /\ ready'[m] = NoEntry
  BY <1>a
<1>1. FilesOK'
  BY <1>a
<1>2. ThreadsOK'
  BY DEF Pc
<1>3. CollectorOK'
  BY <1>a DEF Parked
<1>4. HistoryOK'
  BY <1>a DEF Closed
<1>5. WorkerControl'
  BY DEF WorkerControl, IdlePc, HoldPc
<1>6. MainControl'
  BY <1>b DEF MainControl, HoldPc
<1>7. BusyInFlight'
  BY DEF BusyInFlight, Busy, Source
<1>8. OneJobPerSource'
  BY DEF OneJobPerSource, Busy, Source
<1>9. UnfiredNowhere'
  BY <1>b, <1>c DEF UnfiredNowhere
<1>10. ParkedUnwritten'
  BY <1>c DEF ParkedUnwritten
<1>11. ReadyUnwritten'
  BY <1>b DEF ParkedUnwritten, ReadyUnwritten
<1>12. AwaitedUnwritten'
  BY <1>c DEF AwaitedUnwritten
<1>13. HeldUnwritten'
  BY <1>c DEF HeldUnwritten
<1>14. (RunOK /\ OwnersDiffer /\ FiledAtMostOnce)'
  BY DEF OwnersDiffer, FiledAtMostOnce
<1> QED
  BY <1>1, <1>2, <1>3, <1>4, <1>5, <1>6, <1>7, <1>8, <1>9, <1>10, <1>11, <1>12,
     <1>13, <1>14

\* Attempts are recorded, or the store refuses them.
LEMMA StampTypes ==
    ASSUME IInv, NEW S, Stamp(S)
    PROVE  stamps' \in [Mid -> Nat] /\ unrecorded' \subseteq Mid
  BY DEF Stamp

LEMMA StampLostKeepsIInv == ASSUME IInv, StampLost PROVE IInv'
<1> USE DEF StampLost
<1>1. ThreadsOK'
  BY DEF Pc
<1>2. CollectorOK'
  OBVIOUS
<1>3. HistoryOK'
  BY StampTypes DEF Closed
<1>4. WorkerControl'
  BY DEF WorkerControl, IdlePc, HoldPc
<1>5. MainControl'
  BY DEF MainControl, HoldPc
<1>6. BusyInFlight'
  BY DEF BusyInFlight, Busy, Source
<1>7. OneJobPerSource'
  BY DEF OneJobPerSource, Busy, Source
<1>8. ReadyUnwritten'
  BY DEF ReadyUnwritten
<1>9. HeldUnwritten'
  BY DEF HeldUnwritten
<1>10. (FilesOK /\ RunOK /\ UnfiredNowhere /\ ParkedUnwritten /\ AwaitedUnwritten
      /\ OwnersDiffer /\ FiledAtMostOnce)'
  BY DEF UnfiredNowhere, ParkedUnwritten, AwaitedUnwritten, OwnersDiffer, FiledAtMostOnce
<1> QED
  BY <1>1, <1>2, <1>3, <1>4, <1>5, <1>6, <1>7, <1>8, <1>9, <1>10

\* The collector takes up an entry that has attempts left.
LEMMA TakeReadyKeepsIInv == ASSUME NEW m \in Mid, IInv, TakeReady(m) PROVE IInv'
<1> USE DEF TakeReady
<1>a. ready[m] \in Entry /\ ready[m].job \in Job
  BY EntryFields
<1>1. ThreadsOK'
  BY <1>a DEF Pc
<1>2. WorkerControl'
  BY DEF WorkerControl, IdlePc, HoldPc
<1>3. MainControl'
  BY <1>a DEF MainControl, HoldPc
<1>4. BusyInFlight'
  BY DEF BusyInFlight, Busy, Source
<1>5. OneJobPerSource'
  BY DEF OneJobPerSource, Busy, Source
<1>6. UnfiredNowhere'
  BY DEF UnfiredNowhere
<1>7. ReadyUnwritten'
  BY DEF ReadyUnwritten
<1>8. HeldUnwritten'
  BY DEF HeldUnwritten
<1>9. OwnersDiffer'
  BY DEF OwnersDiffer
<1>10. (FilesOK /\ RunOK /\ CollectorOK /\ HistoryOK /\ ParkedUnwritten /\
      AwaitedUnwritten /\ FiledAtMostOnce)'
  BY DEF Closed, ParkedUnwritten, AwaitedUnwritten, FiledAtMostOnce
<1> QED
  BY <1>1, <1>2, <1>3, <1>4, <1>5, <1>6, <1>7, <1>8, <1>9, <1>10

\* The workers start with nothing in hand.
LEMMA CollectDoneKeepsIInv == ASSUME IInv, CollectDone PROVE IInv'
<1> USE DEF CollectDone
<1>a. \A w \in Worker : pc[w] = "off" /\ msm[w] = NoMid /\ out[w] \notin Mid
  BY CollectorAlone
<1>1. RunOK'
  OBVIOUS
<1>2. ThreadsOK'
  BY DEF Pc
<1>3. WorkerControl'
  BY <1>a DEF WorkerControl, MainControl, IdlePc, HoldPc
<1>4. MainControl'
  BY DEF MainControl, HoldPc
<1>5. BusyInFlight'
  BY DEF BusyInFlight, Busy, Source
<1>6. OneJobPerSource'
  BY DEF OneJobPerSource, Busy, Source
<1>7. ReadyUnwritten'
  BY DEF ReadyUnwritten
<1>8. HeldUnwritten'
  BY DEF HeldUnwritten
<1>9. (FilesOK /\ CollectorOK /\ HistoryOK /\ UnfiredNowhere /\ ParkedUnwritten /\
      AwaitedUnwritten /\ OwnersDiffer /\ FiledAtMostOnce)'
  BY DEF Closed, UnfiredNowhere, ParkedUnwritten, AwaitedUnwritten, OwnersDiffer,
     FiledAtMostOnce
<1> QED
  BY <1>1, <1>2, <1>3, <1>4, <1>5, <1>6, <1>7, <1>8, <1>9

\* The workers are gone when the second collection begins.
LEMMA JoinWorkersKeepsIInv == ASSUME IInv, JoinWorkers PROVE IInv'
<1> USE DEF JoinWorkers
<1>1. RunOK'
  OBVIOUS
<1>2. ThreadsOK'
  BY DEF Pc
<1>3. WorkerControl'
  BY DEF WorkerControl, IdlePc, HoldPc
<1>4. MainControl'
  BY DEF MainControl, HoldPc
<1>5. BusyInFlight'
  BY DEF BusyInFlight, Busy, Source
<1>6. OneJobPerSource'
  BY DEF OneJobPerSource, Busy, Source
<1>7. ReadyUnwritten'
  BY DEF ReadyUnwritten, MainControl
<1>8. HeldUnwritten'
  BY DEF HeldUnwritten
<1>9. (FilesOK /\ CollectorOK /\ HistoryOK /\ UnfiredNowhere /\ ParkedUnwritten /\
      AwaitedUnwritten /\ OwnersDiffer /\ FiledAtMostOnce)'
  BY DEF Closed, UnfiredNowhere, ParkedUnwritten, AwaitedUnwritten, OwnersDiffer,
     FiledAtMostOnce
<1> QED
  BY <1>1, <1>2, <1>3, <1>4, <1>5, <1>6, <1>7, <1>8, <1>9

\* A worker goes on or ends.
LEMMA LoopHeadKeepsIInv == ASSUME NEW w \in Worker, IInv, LoopHead(w) PROVE IInv'
<1> USE DEF LoopHead
<1>1. ThreadsOK'
  BY DEF Pc
<1>2. WorkerControl'
  BY DEF WorkerControl, IdlePc, HoldPc
<1>3. MainControl'
  BY DEF MainControl, HoldPc
<1>4. BusyInFlight'
  BY DEF BusyInFlight, Busy, Source
<1>5. OneJobPerSource'
  BY DEF OneJobPerSource, Busy, Source
<1>6. ReadyUnwritten'
  BY DEF ReadyUnwritten
<1>7. HeldUnwritten'
  BY DEF HeldUnwritten
<1>8. (FilesOK /\ RunOK /\ CollectorOK /\ HistoryOK /\ UnfiredNowhere /\
      ParkedUnwritten /\ AwaitedUnwritten /\ OwnersDiffer /\ FiledAtMostOnce)'
  BY DEF Closed, UnfiredNowhere, ParkedUnwritten, AwaitedUnwritten, OwnersDiffer,
     FiledAtMostOnce
<1> QED
  BY <1>1, <1>2, <1>3, <1>4, <1>5, <1>6, <1>7, <1>8

\* A retest's source is free when it is popped.
LEMMA PickRetestKeepsIInv == ASSUME NEW w \in Worker, IInv, PickRetest(w) PROVE IInv'
<1> USE DEF PickRetest, Assign
<1>a. PICK j \in Job : Assign(w, j) /\ Source(j.pair) \notin inFlight
  BY PickedJobs DEF Free
<1>b. queue' \subseteq queue
  OBVIOUS
<1>c. Source(j.pair) \in Network
  BY JobFields
<1>d. msm[w] = NoMid /\ tries[w] = 0 /\ out[w] \notin Mid /\ phase = "work"
  BY DEF WorkerControl, IdlePc
<1>1. FilesOK'
  BY <1>b
<1>2. RunOK'
  BY <1>a, <1>c
<1>3. ThreadsOK'
  BY <1>a DEF Pc
<1>4. WorkerControl'
  BY <1>a, <1>d DEF WorkerControl, IdlePc
<1>5. MainControl'
  BY <1>a DEF MainControl, HoldPc
<1>6. BusyInFlight'
  BY <1>a DEF BusyInFlight, Busy
<1>7. OneJobPerSource'
  BY <1>a DEF OneJobPerSource, BusyInFlight, Busy
<1>8. ReadyUnwritten'
  BY <1>a DEF ReadyUnwritten
<1>9. HeldUnwritten'
  BY <1>a, <1>d DEF HeldUnwritten
<1>10. (CollectorOK /\ HistoryOK /\ UnfiredNowhere /\ ParkedUnwritten /\
      AwaitedUnwritten /\ OwnersDiffer /\ FiledAtMostOnce)'
  BY DEF Closed, UnfiredNowhere, ParkedUnwritten, AwaitedUnwritten, OwnersDiffer,
     FiledAtMostOnce
<1> QED
  BY <1>1, <1>2, <1>3, <1>4, <1>5, <1>6, <1>7, <1>8, <1>9, <1>10

\* A fresh corridor's source is free when it is picked.
LEMMA PickFreshKeepsIInv == ASSUME NEW w \in Worker, IInv, PickFresh(w) PROVE IInv'
<1> USE DEF PickFresh, Assign
<1>a. PICK j \in Job : Assign(w, j) /\ Source(j.pair) \notin inFlight
  BY PickedJobs DEF Pickable, Untested
<1>b. queue' \subseteq queue
  OBVIOUS
<1>c. Source(j.pair) \in Network
  BY JobFields
<1>d. msm[w] = NoMid /\ tries[w] = 0 /\ out[w] \notin Mid /\ phase = "work"
  BY DEF WorkerControl, IdlePc
<1>1. FilesOK'
  BY <1>b
<1>2. RunOK'
  BY <1>a, <1>c
<1>3. ThreadsOK'
  BY <1>a DEF Pc
<1>4. HistoryOK'
  BY DEF Pickable, Untested, Closed
<1>5. WorkerControl'
  BY <1>a, <1>d DEF WorkerControl, IdlePc
<1>6. MainControl'
  BY <1>a DEF MainControl, HoldPc
<1>7. BusyInFlight'
  BY <1>a DEF BusyInFlight, Busy
<1>8. OneJobPerSource'
  BY <1>a DEF OneJobPerSource, BusyInFlight, Busy
<1>9. ReadyUnwritten'
  BY <1>a DEF ReadyUnwritten
<1>10. HeldUnwritten'
  BY <1>a, <1>d DEF HeldUnwritten
<1>11. (CollectorOK /\ UnfiredNowhere /\ ParkedUnwritten /\ AwaitedUnwritten /\
      OwnersDiffer /\ FiledAtMostOnce)'
  BY DEF UnfiredNowhere, ParkedUnwritten, AwaitedUnwritten, OwnersDiffer, FiledAtMostOnce
<1> QED
  BY <1>1, <1>2, <1>3, <1>4, <1>5, <1>6, <1>7, <1>8, <1>9, <1>10, <1>11

\* No job is taken.
LEMMA PickNothingKeepsIInv == ASSUME NEW w \in Worker, IInv, PickNothing(w) PROVE IInv'
<1> USE DEF PickNothing
<1>1. FilesOK'
  OBVIOUS
<1>2. ThreadsOK'
  BY DEF Pc
<1>3. WorkerControl'
  BY DEF WorkerControl, IdlePc, HoldPc
<1>4. MainControl'
  BY DEF MainControl, HoldPc
<1>5. BusyInFlight'
  BY DEF BusyInFlight, Busy, Source
<1>6. OneJobPerSource'
  BY DEF OneJobPerSource, Busy, Source
<1>7. ReadyUnwritten'
  BY DEF ReadyUnwritten
<1>8. HeldUnwritten'
  BY DEF HeldUnwritten
<1>9. (RunOK /\ CollectorOK /\ HistoryOK /\ UnfiredNowhere /\ ParkedUnwritten /\
      AwaitedUnwritten /\ OwnersDiffer /\ FiledAtMostOnce)'
  BY DEF Closed, UnfiredNowhere, ParkedUnwritten, AwaitedUnwritten, OwnersDiffer,
     FiledAtMostOnce
<1> QED
  BY <1>1, <1>2, <1>3, <1>4, <1>5, <1>6, <1>7, <1>8, <1>9

\* No job is taken.
LEMMA PickRaisesKeepsIInv == ASSUME NEW w \in Worker, IInv, PickRaises(w) PROVE IInv'
<1> USE DEF PickRaises
<1>1. ThreadsOK'
  BY DEF Pc
<1>2. WorkerControl'
  BY DEF WorkerControl, IdlePc, HoldPc
<1>3. MainControl'
  BY DEF MainControl, HoldPc
<1>4. BusyInFlight'
  BY DEF BusyInFlight, Busy, Source
<1>5. OneJobPerSource'
  BY DEF OneJobPerSource, Busy, Source
<1>6. ReadyUnwritten'
  BY DEF ReadyUnwritten
<1>7. HeldUnwritten'
  BY DEF HeldUnwritten
<1>8. (FilesOK /\ RunOK /\ CollectorOK /\ HistoryOK /\ UnfiredNowhere /\
      ParkedUnwritten /\ AwaitedUnwritten /\ OwnersDiffer /\ FiledAtMostOnce)'
  BY DEF Closed, UnfiredNowhere, ParkedUnwritten, AwaitedUnwritten, OwnersDiffer,
     FiledAtMostOnce
<1> QED
  BY <1>1, <1>2, <1>3, <1>4, <1>5, <1>6, <1>7, <1>8

\* No measurement exists.
LEMMA FireRefusedKeepsIInv == ASSUME NEW w \in Worker, IInv, FireRefused(w) PROVE IInv'
<1> USE DEF FireRefused
<1>1. ThreadsOK'
  BY DEF Pc
<1>2. WorkerControl'
  BY DEF WorkerControl, IdlePc, HoldPc
<1>3. MainControl'
  BY DEF MainControl, HoldPc
<1>4. BusyInFlight'
  BY DEF BusyInFlight, Busy, Source
<1>5. OneJobPerSource'
  BY DEF OneJobPerSource, Busy, Source
<1>6. ReadyUnwritten'
  BY DEF ReadyUnwritten
<1>7. HeldUnwritten'
  BY DEF HeldUnwritten
<1>8. (FilesOK /\ RunOK /\ CollectorOK /\ HistoryOK /\ UnfiredNowhere /\
      ParkedUnwritten /\ AwaitedUnwritten /\ OwnersDiffer /\ FiledAtMostOnce)'
  BY DEF Closed, UnfiredNowhere, ParkedUnwritten, AwaitedUnwritten, OwnersDiffer,
     FiledAtMostOnce
<1> QED
  BY <1>1, <1>2, <1>3, <1>4, <1>5, <1>6, <1>7, <1>8

\* A new measurement has one owner.
LEMMA CreateKeepsIInv == ASSUME NEW w \in Worker, IInv, Create(w) PROVE IInv'
<1> USE DEF Create
<1>a. PICK m \in Mid : /\ jobOf[m] = NoJob
                     /\ jobOf' = [jobOf EXCEPT ![m] = job[w]]
                     /\ out' = [out EXCEPT ![w] = m]
  OBVIOUS
<1>b. tries[w] < MaxTargetIps /\ job[w] \in Job
  BY DEF WorkerControl, IdlePc
<1>c. /\ writes[m] = 0 /\ pending[m] = NoEntry /\ ready[m] = NoEntry
      /\ \A v \in Worker : msm[v] # m /\ out[v] # m
  BY <1>a DEF UnfiredNowhere
<1>1. ThreadsOK'
  BY <1>a, <1>b DEF Pc
<1>2. HistoryOK'
  BY <1>a, <1>b DEF Closed
<1>3. WorkerControl'
  BY <1>a, <1>b DEF WorkerControl, IdlePc
<1>4. MainControl'
  BY DEF MainControl, HoldPc
<1>5. BusyInFlight'
  BY DEF BusyInFlight, Busy, Source
<1>6. OneJobPerSource'
  BY DEF OneJobPerSource, Busy, Source
<1>7. UnfiredNowhere'
  BY <1>a, <1>b, JobFields DEF UnfiredNowhere
<1>8. ReadyUnwritten'
  BY DEF ReadyUnwritten
<1>9. AwaitedUnwritten'
  BY <1>a, <1>c DEF AwaitedUnwritten
<1>10. HeldUnwritten'
  BY DEF HeldUnwritten
<1>11. OwnersDiffer'
  BY <1>a, <1>c DEF OwnersDiffer
<1>12. (FilesOK /\ RunOK /\ CollectorOK /\ ParkedUnwritten /\ FiledAtMostOnce)'
  BY DEF ParkedUnwritten, FiledAtMostOnce
<1> QED
  BY <1>1, <1>2, <1>3, <1>4, <1>5, <1>6, <1>7, <1>8, <1>9, <1>10, <1>11, <1>12

\* The worker's measurement goes to the parking file.
LEMMA WaitPendingKeepsIInv == ASSUME NEW w \in Worker, IInv, WaitPending(w) PROVE IInv'
<1> USE DEF WaitPending, Supersede
<1> DEFINE m == out[w]
           e == [job |-> job[w], attempts |-> 0, cool |-> FALSE, age |-> 0]
<1>a. m \in Mid /\ writes[m] = 0 /\ jobOf[m] # NoJob
  BY DEF WorkerControl, AwaitedUnwritten, UnfiredNowhere
<1>b. ready[m] = NoEntry
  BY <1>a, WorkersAlone
<1>c. \A v \in Worker : msm[v] # m /\ (v # w => out[v] # m)
  BY <1>a DEF OwnersDiffer
<1>d. e \in Entry /\ e # NoEntry
  <2>1. job[w] \in Job /\ 0 \in 0..MaxAttempts
    BY DEF WorkerControl, IdlePc
  <2> QED
    BY <2>1, NewEntry, EntryFields
<1>e. pending' = [pending EXCEPT ![m] = e]
  OBVIOUS
<1> HIDE DEF e
<1>1. FilesOK'
  <2>1. pending' \in [Mid -> Entry \cup {NoEntry}]
    <3> HIDE DEF m, WaitPending
    <3> QED
      BY <1>a, <1>d, <1>e
  <2> QED
    BY <2>1
<1>2. ThreadsOK'
  BY DEF Pc
<1>3. HistoryOK'
  BY DEF Closed
<1>4. WorkerControl'
  BY DEF WorkerControl, IdlePc, HoldPc
<1>5. MainControl'
  BY DEF MainControl, HoldPc
<1>6. BusyInFlight'
  BY DEF BusyInFlight, Busy, Source
<1>7. OneJobPerSource'
  BY DEF OneJobPerSource, Busy, Source
<1>8. UnfiredNowhere'
  BY <1>a, <1>e DEF UnfiredNowhere
<1>9. ParkedUnwritten'
  BY <1>a, <1>b, <1>e DEF ParkedUnwritten
<1>10. ReadyUnwritten'
  BY DEF ReadyUnwritten
<1>11. AwaitedUnwritten'
  BY <1>a, <1>c, <1>e DEF AwaitedUnwritten
<1>12. HeldUnwritten'
  BY <1>a, <1>c, <1>e DEF HeldUnwritten
<1>13. OwnersDiffer'
  BY DEF OwnersDiffer
<1>14. (RunOK /\ CollectorOK /\ FiledAtMostOnce)'
  BY DEF FiledAtMostOnce
<1> QED
  BY <1>1, <1>2, <1>3, <1>4, <1>5, <1>6, <1>7, <1>8, <1>9, <1>10, <1>11, <1>12,
     <1>13, <1>14

\* The worker's measurement goes on to be classified.
LEMMA WaitReturnsKeepsIInv == ASSUME NEW w \in Worker, IInv, WaitReturns(w) PROVE IInv'
<1> USE DEF WaitReturns, Supersede
<1>a. out[w] \in Mid /\ writes[out[w]] = 0 /\ pending[out[w]] = NoEntry
  BY DEF WorkerControl, AwaitedUnwritten
<1>1. ThreadsOK'
  BY DEF Pc
<1>2. HistoryOK'
  BY DEF Closed
<1>3. WorkerControl'
  BY DEF WorkerControl, IdlePc, HoldPc
<1>4. MainControl'
  BY DEF MainControl, HoldPc
<1>5. BusyInFlight'
  BY DEF BusyInFlight, Busy, Source
<1>6. OneJobPerSource'
  BY DEF OneJobPerSource, Busy, Source
<1>7. UnfiredNowhere'
  BY DEF UnfiredNowhere
<1>8. ReadyUnwritten'
  BY DEF ReadyUnwritten
<1>9. AwaitedUnwritten'
  BY DEF AwaitedUnwritten
<1>10. HeldUnwritten'
  BY <1>a DEF HeldUnwritten
<1>11. OwnersDiffer'
  BY DEF OwnersDiffer
<1>12. (FilesOK /\ RunOK /\ CollectorOK /\ ParkedUnwritten /\ FiledAtMostOnce)'
  BY DEF ParkedUnwritten, FiledAtMostOnce
<1> QED
  BY <1>1, <1>2, <1>3, <1>4, <1>5, <1>6, <1>7, <1>8, <1>9, <1>10, <1>11, <1>12

\* The worker's measurement is forgotten.
LEMMA WaitRaisesKeepsIInv == ASSUME NEW w \in Worker, IInv, WaitRaises(w) PROVE IInv'
<1> USE DEF WaitRaises
<1>1. ThreadsOK'
  BY DEF Pc
<1>2. HistoryOK'
  BY DEF Closed
<1>3. WorkerControl'
  BY DEF WorkerControl, IdlePc, HoldPc
<1>4. MainControl'
  BY DEF MainControl, HoldPc
<1>5. BusyInFlight'
  BY DEF BusyInFlight, Busy, Source
<1>6. OneJobPerSource'
  BY DEF OneJobPerSource, Busy, Source
<1>7. UnfiredNowhere'
  BY DEF UnfiredNowhere
<1>8. ReadyUnwritten'
  BY DEF ReadyUnwritten
<1>9. AwaitedUnwritten'
  BY DEF AwaitedUnwritten
<1>10. HeldUnwritten'
  BY DEF HeldUnwritten
<1>11. OwnersDiffer'
  BY DEF OwnersDiffer
<1>12. (FilesOK /\ RunOK /\ CollectorOK /\ ParkedUnwritten /\ FiledAtMostOnce)'
  BY DEF ParkedUnwritten, FiledAtMostOnce
<1> QED
  BY <1>1, <1>2, <1>3, <1>4, <1>5, <1>6, <1>7, <1>8, <1>9, <1>10, <1>11, <1>12

\* The worker keeps the dark measurement and fires another one.
LEMMA TryNextTargetKeepsIInv == ASSUME NEW w \in Worker, IInv, TryNextTarget(w) PROVE IInv'
<1> USE DEF TryNextTarget
<1>1. ThreadsOK'
  BY DEF Pc
<1>2. WorkerControl'
  BY DEF WorkerControl, IdlePc, HoldPc
<1>3. MainControl'
  BY DEF MainControl, HoldPc
<1>4. BusyInFlight'
  BY DEF BusyInFlight, Busy, Source
<1>5. OneJobPerSource'
  BY DEF OneJobPerSource, Busy, Source
<1>6. ReadyUnwritten'
  BY DEF ReadyUnwritten
<1>7. HeldUnwritten'
  BY DEF HeldUnwritten
<1>8. (FilesOK /\ RunOK /\ CollectorOK /\ HistoryOK /\ UnfiredNowhere /\
      ParkedUnwritten /\ AwaitedUnwritten /\ OwnersDiffer /\ FiledAtMostOnce)'
  BY DEF Closed, UnfiredNowhere, ParkedUnwritten, AwaitedUnwritten, OwnersDiffer,
     FiledAtMostOnce
<1> QED
  BY <1>1, <1>2, <1>3, <1>4, <1>5, <1>6, <1>7, <1>8

\* Nothing is written yet.
LEMMA AnalyzeKeepsIInv == ASSUME NEW a \in Actor, IInv, Analyze(a) PROVE IInv'
<1> USE DEF Analyze
<1>1. ThreadsOK'
  BY DEF Pc
<1>2. WorkerControl'
  BY DEF WorkerControl, IdlePc, HoldPc
<1>3. MainControl'
  BY DEF MainControl, HoldPc
<1>4. BusyInFlight'
  BY DEF BusyInFlight, Busy, Source
<1>5. OneJobPerSource'
  BY DEF OneJobPerSource, Busy, Source
<1>6. ReadyUnwritten'
  BY DEF ReadyUnwritten
<1>7. HeldUnwritten'
  BY DEF HeldUnwritten
<1>8. (FilesOK /\ RunOK /\ CollectorOK /\ HistoryOK /\ UnfiredNowhere /\
      ParkedUnwritten /\ AwaitedUnwritten /\ OwnersDiffer /\ FiledAtMostOnce)'
  BY DEF Closed, UnfiredNowhere, ParkedUnwritten, AwaitedUnwritten, OwnersDiffer,
     FiledAtMostOnce
<1> QED
  BY <1>1, <1>2, <1>3, <1>4, <1>5, <1>6, <1>7, <1>8

\* Nothing is written yet.
LEMMA AnalyzeRaisesKeepsIInv == ASSUME NEW a \in Actor, IInv, AnalyzeRaises(a) PROVE IInv'
<1> USE DEF AnalyzeRaises
<1>1. ThreadsOK'
  BY DEF Pc
<1>2. WorkerControl'
  BY DEF WorkerControl, IdlePc, HoldPc
<1>3. MainControl'
  BY DEF MainControl, HoldPc
<1>4. BusyInFlight'
  BY DEF BusyInFlight, Busy, Source
<1>5. OneJobPerSource'
  BY DEF OneJobPerSource, Busy, Source
<1>6. ReadyUnwritten'
  BY DEF ReadyUnwritten
<1>7. HeldUnwritten'
  BY DEF HeldUnwritten
<1>8. (FilesOK /\ RunOK /\ CollectorOK /\ HistoryOK /\ UnfiredNowhere /\
      ParkedUnwritten /\ AwaitedUnwritten /\ OwnersDiffer /\ FiledAtMostOnce)'
  BY DEF Closed, UnfiredNowhere, ParkedUnwritten, AwaitedUnwritten, OwnersDiffer,
     FiledAtMostOnce
<1> QED
  BY <1>1, <1>2, <1>3, <1>4, <1>5, <1>6, <1>7, <1>8

\* A write phase that ends well.
LEMMA WriteKeepsIInv == ASSUME NEW a \in Actor, IInv, Write(a) PROVE IInv'
  BY WritePhaseKeepsIInv DEF Write

\* A write phase that raises.
LEMMA WriteRaisesKeepsIInv == ASSUME NEW a \in Actor, IInv, WriteRaises(a) PROVE IInv'
  BY WritePhaseKeepsIInv DEF WriteRaises

\* The worker's bookkeeping after a classification.
LEMMA SettleKeepsIInv == ASSUME NEW w \in Worker, IInv, Settle(w) PROVE IInv'
<1> USE DEF Settle, Conclude
<1>a. job[w].pair \in Pair
  BY JobFields DEF WorkerControl, IdlePc
<1>1. RunOK'
  BY <1>a
<1>2. ThreadsOK'
  BY DEF Pc
<1>3. HistoryOK'
  BY StampTypes DEF Closed
<1>4. WorkerControl'
  BY DEF WorkerControl, IdlePc, HoldPc
<1>5. MainControl'
  BY DEF MainControl, HoldPc
<1>6. BusyInFlight'
  BY DEF BusyInFlight, Busy, Source
<1>7. OneJobPerSource'
  BY DEF OneJobPerSource, Busy, Source
<1>8. ReadyUnwritten'
  BY DEF ReadyUnwritten
<1>9. HeldUnwritten'
  BY DEF HeldUnwritten
<1>10. (FilesOK /\ CollectorOK /\ UnfiredNowhere /\ ParkedUnwritten /\
      AwaitedUnwritten /\ OwnersDiffer /\ FiledAtMostOnce)'
  BY DEF UnfiredNowhere, ParkedUnwritten, AwaitedUnwritten, OwnersDiffer, FiledAtMostOnce
<1> QED
  BY <1>1, <1>2, <1>3, <1>4, <1>5, <1>6, <1>7, <1>8, <1>9, <1>10

\* The worker parks a measurement it never wrote.
LEMMA FailKeepsIInv == ASSUME NEW w \in Worker, IInv, Fail(w) PROVE IInv'
<1> USE DEF Fail, Conclude
<1> DEFINE e == [job |-> job[w], attempts |-> 1, cool |-> TRUE, age |-> 0]
<1>a. job[w] \in Job /\ job[w].pair \in Pair
  BY JobFields DEF WorkerControl, IdlePc
<1>b. e \in Entry /\ e # NoEntry
  <2>1. 1 \in 0..MaxAttempts
    OBVIOUS
  <2> QED
    BY <1>a, <2>1, NewEntry, EntryFields
<1>c. \A n \in Mid : pending'[n] = IF n = msm[w] THEN e ELSE pending[n]
  OBVIOUS
<1>d. msm[w] \in Mid => /\ writes[msm[w]] = 0 /\ ready[msm[w]] = NoEntry
                        /\ jobOf[msm[w]] # NoJob
                        /\ \A v \in Worker : /\ v # w => msm[v] # msm[w]
                                             /\ out[v] \in Mid => out[v] # msm[w]
  BY WorkersAlone DEF HeldUnwritten, UnfiredNowhere, OwnersDiffer
<1>e. pending' \in [Mid -> Entry \cup {NoEntry}]
  BY <1>b
<1> HIDE DEF e
<1>1. FilesOK'
  BY <1>e
<1>2. RunOK'
  BY <1>a
<1>3. ThreadsOK'
  BY DEF Pc
<1>4. HistoryOK'
  BY StampTypes DEF Closed
<1>5. WorkerControl'
  BY DEF WorkerControl, IdlePc, HoldPc
<1>6. MainControl'
  BY DEF MainControl, HoldPc
<1>7. BusyInFlight'
  BY DEF BusyInFlight, Busy, Source
<1>8. OneJobPerSource'
  BY DEF OneJobPerSource, Busy, Source
<1>9. UnfiredNowhere'
  BY <1>c, <1>d DEF UnfiredNowhere
<1>10. ParkedUnwritten'
  BY <1>c, <1>d DEF ParkedUnwritten
<1>11. ReadyUnwritten'
  BY DEF ReadyUnwritten
<1>12. AwaitedUnwritten'
  BY <1>c, <1>d DEF AwaitedUnwritten
<1>13. HeldUnwritten'
  BY <1>c, <1>d DEF HeldUnwritten
<1>14. (CollectorOK /\ OwnersDiffer /\ FiledAtMostOnce)'
  BY DEF OwnersDiffer, FiledAtMostOnce
<1> QED
  BY <1>1, <1>2, <1>3, <1>4, <1>5, <1>6, <1>7, <1>8, <1>9, <1>10, <1>11, <1>12,
     <1>13, <1>14

\* The worker does not park one it may have written.
LEMMA FailWritingKeepsIInv == ASSUME NEW w \in Worker, IInv, FailWriting(w) PROVE IInv'
<1> USE DEF FailWriting, Conclude
<1>a. job[w].pair \in Pair
  BY JobFields DEF WorkerControl, IdlePc
<1>1. RunOK'
  BY <1>a
<1>2. ThreadsOK'
  BY DEF Pc
<1>3. HistoryOK'
  BY StampTypes DEF Closed
<1>4. WorkerControl'
  BY DEF WorkerControl, IdlePc, HoldPc
<1>5. MainControl'
  BY DEF MainControl, HoldPc
<1>6. BusyInFlight'
  BY DEF BusyInFlight, Busy, Source
<1>7. OneJobPerSource'
  BY DEF OneJobPerSource, Busy, Source
<1>8. ReadyUnwritten'
  BY DEF ReadyUnwritten
<1>9. HeldUnwritten'
  BY DEF HeldUnwritten
<1>10. (FilesOK /\ CollectorOK /\ UnfiredNowhere /\ ParkedUnwritten /\
      AwaitedUnwritten /\ OwnersDiffer /\ FiledAtMostOnce)'
  BY DEF UnfiredNowhere, ParkedUnwritten, AwaitedUnwritten, OwnersDiffer, FiledAtMostOnce
<1> QED
  BY <1>1, <1>2, <1>3, <1>4, <1>5, <1>6, <1>7, <1>8, <1>9, <1>10

\* The worker's source is nobody else's.
LEMMA ReleaseKeepsIInv == ASSUME NEW w \in Worker, IInv, Release(w) PROVE IInv'
<1> USE DEF Release
<1>a. \A v \in Worker : v # w /\ Busy(v) =>
        /\ Source(job[v].pair) \in inFlight
        /\ Source(job[v].pair) # Source(job[w].pair)
  BY DEF BusyInFlight, OneJobPerSource, Busy
<1>1. RunOK'
  OBVIOUS
<1>2. ThreadsOK'
  BY DEF Pc
<1>3. WorkerControl'
  BY DEF WorkerControl, IdlePc, HoldPc
<1>4. MainControl'
  BY DEF MainControl, HoldPc
<1>5. BusyInFlight'
  BY <1>a DEF BusyInFlight, Busy
<1>6. OneJobPerSource'
  BY DEF OneJobPerSource, Busy, Source
<1>7. UnfiredNowhere'
  BY DEF UnfiredNowhere
<1>8. ReadyUnwritten'
  BY DEF ReadyUnwritten
<1>9. HeldUnwritten'
  BY DEF HeldUnwritten
<1>10. OwnersDiffer'
  BY DEF OwnersDiffer
<1>11. (FilesOK /\ CollectorOK /\ HistoryOK /\ ParkedUnwritten /\ AwaitedUnwritten
      /\ FiledAtMostOnce)'
  BY DEF Closed, ParkedUnwritten, AwaitedUnwritten, FiledAtMostOnce
<1> QED
  BY <1>1, <1>2, <1>3, <1>4, <1>5, <1>6, <1>7, <1>8, <1>9, <1>10, <1>11

\* The collector is done with an entry.
LEMMA CollectorStampsKeepsIInv == ASSUME IInv, CollectorStamps PROVE IInv'
<1> USE DEF CollectorStamps, NextReady
<1>1. ThreadsOK'
  BY DEF Pc
<1>2. CollectorOK'
  OBVIOUS
<1>3. HistoryOK'
  BY StampTypes DEF Closed
<1>4. WorkerControl'
  BY DEF WorkerControl, IdlePc, HoldPc
<1>5. MainControl'
  BY DEF MainControl, HoldPc
<1>6. BusyInFlight'
  BY DEF BusyInFlight, Busy, Source
<1>7. OneJobPerSource'
  BY DEF OneJobPerSource, Busy, Source
<1>8. UnfiredNowhere'
  BY DEF UnfiredNowhere
<1>9. ParkedUnwritten'
  BY DEF ParkedUnwritten
<1>10. ReadyUnwritten'
  BY DEF ReadyUnwritten
<1>11. HeldUnwritten'
  BY DEF HeldUnwritten
<1>12. OwnersDiffer'
  BY DEF OwnersDiffer
<1>13. (FilesOK /\ RunOK /\ AwaitedUnwritten /\ FiledAtMostOnce)'
  BY DEF AwaitedUnwritten, FiledAtMostOnce
<1> QED
  BY <1>1, <1>2, <1>3, <1>4, <1>5, <1>6, <1>7, <1>8, <1>9, <1>10, <1>11, <1>12,
     <1>13

\* The collector parks again an entry it never wrote.
LEMMA ReparkKeepsIInv == ASSUME IInv, Repark PROVE IInv'
<1> USE DEF Repark, NextReady
<1> DEFINE m == msm[Main]
           e == [ready[m] EXCEPT !.attempts = @ + 1, !.cool = TRUE]
<1>a. m \in Mid /\ ready[m] \in Entry /\ ready[m].attempts < MaxAttempts
  BY DEF MainControl, HoldPc
<1>b. e \in Entry /\ e # NoEntry
  BY <1>a, ReparkedEntry, EntryFields
<1>c. writes[m] = 0 /\ jobOf[m] # NoJob
  BY <1>a, EntryFields DEF ReadyUnwritten, UnfiredNowhere
<1>d. \A w \in Worker : msm[w] = NoMid /\ out[w] \notin Mid
  BY CollectorAlone
<1>e. /\ pending' = [pending EXCEPT ![m] = e]
      /\ ready' = [ready EXCEPT ![m] = NoEntry]
      /\ msm' = [msm EXCEPT ![Main] = NoMid]
  OBVIOUS
<1> HIDE DEF e
<1>1. FilesOK'
  BY <1>a, <1>b, <1>e
<1>2. ThreadsOK'
  BY DEF Pc
<1>3. CollectorOK'
  OBVIOUS
<1>4. WorkerControl'
  BY DEF WorkerControl, IdlePc, HoldPc
<1>5. MainControl'
  BY DEF MainControl, HoldPc
<1>6. BusyInFlight'
  BY DEF BusyInFlight, Busy, Source
<1>7. OneJobPerSource'
  BY DEF OneJobPerSource, Busy, Source
<1>8. UnfiredNowhere'
  BY <1>a, <1>c, <1>d, <1>e DEF UnfiredNowhere
<1>9. ParkedUnwritten'
  BY <1>a, <1>c, <1>e DEF ParkedUnwritten
<1>10. ReadyUnwritten'
  BY <1>a, <1>e DEF ReadyUnwritten
<1>11. AwaitedUnwritten'
  BY <1>d DEF AwaitedUnwritten
<1>12. HeldUnwritten'
  BY <1>d DEF HeldUnwritten
<1>13. OwnersDiffer'
  BY DEF OwnersDiffer
<1>14. (RunOK /\ HistoryOK /\ FiledAtMostOnce)'
  BY DEF Closed, FiledAtMostOnce
<1> QED
  BY <1>1, <1>2, <1>3, <1>4, <1>5, <1>6, <1>7, <1>8, <1>9, <1>10, <1>11, <1>12,
     <1>13, <1>14

\* Only the files survive.
LEMMA CrashKeepsIInv == ASSUME IInv, Crash PROVE IInv'
<1> USE DEF Crash
<1>1. RunOK'
  OBVIOUS
<1>2. ThreadsOK'
  BY DEF Pc
<1>3. CollectorOK'
  OBVIOUS
<1>4. HistoryOK'
  BY DEF Closed
<1>5. WorkerControl'
  BY DEF WorkerControl, IdlePc, HoldPc
<1>6. MainControl'
  BY DEF MainControl, HoldPc
<1>7. BusyInFlight'
  BY DEF BusyInFlight, Busy, Source
<1>8. OneJobPerSource'
  BY DEF OneJobPerSource, Busy, Source
<1>9. UnfiredNowhere'
  BY DEF UnfiredNowhere
<1>10. ParkedUnwritten'
  BY DEF ParkedUnwritten
<1>11. ReadyUnwritten'
  BY DEF ReadyUnwritten
<1>12. AwaitedUnwritten'
  BY DEF AwaitedUnwritten
<1>13. HeldUnwritten'
  BY DEF HeldUnwritten
<1>14. OwnersDiffer'
  BY DEF OwnersDiffer
<1>15. (FilesOK /\ FiledAtMostOnce)'
  BY DEF FiledAtMostOnce
<1> QED
  BY <1>1, <1>2, <1>3, <1>4, <1>5, <1>6, <1>7, <1>8, <1>9, <1>10, <1>11, <1>12,
     <1>13, <1>14, <1>15
-----------------------------------------------------------------------------
\* Every step keeps the invariant.
LEMMA StepKeepsIInv == IInv /\ [Next]_vars => IInv'
<1> SUFFICES ASSUME IInv, [Next]_vars PROVE IInv'
  OBVIOUS
<1>1. CASE StartBatch
  BY <1>1, StartBatchKeepsIInv
<1>2. CASE Deadline
  BY <1>2, DeadlineKeepsIInv
<1>3. CASE Crash
  BY <1>3, CrashKeepsIInv
<1>4. ASSUME NEW a \in Actor, Classify(a) PROVE IInv'
  BY <1>4, AnalyzeKeepsIInv, AnalyzeRaisesKeepsIInv, WriteKeepsIInv, WriteRaisesKeepsIInv
     DEF Classify
<1>5. CASE MainStep
  <2>1. CASE \E m \in Mid : TakeReady(m)
    BY <2>1, TakeReadyKeepsIInv
  <2>2. CASE Classify(Main)
    BY <2>2, <1>4
  <2> QED
    BY <1>5, <2>1, <2>2, CollectReadyKeepsIInv, StampLostKeepsIInv, CollectDoneKeepsIInv,
       JoinWorkersKeepsIInv, CollectorStampsKeepsIInv, ReparkKeepsIInv DEF MainStep
<1>6. ASSUME NEW w \in Worker, WorkerStep(w) PROVE IInv'
  <2>1. CASE LoopHead(w) \/ PickRetest(w) \/ PickFresh(w) \/ PickNothing(w) \/ PickRaises(w)
    BY <2>1, LoopHeadKeepsIInv, PickRetestKeepsIInv, PickFreshKeepsIInv,
       PickNothingKeepsIInv, PickRaisesKeepsIInv
  <2>2. CASE FireRefused(w) \/ Create(w) \/ WaitPending(w) \/ WaitReturns(w) \/ WaitRaises(w)
    BY <2>2, FireRefusedKeepsIInv, CreateKeepsIInv, WaitPendingKeepsIInv,
       WaitReturnsKeepsIInv, WaitRaisesKeepsIInv
  <2>3. CASE TryNextTarget(w) \/ Classify(w)
    BY <2>3, TryNextTargetKeepsIInv, <1>4
  <2>4. CASE Settle(w) \/ Fail(w) \/ FailWriting(w) \/ Release(w)
    BY <2>4, SettleKeepsIInv, FailKeepsIInv, FailWritingKeepsIInv, ReleaseKeepsIInv
  <2> QED
    BY <1>6, <2>1, <2>2, <2>3, <2>4 DEF WorkerStep
<1>7. CASE UNCHANGED vars
  <2> USE <1>7 DEF vars
  <2>1. TypeOK' /\ Control'
    BY DEF Pc, Closed, WorkerControl, MainControl, IdlePc, HoldPc
  <2>2. Sources'
    BY DEF BusyInFlight, OneJobPerSource, Busy
  <2>3. Ownership'
    BY DEF UnfiredNowhere, ParkedUnwritten, ReadyUnwritten, AwaitedUnwritten, HeldUnwritten,
           OwnersDiffer, FiledAtMostOnce
  <2> QED
    BY <2>1, <2>2, <2>3
<1> QED
  BY <1>1, <1>2, <1>3, <1>5, <1>6, <1>7 DEF Next

\* The invariant holds in every reachable state of run_batch, its collector and
\* the nights around it.
THEOREM InductiveInvariant == Spec => []IInv
  BY InitIInv, StepKeepsIInv, PTL DEF Spec

\* Every variable has its type, in particular a parked entry never counts more
\* than MAX_CLASSIFY_ATTEMPTS failures and no corridor is fired at more than
\* _MAX_TARGET_IP_ATTEMPTS addresses.
THEOREM TypeCorrect == Spec => []TypeOK
<1>1. IInv => TypeOK
  OBVIOUS
<1> QED
  BY <1>1, InductiveInvariant, PTL

\* run_batch never lets two workers test from one source network at a time.
THEOREM SourcesAreExclusive == Spec => []OneJobPerSource
<1>1. IInv => OneJobPerSource
  OBVIOUS
<1> QED
  BY <1>1, InductiveInvariant, PTL

\* No measurement is written up twice, whatever fails and whenever the process
\* dies: classify_corridor and _classify_collected park one again only if its
\* write phase never began.
THEOREM MeasurementsFiledOnce == Spec => []FiledAtMostOnce
<1>1. IInv => FiledAtMostOnce
  OBVIOUS
<1> QED
  BY <1>1, InductiveInvariant, PTL
=============================================================================
