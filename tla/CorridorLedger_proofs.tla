----------------------- MODULE CorridorLedger_proofs -----------------------
(***************************************************************************)
(* What the corridor batch promises about its measurements, its corridors  *)
(* and its retests, proved on top of the inductive invariant of            *)
(* CorridorBatch_proofs: no measurement is mislaid, the pipeline           *)
(* implements MeasurementLedger, a fresh corridor is picked once in a run, *)
(* and a scheduled retest is out once and counted once.                    *)
(*                                                                         *)
(* Most actions leave alone what a measurement's life depends on; they are *)
(* dealt with together (Quiet).  The others have a lemma each.             *)
(***************************************************************************)
EXTENDS CorridorBatch_proofs, FiniteSetTheorems

USE BatchAssumption, MarkerAssumption
USE DEF IInv, TypeOK, FilesOK, RunOK, ThreadsOK, CollectorOK, HistoryOK, Actor,
        Control, Sources, Ownership, files, runVars, threadVars, collectVars, history
-----------------------------------------------------------------------------
(***************************************************************************)
(* No measurement is mislaid.                                              *)
(***************************************************************************)
\* What the life of a measurement depends on.
lifeVars == <<jobOf, writes, closed, pending, ready, out, msm>>

\* A step that touches none of it, and starts or ends no write phase.
Quiet ==
    /\ UNCHANGED lifeVars
    /\ \A a \in Actor : pc'[a] \in {"settle", "failedWriting", "release"} =>
         pc'[a] = pc[a] \/ (pc'[a] = "release" /\ pc[a] \in {"settle", "failedWriting"})

LEMMA QuietKeeps == ASSUME IInv, Kept, Quiet PROVE Kept'
<1> USE DEF Quiet, lifeVars
<1>1. WrittenUp'
  BY DEF Kept, WrittenUp
<1>2. NothingMislaid'
  BY DEF Kept, NothingMislaid, InHand, Parked
<1> QED
  BY <1>1, <1>2 DEF Kept

LEMMA QuietMain ==
    ASSUME IInv, Deadline \/ StampLost \/ CollectDone \/ JoinWorkers
    PROVE  Quiet
  BY DEF Quiet, lifeVars, Deadline, StampLost, CollectDone, JoinWorkers

LEMMA QuietActor ==
    ASSUME IInv, NEW a \in Actor, Analyze(a) \/ AnalyzeRaises(a)
    PROVE  Quiet
  BY DEF Quiet, lifeVars, Analyze, AnalyzeRaises

LEMMA QuietWorker ==
    ASSUME IInv, NEW w \in Worker,
           \/ LoopHead(w) \/ PickRetest(w) \/ PickFresh(w) \/ PickNothing(w) \/ PickRaises(w)
           \/ FireRefused(w) \/ TryNextTarget(w) \/ Settle(w) \/ FailWriting(w)
    PROVE  Quiet
<1>1. CASE LoopHead(w) \/ PickRaises(w) \/ FireRefused(w) \/ TryNextTarget(w)
  BY <1>1 DEF Quiet, lifeVars, LoopHead, PickRaises, FireRefused, TryNextTarget
<1>2. CASE PickRetest(w) \/ PickFresh(w) \/ PickNothing(w)
  BY <1>2 DEF Quiet, lifeVars, PickRetest, PickFresh, PickNothing, Assign
<1>3. CASE Settle(w) \/ FailWriting(w)
  BY <1>3 DEF Quiet, lifeVars, Settle, FailWriting, Conclude
<1> QED
  BY <1>1, <1>2, <1>3

LEMMA InitKept == Init => Kept
  BY DEF Init, Kept, WrittenUp, NothingMislaid

\* The night's ageing drops nothing.
LEMMA StartBatchKeeps == ASSUME IInv, Kept, StartBatch PROVE Kept'
<1> USE DEF StartBatch
<1>1. \A m \in Mid : pending'[m] = NoEntry <=> pending[m] = NoEntry
  BY AgedEntry
<1>2. \A w \in Worker : pc'[w] = "off"
  BY DEF WorkerControl
<1>3. WrittenUp'
  BY <1>2 DEF Kept, WrittenUp
<1>4. NothingMislaid'
  BY <1>1 DEF Kept, NothingMislaid, InHand, Parked
<1> QED
  BY <1>3, <1>4 DEF Kept

\* What leaves the parking file is handed out or dropped.
LEMMA CollectReadyKeeps == ASSUME IInv, Kept, CollectReady PROVE Kept'
<1> USE DEF CollectReady
<1>a. PICK verdict \in [Parked -> {"drop", "keep", "ready"}] :
        /\ ready' = [m \in Mid |-> IF m \in {n \in Parked : verdict[n] = "ready"}
                                   THEN pending[m] ELSE NoEntry]
        /\ pending' = [m \in Mid |-> IF m \in {n \in Parked : verdict[n] = "keep"}
                                     THEN pending[m] ELSE NoEntry]
        /\ closed' = [m \in Mid |-> IF m \in {n \in Parked : verdict[n] = "drop"}
                                    THEN "dropped" ELSE closed[m]]
  OBVIOUS
<1>b. /\ \A m \in Mid : ready[m] = NoEntry
      /\ \A w \in Worker : pc[w] = "off"
  BY CollectorAlone DEF MainControl
<1>1. WrittenUp'
  BY <1>b DEF Kept, WrittenUp
<1>2. ASSUME NEW m \in Mid, jobOf'[m] # NoJob
      PROVE  InHand(m)' \/ m \in Parked' \/ writes'[m] > 0 \/ closed'[m] # "open"
  <2>1. CASE m \in Parked
    BY <1>a, <2>1 DEF Parked, InHand
  <2>2. CASE m \notin Parked
    BY <1>a, <1>b, <1>2, <2>2 DEF Kept, NothingMislaid, InHand
  <2> QED
    BY <2>1, <2>2
<1> QED
  BY <1>1, <1>2 DEF Kept, NothingMislaid

LEMMA TakeReadyKeeps == ASSUME NEW m \in Mid, IInv, Kept, TakeReady(m) PROVE Kept'
<1> USE DEF TakeReady
<1>1. WrittenUp'
  BY DEF Kept, WrittenUp
<1>2. NothingMislaid'
  BY DEF Kept, NothingMislaid, InHand, Parked, MainControl, HoldPc
<1> QED
  BY <1>1, <1>2 DEF Kept

LEMMA CreateKeeps == ASSUME NEW w \in Worker, IInv, Kept, Create(w) PROVE Kept'
<1> USE DEF Create
<1>a. PICK m \in Mid : /\ jobOf' = [jobOf EXCEPT ![m] = job[w]]
                       /\ out' = [out EXCEPT ![w] = m]
  OBVIOUS
<1>b. out[w] \notin Mid
  BY DEF WorkerControl
<1>1. WrittenUp'
  BY DEF Kept, WrittenUp
<1>2. NothingMislaid'
  BY <1>a, <1>b DEF Kept, NothingMislaid, InHand, Parked
<1> QED
  BY <1>1, <1>2 DEF Kept

LEMMA WaitPendingKeeps == ASSUME NEW w \in Worker, IInv, Kept, WaitPending(w) PROVE Kept'
<1> USE DEF WaitPending, Supersede
<1> DEFINE e == [job |-> job[w], attempts |-> 0, cool |-> FALSE, age |-> 0]
<1>a. out[w] \in Mid
  BY DEF WorkerControl
<1>b. e # NoEntry
  <2>1. job[w] \in Job /\ 0 \in 0..MaxAttempts
    BY DEF WorkerControl, IdlePc
  <2> QED
    BY <2>1, NewEntry, EntryFields
<1>c. pending' = [pending EXCEPT ![out[w]] = e]
  OBVIOUS
<1> HIDE DEF e
<1>1. WrittenUp'
  BY <1>a, <1>b, <1>c DEF Kept, WrittenUp
<1>2. ASSUME NEW m \in Mid, jobOf'[m] # NoJob
      PROVE  InHand(m)' \/ m \in Parked' \/ writes'[m] > 0 \/ closed'[m] # "open"
  <2>1. CASE m = out[w] \/ m = msm[w]
    BY <1>a, <1>b, <1>c, <2>1 DEF Parked
  <2>2. CASE m # out[w] /\ m # msm[w]
    BY <1>a, <1>c, <1>2, <2>2 DEF Kept, NothingMislaid, InHand, Parked
  <2> QED
    BY <2>1, <2>2
<1> QED
  BY <1>1, <1>2 DEF Kept, NothingMislaid

LEMMA WaitReturnsKeeps == ASSUME NEW w \in Worker, IInv, Kept, WaitReturns(w) PROVE Kept'
<1> USE DEF WaitReturns, Supersede
<1>1. WrittenUp'
  BY DEF Kept, WrittenUp
<1>2. NothingMislaid'
  BY DEF Kept, NothingMislaid, InHand, Parked
<1> QED
  BY <1>1, <1>2 DEF Kept

LEMMA WaitRaisesKeeps == ASSUME NEW w \in Worker, IInv, Kept, WaitRaises(w) PROVE Kept'
<1> USE DEF WaitRaises
<1>1. WrittenUp'
  BY DEF Kept, WrittenUp
<1>2. NothingMislaid'
  BY DEF Kept, NothingMislaid, InHand, Parked, WorkerControl
<1> QED
  BY <1>1, <1>2 DEF Kept

\* A write phase begins.
LEMMA WriteKeeps ==
    ASSUME NEW a \in Actor, IInv, Kept, Write(a) \/ WriteRaises(a)
    PROVE  Kept'
<1>a. /\ writes' = [writes EXCEPT ![msm[a]] = @ + 1]
      /\ pc' \in {[pc EXCEPT ![a] = "settle"], [pc EXCEPT ![a] = "failedWriting"]}
      /\ UNCHANGED <<jobOf, closed, pending, ready, out, msm>>
  BY DEF Write, WriteRaises
<1>b. \A m \in Mid : writes[m] > 0 \/ m = msm[a] => writes'[m] > 0
  BY <1>a
<1>1. WrittenUp'
  BY <1>a, <1>b DEF Kept, WrittenUp
<1>2. NothingMislaid'
  BY <1>a, <1>b DEF Kept, NothingMislaid, InHand, Parked
<1> QED
  BY <1>1, <1>2 DEF Kept

\* The measurement a worker failed on is parked.
LEMMA FailKeeps == ASSUME NEW w \in Worker, IInv, Kept, Fail(w) PROVE Kept'
<1> USE DEF Fail, Conclude
<1> DEFINE e == [job |-> job[w], attempts |-> 1, cool |-> TRUE, age |-> 0]
<1>a. e # NoEntry
  <2>1. job[w] \in Job /\ 1 \in 0..MaxAttempts
    BY DEF WorkerControl, IdlePc
  <2> QED
    BY <2>1, NewEntry, EntryFields
<1>b. \A m \in Mid : pending'[m] = IF m = msm[w] THEN e ELSE pending[m]
  OBVIOUS
<1> HIDE DEF e
<1>1. WrittenUp'
  BY <1>a, <1>b DEF Kept, WrittenUp
<1>2. NothingMislaid'
  BY <1>a, <1>b DEF Kept, NothingMislaid, InHand, Parked
<1> QED
  BY <1>1, <1>2 DEF Kept

\* What a worker lets go of is written up or parked.
LEMMA ReleaseKeeps == ASSUME NEW w \in Worker, IInv, Kept, Release(w) PROVE Kept'
<1> USE DEF Release
<1>1. WrittenUp'
  BY DEF Kept, WrittenUp
<1>2. ASSUME NEW m \in Mid, jobOf'[m] # NoJob
      PROVE  InHand(m)' \/ m \in Parked' \/ writes'[m] > 0 \/ closed'[m] # "open"
  <2>1. CASE m = msm[w]
    BY <2>1 DEF Kept, WrittenUp, Parked
  <2>2. CASE m # msm[w]
    BY <1>2, <2>2 DEF Kept, NothingMislaid, InHand, Parked
  <2> QED
    BY <2>1, <2>2
<1> QED
  BY <1>1, <1>2 DEF Kept, NothingMislaid

LEMMA CollectorStampsKeeps == ASSUME IInv, Kept, CollectorStamps PROVE Kept'
<1> USE DEF CollectorStamps, NextReady
<1>1. WrittenUp'
  BY DEF Kept, WrittenUp
<1>2. ASSUME NEW m \in Mid, jobOf'[m] # NoJob
      PROVE  InHand(m)' \/ m \in Parked' \/ writes'[m] > 0 \/ closed'[m] # "open"
  <2>1. CASE m = msm[Main]
    BY <2>1 DEF Kept, WrittenUp
  <2>2. CASE m # msm[Main]
    BY <1>2, <2>2 DEF Kept, NothingMislaid, InHand, Parked
  <2> QED
    BY <2>1, <2>2
<1> QED
  BY <1>1, <1>2 DEF Kept, NothingMislaid

LEMMA ReparkKeeps == ASSUME IInv, Kept, Repark PROVE Kept'
<1> USE DEF Repark, NextReady
<1> DEFINE m == msm[Main]
           e == [ready[m] EXCEPT !.attempts = @ + 1, !.cool = TRUE]
<1>a. m \in Mid /\ ready[m] \in Entry /\ ready[m].attempts < MaxAttempts
  BY DEF MainControl, HoldPc
<1>b. e # NoEntry
  BY <1>a, ReparkedEntry, EntryFields
<1>c. pending' = [pending EXCEPT ![m] = e]
  OBVIOUS
<1> HIDE DEF e
<1>1. WrittenUp'
  BY <1>a, <1>b, <1>c DEF Kept, WrittenUp
<1>2. ASSUME NEW n \in Mid, jobOf'[n] # NoJob
      PROVE  InHand(n)' \/ n \in Parked' \/ writes'[n] > 0 \/ closed'[n] # "open"
  <2>1. CASE n = m
    BY <1>a, <1>b, <1>c, <2>1 DEF Parked
  <2>2. CASE n # m
    BY <1>a, <1>c, <1>2, <2>2 DEF Kept, NothingMislaid, InHand, Parked
  <2> QED
    BY <2>1, <2>2
<1> QED
  BY <1>1, <1>2 DEF Kept, NothingMislaid

\* Whatever the process held when it died counts as crashed.
LEMMA CrashKeeps == ASSUME IInv, Kept, Crash PROVE Kept'
<1> USE DEF Crash
<1>1. WrittenUp'
  BY DEF WrittenUp
<1>2. ASSUME NEW m \in Mid, jobOf'[m] # NoJob
      PROVE  m \in Parked' \/ writes'[m] > 0 \/ closed'[m] # "open"
  <2>1. writes[m] \in Nat
    OBVIOUS
  <2> QED
    BY <1>2, <2>1 DEF Kept, NothingMislaid, Parked
<1> QED
  BY <1>1, <1>2 DEF Kept, NothingMislaid
-----------------------------------------------------------------------------
(***************************************************************************)
(* Every step is one of these: what the lemmas of this module split on.    *)
(***************************************************************************)
QuietMainStep == Deadline \/ StampLost \/ CollectDone \/ JoinWorkers
QuietWorkerStep(w) ==
    \/ LoopHead(w) \/ PickRetest(w) \/ PickFresh(w) \/ PickNothing(w) \/ PickRaises(w)
    \/ FireRefused(w) \/ TryNextTarget(w) \/ Settle(w) \/ FailWriting(w)
MovingMainStep ==
    \/ StartBatch \/ CollectReady \/ CollectorStamps \/ Repark \/ Crash
    \/ \E m \in Mid : TakeReady(m)
MovingWorkerStep(w) ==
    Create(w) \/ WaitPending(w) \/ WaitReturns(w) \/ WaitRaises(w) \/ Fail(w) \/ Release(w)

LEMMA StepCases ==
    ASSUME [Next]_vars
    PROVE  \/ QuietMainStep \/ MovingMainStep
           \/ \E w \in Worker : QuietWorkerStep(w) \/ MovingWorkerStep(w)
           \/ \E a \in Actor : Analyze(a) \/ AnalyzeRaises(a)
           \/ \E a \in Actor : Write(a) \/ WriteRaises(a)
           \/ UNCHANGED vars
<1>1. CASE MainStep
  BY <1>1 DEF MainStep, Classify, QuietMainStep, MovingMainStep
<1>2. ASSUME NEW w \in Worker, WorkerStep(w)
      PROVE  \/ QuietWorkerStep(w) \/ MovingWorkerStep(w)
             \/ Analyze(w) \/ AnalyzeRaises(w) \/ Write(w) \/ WriteRaises(w)
  BY <1>2 DEF WorkerStep, Classify, QuietWorkerStep, MovingWorkerStep
<1>3. CASE StartBatch \/ Deadline \/ Crash
  BY <1>3 DEF QuietMainStep, MovingMainStep
<1> QED
  BY <1>1, <1>2, <1>3 DEF Next

\* The steps that are quiet.
LEMMA QuietSteps ==
    ASSUME IInv,
           \/ QuietMainStep
           \/ \E w \in Worker : QuietWorkerStep(w)
           \/ \E a \in Actor : Analyze(a) \/ AnalyzeRaises(a)
           \/ UNCHANGED vars
    PROVE  Quiet
<1>1. CASE UNCHANGED vars
  BY <1>1 DEF vars, Quiet, lifeVars
<1> QED
  BY <1>1, QuietMain, QuietActor, QuietWorker DEF QuietMainStep, QuietWorkerStep

LEMMA StepKeeps == IInv /\ Kept /\ [Next]_vars => Kept'
<1> SUFFICES ASSUME IInv, Kept, [Next]_vars PROVE Kept'
  OBVIOUS
<1>1. CASE Quiet
  BY <1>1, QuietKeeps
<1>2. CASE MovingMainStep
  BY <1>2, StartBatchKeeps, CollectReadyKeeps, CollectorStampsKeeps, ReparkKeeps, CrashKeeps,
     TakeReadyKeeps DEF MovingMainStep
<1>3. CASE \E w \in Worker : MovingWorkerStep(w)
  BY <1>3, CreateKeeps, WaitPendingKeeps, WaitReturnsKeeps, WaitRaisesKeeps, FailKeeps,
     ReleaseKeeps DEF MovingWorkerStep
<1>4. CASE \E a \in Actor : Write(a) \/ WriteRaises(a)
  BY <1>4, WriteKeeps
<1> QED
  BY <1>1, <1>2, <1>3, <1>4, StepCases, QuietSteps

LEMMA AlwaysKept == Spec => []Kept
  BY InitKept, StepKeeps, InductiveInvariant, PTL DEF Spec

\* A measurement classify_corridor or _classify_collected has learned the id of
\* never vanishes: it is in a thread's hands, parked, written up, or was given
\* up at one of the places the code has for that.
THEOREM NothingIsMislaid == Spec => []NothingMislaid
<1>1. Kept => NothingMislaid
  BY DEF Kept
<1> QED
  BY <1>1, AlwaysKept, PTL
-----------------------------------------------------------------------------
(***************************************************************************)
(* The pipeline implements MeasurementLedger.  What one step may do to one *)
(* measurement, then the moves of its life.                                *)
(***************************************************************************)
\* A measurement is fired once, and is then in its worker's hands.
LEMMA FiredOnce ==
    ASSUME IInv, [Next]_vars, NEW m \in Mid
    PROVE  /\ jobOf[m] # NoJob => jobOf'[m] = jobOf[m]
           /\ jobOf[m] = NoJob /\ jobOf'[m] # NoJob =>
                InHand(m)' /\ writes'[m] = 0 /\ pending'[m] = NoEntry
<1>1. ASSUME NEW w \in Worker, Create(w)
      PROVE  /\ jobOf[m] # NoJob => jobOf'[m] = jobOf[m]
             /\ jobOf[m] = NoJob /\ jobOf'[m] # NoJob =>
                  InHand(m)' /\ writes'[m] = 0 /\ pending'[m] = NoEntry
  <2>1. PICK n \in Mid : /\ jobOf[n] = NoJob
                         /\ jobOf' = [jobOf EXCEPT ![n] = job[w]]
                         /\ out' = [out EXCEPT ![w] = n]
    BY <1>1 DEF Create
  <2>2. CASE n = m
    <3>1. out'[w] = m
      BY <2>1, <2>2
    <3>2. InHand(m)'
      BY <3>1 DEF InHand
    <3>3. writes'[m] = 0 /\ pending'[m] = NoEntry
      BY <1>1, <2>1, <2>2 DEF UnfiredNowhere, Create
    <3> QED
      BY <2>1, <2>2, <3>2, <3>3
  <2>3. CASE n # m
    BY <2>1, <2>3
  <2> QED
    BY <2>2, <2>3
<1>2. CASE Quiet
  BY <1>2 DEF Quiet, lifeVars
<1>3. CASE MovingMainStep
  BY <1>3 DEF MovingMainStep, StartBatch, CollectReady, CollectorStamps, NextReady, Repark,
     Crash, TakeReady
<1>4. ASSUME NEW w \in Worker, MovingWorkerStep(w), ~Create(w) PROVE jobOf' = jobOf
  BY <1>4 DEF MovingWorkerStep, WaitPending, WaitReturns, WaitRaises, Fail, Conclude, Release
<1>5. CASE \E a \in Actor : Write(a) \/ WriteRaises(a)
  BY <1>5 DEF Write, WriteRaises
<1> QED
  BY <1>1, <1>2, <1>3, <1>4, <1>5, StepCases, QuietSteps

\* A write phase is never undone, and none starts on what is parked.
LEMMA WrittenStays ==
    ASSUME IInv, [Next]_vars, NEW m \in Mid
    PROVE  /\ writes[m] > 0 => writes'[m] > 0
           /\ pending[m] # NoEntry => writes'[m] = 0
<1>1. ASSUME NEW a \in Actor, Write(a) \/ WriteRaises(a)
      PROVE  /\ writes[m] > 0 => writes'[m] > 0
             /\ pending[m] # NoEntry => writes'[m] = 0
  <2>1. writes' = [writes EXCEPT ![msm[a]] = @ + 1] /\ pc[a] = "write"
    BY <1>1 DEF Write, WriteRaises
  <2>2. msm[a] \in Mid /\ pending[msm[a]] = NoEntry
    BY <2>1, WriterOwns
  <2> QED
    BY <2>1, <2>2 DEF ParkedUnwritten
<1>2. CASE UNCHANGED writes
  BY <1>2 DEF ParkedUnwritten
<1>3. CASE Quiet
  BY <1>2, <1>3 DEF Quiet, lifeVars
<1>4. CASE MovingMainStep
  BY <1>2, <1>4 DEF MovingMainStep, StartBatch, CollectReady, CollectorStamps, NextReady,
     Repark, Crash, TakeReady
<1>5. CASE \E w \in Worker : MovingWorkerStep(w)
  BY <1>2, <1>5 DEF MovingWorkerStep, Create, WaitPending, WaitReturns, WaitRaises, Fail,
     Conclude, Release
<1> QED
  BY <1>1, <1>3, <1>4, <1>5, StepCases, QuietSteps

\* A fired measurement that nobody holds, that is neither parked nor written,
\* stays that way.
Gone(m) == ~InHand(m) /\ pending[m] = NoEntry /\ writes[m] = 0

LEMMA GoneStaysGone ==
    ASSUME IInv, [Next]_vars, NEW m \in Mid, jobOf[m] # NoJob, Gone(m)
    PROVE  Gone(m)'
<1> USE DEF Gone, InHand
<1>1. CASE Quiet
  BY <1>1 DEF Quiet, lifeVars
<1>2. CASE MovingMainStep
  <2>1. CASE StartBatch
    BY <2>1, AgedEntry DEF StartBatch
  <2>2. CASE CollectReady
    BY <2>2 DEF CollectReady, Parked
  <2>3. CASE CollectorStamps \/ Repark
    BY <2>3 DEF CollectorStamps, Repark, NextReady, MainControl, HoldPc
  <2>4. CASE Crash
    BY <2>4 DEF Crash
  <2>5. ASSUME NEW n \in Mid, TakeReady(n) PROVE Gone(m)'
    BY <2>5 DEF TakeReady
  <2> QED
    BY <1>2, <2>1, <2>2, <2>3, <2>4, <2>5 DEF MovingMainStep
<1>3. ASSUME NEW w \in Worker, MovingWorkerStep(w) PROVE Gone(m)'
  <2>1. CASE Create(w)
    BY <2>1 DEF Create
  <2>2. CASE WaitPending(w) \/ WaitReturns(w) \/ WaitRaises(w)
    BY <2>2 DEF WaitPending, WaitReturns, WaitRaises, WorkerControl
  <2>3. CASE Fail(w) \/ Release(w)
    BY <2>3 DEF Fail, Conclude, Release
  <2> QED
    BY <1>3, <2>1, <2>2, <2>3 DEF MovingWorkerStep
<1>4. ASSUME NEW a \in Actor, Write(a) \/ WriteRaises(a) PROVE Gone(m)'
  BY <1>4 DEF Write, WriteRaises
<1> QED
  BY <1>1, <1>2, <1>3, <1>4, StepCases, QuietSteps

\* The life of a measurement, read off the state.
LifeFacts ==
    \A m \in Mid :
        /\ Life(m) \in Ledger!Status
        /\ Life(m) = "unfired" <=> jobOf[m] = NoJob
        /\ Life(m) = "parked" <=> pending[m] # NoEntry
        /\ Life(m) = "written" <=> writes[m] > 0
        /\ Life(m) = "lost" <=> jobOf[m] # NoJob /\ Gone(m)

LEMMA LifeIs == IInv /\ Kept => LifeFacts
<1> SUFFICES ASSUME IInv, Kept, NEW m \in Mid
             PROVE  /\ Life(m) \in Ledger!Status
                    /\ Life(m) = "unfired" <=> jobOf[m] = NoJob
                    /\ Life(m) = "parked" <=> pending[m] # NoEntry
                    /\ Life(m) = "written" <=> writes[m] > 0
                    /\ Life(m) = "lost" <=> jobOf[m] # NoJob /\ Gone(m)
  BY DEF LifeFacts
<1>1. writes[m] \in Nat
  OBVIOUS
<1>2. pending[m] # NoEntry => writes[m] = 0 /\ jobOf[m] # NoJob
  BY DEF ParkedUnwritten, UnfiredNowhere
<1>3. writes[m] > 0 => jobOf[m] # NoJob
  BY DEF UnfiredNowhere
<1>4. jobOf[m] # NoJob => InHand(m) \/ m \in Parked \/ writes[m] > 0 \/ closed[m] # "open"
  BY DEF Kept, NothingMislaid
<1> QED
  BY <1>1, <1>2, <1>3, <1>4 DEF Life, Ledger!Status, Parked, Gone

\* Every step moves a measurement's life as the ledger allows, or not at all.
LEMMA LifeMoves ==
    ASSUME IInv, LifeFacts, LifeFacts', [Next]_vars, NEW m \in Mid
    PROVE  Life(m)' # Life(m) => <<Life(m), Life(m)'>> \in Ledger!Moves
<1> USE DEF LifeFacts, Ledger!Status, Ledger!Moves
<1>1. CASE Life(m) = "unfired"
  BY <1>1, FiredOnce DEF Gone
<1>2. CASE Life(m) = "parked"
  BY <1>2, FiredOnce, WrittenStays
<1>3. CASE Life(m) = "written"
  BY <1>3, WrittenStays
<1>4. CASE Life(m) = "held"
  BY <1>4, FiredOnce
<1>5. CASE Life(m) = "lost"
  BY <1>5, FiredOnce, GoneStaysGone
<1> QED
  BY <1>1, <1>2, <1>3, <1>4, <1>5

LEMMA LedgerStep ==
    IInv /\ LifeFacts /\ LifeFacts' /\ [Next]_vars => [Ledger!Next]_[m \in Mid |-> Life(m)]
<1> SUFFICES ASSUME IInv, LifeFacts, LifeFacts', [Next]_vars
             PROVE  Ledger!Next
  OBVIOUS
<1>1. \A m \in Mid : Life(m)' \in Ledger!Status
  BY DEF LifeFacts
<1>2. \A m \in Mid : Life(m)' # Life(m) => <<Life(m), Life(m)'>> \in Ledger!Moves
  BY LifeMoves
<1> QED
  BY <1>1, <1>2 DEF Ledger!Next

\* A measurement is fired once, is then held or parked, and ends written up or
\* lost for good: run_batch, its collector, the parking file, the nights and the
\* deaths of the process together implement MeasurementLedger.
THEOREM LedgerIsKept == Spec => LedgerKept
<1>1. Init => Ledger!Init
  BY DEF Init, Ledger!Init, Life
<1> QED
  BY <1>1, LifeIs, LedgerStep, AlwaysKept, InductiveInvariant, PTL
     DEF Spec, LedgerKept, Ledger!Spec
-----------------------------------------------------------------------------
(***************************************************************************)
(* A run picks a fresh corridor at most once.                              *)
(***************************************************************************)
USE DEF PickedOnce

LEMMA InitPickedOnce == Init => PickedOnce
  BY DEF Init, CorridorSettled, PickedSettled

\* While workers run, what was parked stays parked.
LEMMA StillParked ==
    ASSUME IInv,
           \A m \in Mid : pending[m] # NoEntry => pending'[m] = pending[m]
    PROVE  PendingPairs \subseteq PendingPairs'
  BY DEF PendingPairs, Parked

\* A worker that goes on with its corridor, or takes none, settles nothing.
LEMMA WorkerGoesOn ==
    ASSUME IInv, PickedOnce, NEW w \in Worker,
           \/ LoopHead(w) \/ PickNothing(w) \/ PickRaises(w) \/ FireRefused(w)
           \/ TryNextTarget(w) \/ Create(w) \/ WaitReturns(w) \/ WaitRaises(w)
    PROVE  PickedOnce'
<1>a. /\ UNCHANGED <<tested, skip, pending, job, res, phase, picked>>
      /\ pc' \in {[pc EXCEPT ![w] = x] : x \in {"off", "loop", "pick", "failed", "fire", "wait", "analyze"}}
      /\ Busy(w) => Busy(w)'
  BY DEF LoopHead, PickNothing, PickRaises, FireRefused, TryNextTarget, Create, WaitReturns,
         WaitRaises, Busy
<1>b. PendingPairs' = PendingPairs
  BY <1>a DEF PendingPairs, Parked
<1>1. CorridorSettled'
  BY <1>a, <1>b DEF CorridorSettled
<1>2. PickedSettled'
  BY <1>a, <1>b DEF PickedSettled, Busy
<1> QED
  BY <1>1, <1>2

LEMMA PickKeepsPicked ==
    ASSUME IInv, PickedOnce, NEW w \in Worker, PickRetest(w) \/ PickFresh(w)
    PROVE  PickedOnce'
<1>a. PICK j : /\ job' = [job EXCEPT ![w] = j]
               /\ picked' \subseteq picked \cup {j.pair}
  <2>1. CASE PickRetest(w)
    <3>1. PICK f : job' = [job EXCEPT ![w] = [pair |-> RetestPair[f], finding |-> f]]
      BY <2>1 DEF PickRetest, Assign
    <3> QED
      BY <2>1, <3>1 DEF PickRetest
  <2>2. CASE PickFresh(w)
    <3>1. PICK p : /\ job' = [job EXCEPT ![w] = [pair |-> p, finding |-> Fresh]]
                   /\ picked' = picked \cup {p}
      BY <2>2 DEF PickFresh, Assign
    <3> DEFINE j == [pair |-> p, finding |-> Fresh]
    <3>2. j.pair = p
      OBVIOUS
    <3> QED
      BY <3>1, <3>2
  <2> QED
    BY <2>1, <2>2
<1>b. /\ UNCHANGED <<tested, skip, pending, res, phase>>
      /\ pc' = [pc EXCEPT ![w] = "fire"] /\ pc[w] = "pick"
  BY DEF PickRetest, PickFresh, Assign
<1>c. PendingPairs' = PendingPairs
  BY <1>b DEF PendingPairs, Parked
<1>1. CorridorSettled'
  BY <1>a, <1>b, <1>c DEF CorridorSettled
<1>2. PickedSettled'
  BY <1>a, <1>b, <1>c, WorkersAlone DEF PickedSettled, Busy
<1> QED
  BY <1>1, <1>2

\* The collector runs while no worker does, outside the phase in which they pick.
LEMMA CollectorKeepsPicked ==
    ASSUME IInv, PickedOnce, pc[Main] # "off", UNCHANGED <<phase, picked>>,
           \A w \in Worker : pc'[w] = pc[w]
    PROVE  PickedOnce'
<1>1. \A w \in Worker : pc'[w] = "off"
  BY CollectorAlone
<1>2. phase' # "work"
  BY DEF MainControl
<1> QED
  BY <1>1, <1>2 DEF CorridorSettled, PickedSettled

LEMMA SettleKeepsPicked ==
    ASSUME IInv, PickedOnce, NEW w \in Worker, Settle(w) \/ FailWriting(w)
    PROVE  PickedOnce'
<1>a. /\ UNCHANGED <<tested, pending, job, res, phase, picked>>
      /\ pc' = [pc EXCEPT ![w] = "release"]
      /\ pc[w] = "settle" \/ pc[w] = "failedWriting"
      /\ skip \subseteq skip'
      /\ pc[w] = "failedWriting" \/ res[w] = "no_data" => job[w].pair \in skip'
  BY DEF Settle, FailWriting, Conclude
<1>b. PendingPairs' = PendingPairs
  BY <1>a DEF PendingPairs, Parked
<1>1. CorridorSettled'
  BY <1>a, <1>b DEF CorridorSettled
<1>2. PickedSettled'
  BY <1>a, <1>b DEF PickedSettled, Busy
<1> QED
  BY <1>1, <1>2

LEMMA FailKeepsPicked == ASSUME IInv, PickedOnce, NEW w \in Worker, Fail(w) PROVE PickedOnce'
<1>a. /\ UNCHANGED <<tested, job, res, phase, picked>>
      /\ pc' = [pc EXCEPT ![w] = "release"]
      /\ pc[w] = "failed"
      /\ skip' = skip \cup {job[w].pair}
      /\ \A m \in Mid : m # msm[w] => pending'[m] = pending[m]
  BY DEF Fail, Conclude
<1>b. PendingPairs \subseteq PendingPairs'
  BY <1>a, StillParked DEF HeldUnwritten
<1>1. CorridorSettled'
  BY <1>a, <1>b DEF CorridorSettled
<1>2. PickedSettled'
  BY <1>a, <1>b DEF PickedSettled, Busy
<1> QED
  BY <1>1, <1>2

LEMMA WaitPendingKeepsPicked ==
    ASSUME IInv, PickedOnce, NEW w \in Worker, WaitPending(w)
    PROVE  PickedOnce'
<1> DEFINE e == [job |-> job[w], attempts |-> 0, cool |-> FALSE, age |-> 0]
<1>a. /\ UNCHANGED <<tested, skip, job, phase, picked>>
      /\ pc' = [pc EXCEPT ![w] = "settle"] /\ pc[w] = "wait"
      /\ res' = [res EXCEPT ![w] = "pending"]
      /\ pending' = [pending EXCEPT ![out[w]] = e]
  BY DEF WaitPending
<1>b. out[w] \in Mid /\ pending[out[w]] = NoEntry
  BY <1>a DEF WorkerControl, AwaitedUnwritten
<1>c. e # NoEntry /\ e.job = job[w]
  <2>1. job[w] \in Job /\ 0 \in 0..MaxAttempts
    BY <1>a DEF WorkerControl, IdlePc
  <2> QED
    BY <2>1, NewEntry, EntryFields
<1> HIDE DEF e
<1>d. PendingPairs \subseteq PendingPairs'
  BY <1>a, <1>b, StillParked
<1>e. job[w].pair \in PendingPairs'
  BY <1>a, <1>b, <1>c DEF PendingPairs, Parked
<1>1. CorridorSettled'
  BY <1>a, <1>d, <1>e DEF CorridorSettled
<1>2. PickedSettled'
  BY <1>a, <1>d DEF PickedSettled, Busy
<1> QED
  BY <1>1, <1>2

LEMMA ReleaseKeepsPicked ==
    ASSUME IInv, PickedOnce, NEW w \in Worker, Release(w)
    PROVE  PickedOnce'
<1>a. /\ UNCHANGED <<tested, pending, skip, phase, picked>>
      /\ pc' = [pc EXCEPT ![w] = "loop"] /\ pc[w] = "release"
      /\ res' = [res EXCEPT ![w] = "none"]
      /\ job' = [job EXCEPT ![w] = NoJob]
  BY DEF Release
<1>b. PendingPairs' = PendingPairs
  BY <1>a DEF PendingPairs, Parked
<1>c. job[w].pair \in tested \cup skip \cup PendingPairs
  BY <1>a DEF CorridorSettled
<1>1. CorridorSettled'
  BY <1>a, <1>b DEF CorridorSettled
<1>2. PickedSettled'
  BY <1>a, <1>b, <1>c DEF PickedSettled, Busy
<1> QED
  BY <1>1, <1>2

LEMMA ClassifyKeepsPicked ==
    ASSUME IInv, PickedOnce, NEW a \in Actor,
           Analyze(a) \/ AnalyzeRaises(a) \/ Write(a) \/ WriteRaises(a)
    PROVE  PickedOnce'
<1>a. UNCHANGED <<job, skip, phase, picked, pending>> /\ tested \subseteq tested'
  BY DEF Analyze, AnalyzeRaises, Write, WriteRaises
<1>b. PendingPairs' = PendingPairs
  BY <1>a DEF PendingPairs, Parked
<1>1. CASE a = Main
  <2>1. pc[Main] # "off" /\ \A w \in Worker : pc'[w] = pc[w]
    BY <1>1 DEF Analyze, AnalyzeRaises, Write, WriteRaises
  <2> QED
    BY <1>a, <2>1, CollectorKeepsPicked
<1>2. CASE a \in Worker
  <2>1. CorridorSettled'
    <3>1. CASE Analyze(a) \/ AnalyzeRaises(a)
      BY <1>a, <1>b, <3>1 DEF CorridorSettled, Analyze, AnalyzeRaises
    <3>2. CASE Write(a) \/ WriteRaises(a)
      BY <1>a, <1>b, <3>2 DEF CorridorSettled, Write, WriteRaises
    <3> QED
      BY <3>1, <3>2
  <2>2. \A w \in Worker : Busy(w) => Busy(w)'
    BY DEF Busy, Analyze, AnalyzeRaises, Write, WriteRaises
  <2>3. PickedSettled'
    BY <1>a, <1>b, <2>2 DEF PickedSettled
  <2> QED
    BY <2>1, <2>3
<1> QED
  BY <1>1, <1>2

LEMMA MainKeepsPicked ==
    ASSUME IInv, PickedOnce, QuietMainStep \/ MovingMainStep
    PROVE  PickedOnce'
<1>1. CASE StartBatch \/ Crash
  BY <1>1 DEF StartBatch, Crash, CorridorSettled, PickedSettled, WorkerControl
<1>2. CASE Deadline
  BY <1>2 DEF Deadline, CorridorSettled, PickedSettled, PendingPairs, Parked, Busy
<1>3. CASE JoinWorkers
  BY <1>3 DEF JoinWorkers, CorridorSettled, PickedSettled
<1>4. CASE CollectDone
  <2>1. \A w \in Worker : pc'[w] \in {"off", "loop"}
    BY <1>4 DEF CollectDone
  <2>2. CorridorSettled'
    BY <2>1 DEF CorridorSettled
  <2>3. phase' \in {"work", "off"} /\ picked' = picked /\ (phase' = "work" => phase = "before")
    BY <1>4 DEF CollectDone
  <2> QED
    BY <2>2, <2>3 DEF PickedSettled
<1>5. CASE CollectReady \/ StampLost \/ CollectorStamps \/ Repark \/ \E m \in Mid : TakeReady(m)
  <2>1. pc[Main] # "off" /\ UNCHANGED <<phase, picked>> /\ \A w \in Worker : pc'[w] = pc[w]
    BY <1>5 DEF CollectReady, StampLost, CollectorStamps, Repark, NextReady, TakeReady
  <2> QED
    BY <2>1, CollectorKeepsPicked
<1> QED
  BY <1>1, <1>2, <1>3, <1>4, <1>5 DEF QuietMainStep, MovingMainStep

LEMMA StepKeepsPicked == IInv /\ PickedOnce /\ [Next]_vars => PickedOnce'
<1> SUFFICES ASSUME IInv, PickedOnce, [Next]_vars PROVE PickedOnce'
  OBVIOUS
<1>1. ASSUME NEW w \in Worker, QuietWorkerStep(w) \/ MovingWorkerStep(w) PROVE PickedOnce'
  BY <1>1, WorkerGoesOn, PickKeepsPicked, SettleKeepsPicked, FailKeepsPicked,
     WaitPendingKeepsPicked, ReleaseKeepsPicked DEF QuietWorkerStep, MovingWorkerStep
<1>2. CASE UNCHANGED vars
  BY <1>2 DEF vars, CorridorSettled, PickedSettled, PendingPairs, Parked, Busy
<1> QED
  BY <1>1, <1>2, StepCases, MainKeepsPicked, ClassifyKeepsPicked

\* A worker that picks a fresh corridor picks one this run has not had.
LEMMA PicksAnew ==
    ASSUME IInv, PickedOnce, [Next]_vars, NEW w \in Worker,
           pc[w] = "pick", pc'[w] = "fire", ~IsRetest(job'[w])
    PROVE  job'[w].pair \notin picked
<1>0. phase = "work"
  BY DEF WorkerControl
<1>1. ASSUME NEW v \in Worker, PickFresh(v) PROVE job'[w].pair \notin picked
  <2>1. PICK p \in Pickable : job' = [job EXCEPT ![v] = [pair |-> p, finding |-> Fresh]]
    BY <1>1 DEF PickFresh, Assign
  <2>2. v = w
    BY <1>1 DEF PickFresh, Assign
  <2>3. job'[w].pair = p
    BY <2>1, <2>2
  <2>4. /\ p \notin tested \cup skip \cup PendingPairs
        /\ \A u \in Worker : Busy(u) => job[u].pair # p
    BY <2>1 DEF Pickable, Untested, BusyInFlight
  <2> QED
    BY <1>0, <2>3, <2>4 DEF PickedSettled
<1>2. ASSUME NEW v \in Worker, PickRetest(v) PROVE FALSE
  <2>1. PICK f \in Finding : job' = [job EXCEPT ![v] = [pair |-> RetestPair[f], finding |-> f]]
    BY <1>2 DEF PickRetest, Assign, Free
  <2>2. v = w
    BY <1>2 DEF PickRetest, Assign
  <2> QED
    BY <2>1, <2>2 DEF IsRetest
<1>3. ASSUME NEW v \in Worker, QuietWorkerStep(v) \/ MovingWorkerStep(v),
             ~PickFresh(v), ~PickRetest(v)
      PROVE  FALSE
  <2>1. CASE QuietWorkerStep(v)
    BY <1>3, <2>1 DEF QuietWorkerStep, LoopHead, PickNothing, PickRaises, FireRefused,
       TryNextTarget, Settle, FailWriting, Conclude
  <2>2. CASE MovingWorkerStep(v)
    BY <2>2 DEF MovingWorkerStep, Create, WaitPending, WaitReturns, WaitRaises, Fail,
       Conclude, Release
  <2> QED
    BY <1>3, <2>1, <2>2
<1>4. CASE QuietMainStep \/ MovingMainStep
  BY <1>4 DEF QuietMainStep, MovingMainStep, Deadline, StampLost, CollectDone, JoinWorkers,
     StartBatch, CollectReady, CollectorStamps, Repark, NextReady, Crash, TakeReady
<1>5. ASSUME NEW a \in Actor, Analyze(a) \/ AnalyzeRaises(a) \/ Write(a) \/ WriteRaises(a)
      PROVE  FALSE
  BY <1>5 DEF Analyze, AnalyzeRaises, Write, WriteRaises
<1>6. ~UNCHANGED vars
  BY DEF vars
<1> QED
  BY <1>1, <1>2, <1>3, <1>4, <1>5, <1>6, StepCases

\* _pick_next_for_batch never offers a corridor twice in one run: what was
\* picked is tested, skipped, parked, or its source is in flight.
THEOREM CorridorsPickedOnce == Spec => FreshPickedOncePerRun
<1>1. IInv /\ PickedOnce /\ [Next]_vars =>
        [\A w \in Worker : pc[w] = "pick" /\ pc'[w] = "fire" /\ ~IsRetest(job'[w]) =>
            job'[w].pair \notin picked]_vars
  BY PicksAnew
<1> QED
  BY <1>1, InitPickedOnce, StepKeepsPicked, InductiveInvariant, PTL
     DEF Spec, FreshPickedOncePerRun
-----------------------------------------------------------------------------
(***************************************************************************)
(* A finding's retest is out at most once.                                 *)
(***************************************************************************)
USE DEF CarriersDiffer

LEMMA InitCarriersDiffer == Init => CarriersDiffer
  BY DEF Init, QueuedAlone, WorkersDiffer, CarriedNotOnFile, FilesDiffer, Carries, OnFile

\* Ageing and re-parking an entry leave its job alone.
LEMMA EntryKeepsJob ==
    ASSUME NEW e \in Entry
    PROVE  /\ Aged(e).job = e.job
           /\ [e EXCEPT !.attempts = @ + 1, !.cool = TRUE].job = e.job
  BY EntryFields DEF Aged, Entry

\* Fewer carriers are still different.
Fewer ==
    /\ queue' \subseteq queue
    /\ \A w \in Worker, f \in Finding : Carries(w, f)' => Carries(w, f)
    /\ \A m \in Mid, f \in Finding : OnFile(m, f)' => OnFile(m, f)

LEMMA FewerDiffer == ASSUME CarriersDiffer, TypeOK, Fewer PROVE CarriersDiffer'
<1>1. QueuedAlone'
  BY DEF Fewer, QueuedAlone
<1>2. (WorkersDiffer /\ CarriedNotOnFile /\ FilesDiffer)'
  BY DEF Fewer, WorkersDiffer, CarriedNotOnFile, FilesDiffer
<1> QED
  BY <1>1, <1>2

\* The collector moves a retest between the file and its hands, or ends it.
LEMMA CollectorFewer ==
    ASSUME IInv, \/ QuietMainStep \/ CollectReady \/ CollectorStamps \/ Repark \/ Crash
                 \/ \E m \in Mid : TakeReady(m)
    PROVE  Fewer
<1>1. CASE CollectReady
  <2>1. \A m \in Mid, f \in Finding : OnFile(m, f)' => OnFile(m, f)
    BY <1>1 DEF CollectReady, OnFile
  <2> QED
    BY <1>1, <2>1 DEF Fewer, CollectReady, Carries
<1>2. CASE CollectorStamps
  BY <1>2 DEF Fewer, CollectorStamps, NextReady, Carries, OnFile
<1>3. CASE Repark
  <2> DEFINE e == [ready[msm[Main]] EXCEPT !.attempts = @ + 1, !.cool = TRUE]
  <2>1. msm[Main] \in Mid /\ ready[msm[Main]] \in Entry
    BY <1>3 DEF Repark, MainControl, HoldPc
  <2>2. e.job = ready[msm[Main]].job /\ ready[msm[Main]] # NoEntry
    BY <2>1, EntryKeepsJob, EntryFields
  <2>3. /\ queue' = queue
        /\ pending' = [pending EXCEPT ![msm[Main]] = e]
        /\ ready' = [ready EXCEPT ![msm[Main]] = NoEntry]
        /\ pc' = [pc EXCEPT ![Main] = "next"]
        /\ job' = [job EXCEPT ![Main] = NoJob]
    BY <1>3 DEF Repark, NextReady
  <2> HIDE DEF e
  <2>4. \A m \in Mid, f \in Finding : OnFile(m, f)' => OnFile(m, f)
    BY <2>1, <2>2, <2>3 DEF OnFile
  <2> QED
    BY <2>3, <2>4 DEF Fewer, Carries
<1>4. CASE Crash
  BY <1>4 DEF Fewer, Crash, Carries, OnFile
<1>5. CASE \E m \in Mid : TakeReady(m)
  BY <1>5 DEF Fewer, TakeReady, Carries, OnFile
<1>6. CASE QuietMainStep
  BY <1>6 DEF Fewer, QuietMainStep, Deadline, StampLost, CollectDone, JoinWorkers, Carries, OnFile
<1> QED
  BY <1>1, <1>2, <1>3, <1>4, <1>5, <1>6

\* So does a worker, but for popping a retest and for parking its measurement.
LEMMA WorkerFewer ==
    ASSUME IInv, NEW w \in Worker, QuietWorkerStep(w) \/ MovingWorkerStep(w),
           ~PickRetest(w), ~WaitPending(w), ~Fail(w)
    PROVE  Fewer
<1> USE DEF Fewer, Carries, OnFile
<1>1. CASE PickFresh(w)
  <2>1. PICK p : job' = [job EXCEPT ![w] = [pair |-> p, finding |-> Fresh]]
    BY <1>1 DEF PickFresh, Assign
  <2>2. UNCHANGED <<pending, ready>> /\ queue' \subseteq queue
    BY <1>1 DEF PickFresh
  <2>3. \A v \in Worker : v # w => pc'[v] = pc[v]
    BY <1>1 DEF PickFresh, Assign
  <2> QED
    BY <2>1, <2>2, <2>3
<1>2. CASE LoopHead(w) \/ PickNothing(w) \/ PickRaises(w) \/ FireRefused(w) \/ TryNextTarget(w)
  BY <1>2 DEF LoopHead, PickNothing, PickRaises, FireRefused, TryNextTarget
<1>3. CASE Settle(w) \/ FailWriting(w)
  BY <1>3 DEF Settle, FailWriting, Conclude
<1>4. CASE Create(w) \/ WaitReturns(w) \/ WaitRaises(w) \/ Release(w)
  BY <1>4 DEF Create, WaitReturns, WaitRaises, Release
<1> QED
  BY <1>1, <1>2, <1>3, <1>4 DEF QuietWorkerStep, MovingWorkerStep

LEMMA ClassifyFewer ==
    ASSUME IInv, NEW a \in Actor,
           Analyze(a) \/ AnalyzeRaises(a) \/ Write(a) \/ WriteRaises(a)
    PROVE  Fewer
  BY DEF Fewer, Carries, OnFile, Analyze, AnalyzeRaises, Write, WriteRaises

\* The ration takes no finding whose retest is parked; nothing else is out.
LEMMA StartBatchDiffer == ASSUME IInv, CarriersDiffer, StartBatch PROVE CarriersDiffer'
<1>1. \A m \in Mid : /\ pending'[m] = Aged(pending[m])
                     /\ ready'[m] = NoEntry
                     /\ ready[m] = NoEntry
  BY DEF StartBatch, MainControl
<1>2. \A m \in Mid, f \in Finding : OnFile(m, f)' => m \in Parked /\ pending[m].job.finding = f
  <2> SUFFICES ASSUME NEW m \in Mid, NEW f \in Finding, OnFile(m, f)'
               PROVE  m \in Parked /\ pending[m].job.finding = f
    OBVIOUS
  <2>1. Aged(pending[m]) # NoEntry /\ Aged(pending[m]).job.finding = f
    BY <1>1 DEF OnFile
  <2>2. pending[m] \in Entry
    BY <2>1, AgedEntry
  <2> QED
    BY <2>1, <2>2, EntryKeepsJob, EntryFields DEF Parked
<1>3. \A m \in Mid, f \in Finding : OnFile(m, f)' => OnFile(m, f)
  BY <1>2 DEF OnFile, Parked
<1>4. \A w \in Worker, f \in Finding : ~Carries(w, f)'
  BY DEF StartBatch, WorkerControl, Carries
<1>5. CASE UNCHANGED queue
  BY <1>3, <1>4, <1>5, FewerDiffer DEF Fewer
<1>6. CASE queue' \in SUBSET (Finding \ ParkedFindings)
  <2>1. QueuedAlone'
    BY <1>2, <1>4, <1>6 DEF QueuedAlone, ParkedFindings
  <2>2. (WorkersDiffer /\ CarriedNotOnFile /\ FilesDiffer)'
    BY <1>3, <1>4 DEF WorkersDiffer, CarriedNotOnFile, FilesDiffer
  <2> QED
    BY <2>1, <2>2
<1> QED
  BY <1>5, <1>6 DEF StartBatch, Stage

\* A popped finding leaves the queue as it enters a worker's hands.
LEMMA PickRetestDiffer ==
    ASSUME IInv, CarriersDiffer, NEW w \in Worker, PickRetest(w)
    PROVE  CarriersDiffer'
<1>1. PICK f \in queue : /\ queue' \subseteq queue \ {f}
                         /\ job' = [job EXCEPT ![w] = [pair |-> RetestPair[f], finding |-> f]]
                         /\ pc' = [pc EXCEPT ![w] = "fire"] /\ pc[w] = "pick"
  BY DEF PickRetest, Free, Assign
<1>2. UNCHANGED <<pending, ready>>
  BY DEF PickRetest
<1>3. \A m \in Mid, g \in Finding : OnFile(m, g)' <=> OnFile(m, g)
  BY <1>2 DEF OnFile
<1>4. \A v \in Worker, g \in Finding : Carries(v, g)' => Carries(v, g) \/ (v = w /\ g = f)
  BY <1>1 DEF Carries
<1>5. ~\E g \in Finding : Carries(w, g)
  BY <1>1 DEF Carries
<1>6. /\ \A v \in Worker : ~Carries(v, f)
      /\ \A m \in Mid : ~OnFile(m, f)
  BY <1>1 DEF QueuedAlone
<1>7. QueuedAlone'
  BY <1>1, <1>3, <1>4 DEF QueuedAlone
<1>8. WorkersDiffer'
  BY <1>4, <1>5, <1>6 DEF WorkersDiffer
<1>9. (CarriedNotOnFile /\ FilesDiffer)'
  BY <1>3, <1>4, <1>6 DEF CarriedNotOnFile, FilesDiffer
<1> QED
  BY <1>7, <1>8, <1>9

\* A worker that parks a measurement under its own job lets go of the finding.
Parks(w, m) == \A n \in Mid : pending'[n] = pending[n] \/ (n = m /\ pending'[n].job = job[w])

LEMMA ParkingDiffers ==
    ASSUME IInv, CarriersDiffer, NEW w \in Worker, NEW m, Parks(w, m),
           \A f \in Finding : job[w].finding = f => Carries(w, f),
           UNCHANGED <<queue, ready, job>>,
           \A v \in Worker : v # w => pc'[v] = pc[v],
           pc'[w] \in {"settle", "release"}
    PROVE  CarriersDiffer'
<1>1. \A n \in Mid, f \in Finding :
        OnFile(n, f)' => OnFile(n, f) \/ (n = m /\ f = job[w].finding)
  BY DEF OnFile, Parks
<1>2. \A v \in Worker, f \in Finding : Carries(v, f)' => v # w /\ Carries(v, f)
  BY DEF Carries
<1>3. QueuedAlone'
  BY <1>1, <1>2 DEF QueuedAlone
<1>4. (WorkersDiffer /\ CarriedNotOnFile)'
  BY <1>1, <1>2 DEF WorkersDiffer, CarriedNotOnFile
<1>5. FilesDiffer'
  BY <1>1 DEF FilesDiffer, CarriedNotOnFile
<1> QED
  BY <1>3, <1>4, <1>5

LEMMA WaitPendingDiffer ==
    ASSUME IInv, CarriersDiffer, NEW w \in Worker, WaitPending(w)
    PROVE  CarriersDiffer'
<1> DEFINE e == [job |-> job[w], attempts |-> 0, cool |-> FALSE, age |-> 0]
<1>1. e.job = job[w]
  OBVIOUS
<1>2. /\ UNCHANGED <<queue, ready, job>>
      /\ pending' = [pending EXCEPT ![out[w]] = e]
      /\ pc' = [pc EXCEPT ![w] = "settle"] /\ pc[w] = "wait"
  BY DEF WaitPending
<1>3. \A f \in Finding : job[w].finding = f => Carries(w, f)
  BY <1>2 DEF Carries
<1> HIDE DEF e
<1>4. Parks(w, out[w])
  BY <1>1, <1>2 DEF Parks
<1> QED
  BY <1>2, <1>3, <1>4, ParkingDiffers

LEMMA FailDiffer ==
    ASSUME IInv, CarriersDiffer, NEW w \in Worker, Fail(w)
    PROVE  CarriersDiffer'
<1> DEFINE e == [job |-> job[w], attempts |-> 1, cool |-> TRUE, age |-> 0]
<1>1. e.job = job[w]
  OBVIOUS
<1>2. /\ UNCHANGED <<queue, ready, job>>
      /\ \A m \in Mid : pending'[m] = IF m # msm[w] THEN pending[m] ELSE e
      /\ pc' = [pc EXCEPT ![w] = "release"] /\ pc[w] = "failed"
  BY DEF Fail, Conclude
<1>3. \A f \in Finding : job[w].finding = f => Carries(w, f)
  BY <1>2 DEF Carries
<1> HIDE DEF e
<1>4. Parks(w, msm[w])
  BY <1>1, <1>2 DEF Parks
<1>5. /\ pc'[w] \in {"settle", "release"} /\ \A v \in Worker : v # w => pc'[v] = pc[v]
      /\ UNCHANGED <<queue, ready, job>>
  BY <1>2
<1> QED
  BY <1>3, <1>4, <1>5, ParkingDiffers

LEMMA StepKeepsCarriers == IInv /\ CarriersDiffer /\ [Next]_vars => CarriersDiffer'
<1> SUFFICES ASSUME IInv, CarriersDiffer, [Next]_vars PROVE CarriersDiffer'
  OBVIOUS
<1>1. CASE Fewer
  BY <1>1, FewerDiffer
<1>2. CASE UNCHANGED vars
  BY <1>1, <1>2 DEF vars, Fewer, Carries, OnFile
<1>3. CASE QuietMainStep \/ MovingMainStep
  BY <1>1, <1>3, CollectorFewer, StartBatchDiffer DEF MovingMainStep
<1>4. ASSUME NEW w \in Worker, QuietWorkerStep(w) \/ MovingWorkerStep(w) PROVE CarriersDiffer'
  BY <1>1, <1>4, WorkerFewer, PickRetestDiffer, WaitPendingDiffer, FailDiffer
<1> QED
  BY <1>1, <1>2, <1>3, <1>4, StepCases, ClassifyFewer

\* A set whose elements are all equal has at most one.
LEMMA AtMostOne ==
    ASSUME NEW S, \A x, y \in S : x = y
    PROVE  Cardinality(S) <= 1
<1>1. CASE S = {}
  BY <1>1, FS_EmptySet
<1>2. ASSUME NEW x \in S PROVE Cardinality(S) <= 1
  <2>1. S = {x}
    BY <1>2
  <2>2. Cardinality({x}) = 1
    BY FS_Singleton
  <2> QED
    BY <2>1, <2>2
<1> QED
  BY <1>1, <1>2

LEMMA OutOnce == ASSUME IInv, CarriersDiffer PROVE RetestOutOnce
<1> SUFFICES ASSUME NEW f \in Finding PROVE Cardinality(Carriers(f)) <= 1
  BY DEF RetestOutOnce
<1>1. ASSUME NEW x \in Carriers(f)
      PROVE  \/ x = <<"queue", f>> /\ f \in queue
             \/ \E w \in Worker : x = <<"worker", w>> /\ Carries(w, f)
             \/ \E m \in Mid : x = <<"parked", m>> /\ pending[m] # NoEntry /\ OnFile(m, f)
             \/ \E m \in Mid : x = <<"ready", m>> /\ ready[m] # NoEntry /\ OnFile(m, f)
  BY <1>1 DEF Carriers, OnFile, Parked
<1>2. ASSUME NEW x \in Carriers(f), NEW y \in Carriers(f) PROVE x = y
  <2>1. CASE f \in queue
    BY <1>1, <2>1 DEF QueuedAlone
  <2>2. CASE \E w \in Worker : Carries(w, f)
    BY <1>1, <2>2 DEF QueuedAlone, WorkersDiffer, CarriedNotOnFile
  <2>3. CASE \E m \in Mid : OnFile(m, f)
    BY <1>1, <2>3 DEF QueuedAlone, CarriedNotOnFile, FilesDiffer, ParkedUnwritten
  <2> QED
    BY <1>1, <2>1, <2>2, <2>3
<1> QED
  BY <1>2, AtMostOne
-----------------------------------------------------------------------------
(***************************************************************************)
(* A scheduled retest is counted once.                                     *)
(***************************************************************************)
USE DEF StampsRight

LEMMA InitStampsRight == Init => StampsRight
  BY DEF Init, LostNowhere, DueUnstamped, StampedAtMostOnce, FinishedStamped

\* While a worker works there is nothing the collector gave up on.
LEMMA NothingLost ==
    ASSUME IInv, LostNowhere, NEW w \in Worker, pc[w] # "off"
    PROVE  lost = {}
  BY WorkersAlone DEF LostNowhere

\* A step that records no attempt: whose attempt is still due was due before or
\* had no measurement, and whose attempt is due no longer is not finished.
Unstamping ==
    /\ UNCHANGED <<stamps, unrecorded>>
    /\ \A m \in Mid :
        /\ jobOf'[m] = NoJob => jobOf[m] = NoJob
        /\ StampDue(m)' => StampDue(m) \/ jobOf[m] = NoJob
        /\ jobOf'[m] # NoJob /\ crashes' = 0 /\ ~StampDue(m)'
           /\ (writes'[m] > 0 \/ closed'[m] = "dropped") =>
             /\ jobOf'[m] = jobOf[m] /\ crashes = 0 /\ ~StampDue(m)
             /\ writes[m] > 0 \/ closed[m] = "dropped"

LEMMA UnstampingKeeps ==
    ASSUME IInv, StampsRight, Unstamping, LostNowhere'
    PROVE  StampsRight'
<1>1. DueUnstamped' /\ StampedAtMostOnce'
  BY DEF Unstamping, DueUnstamped, StampedAtMostOnce
<1>2. FinishedStamped'
  BY DEF Unstamping, FinishedStamped
<1> QED
  BY <1>1, <1>2

\* Most steps change nothing this is about.
LEMMA QuietUnstamping ==
    ASSUME IInv, StampsRight, Quiet, UNCHANGED <<stamps, unrecorded, crashes, lost>>,
           \A w \in Worker : msm[w] \in Mid => (pc[w] = "release" <=> pc'[w] = "release")
    PROVE  Unstamping
<1>1. \A m \in Mid : StampDue(m)' <=> StampDue(m)
  BY DEF StampDue, Quiet, lifeVars
<1> QED
  BY <1>1 DEF Unstamping, Quiet, lifeVars

LEMMA IdleStampsRight ==
    ASSUME IInv, StampsRight,
           \/ Deadline \/ JoinWorkers \/ CollectDone
           \/ \E w \in Worker : QuietWorkerStep(w) /\ ~Settle(w) /\ ~FailWriting(w)
           \/ \E a \in Actor : Analyze(a) \/ AnalyzeRaises(a)
    PROVE  StampsRight'
<1>1. ASSUME NEW w \in Worker, QuietWorkerStep(w), ~Settle(w), ~FailWriting(w)
      PROVE  /\ UNCHANGED <<stamps, unrecorded, crashes, lost, pending, ready, jobOf>>
             /\ pc'[Main] = pc[Main]
             /\ \A v \in Worker : pc[v] = "release" <=> pc'[v] = "release"
  BY <1>1 DEF QuietWorkerStep, LoopHead, PickRetest, PickFresh, PickNothing, PickRaises,
     FireRefused, TryNextTarget, Assign
<1>2. ASSUME NEW a \in Actor, Analyze(a) \/ AnalyzeRaises(a)
      PROVE  /\ UNCHANGED <<stamps, unrecorded, crashes, lost, pending, ready, jobOf>>
             /\ pc[Main] = "lost" => pc'[Main] = "lost"
             /\ \A v \in Worker : pc[v] = "release" <=> pc'[v] = "release"
  BY <1>2 DEF Analyze, AnalyzeRaises
<1>3. CASE Deadline \/ JoinWorkers
  <2>1. /\ UNCHANGED <<stamps, unrecorded, crashes, lost, pending, ready, jobOf>>
        /\ pc[Main] = "lost" => pc'[Main] = "lost"
        /\ \A v \in Worker : pc[v] = "release" <=> pc'[v] = "release"
    BY <1>3 DEF Deadline, JoinWorkers, MainControl
  <2> QED
    BY <1>3, <2>1, QuietMain, QuietUnstamping, UnstampingKeeps DEF LostNowhere
<1>4. CASE CollectDone
  <2>1. UNCHANGED <<stamps, unrecorded, crashes, lost, pending, ready, jobOf>> /\ pc[Main] = "next"
    BY <1>4 DEF CollectDone
  <2>2. \A v \in Worker : msm[v] \notin Mid
    BY <2>1, CollectorAlone
  <2> QED
    BY <1>4, <2>1, <2>2, QuietMain, QuietUnstamping, UnstampingKeeps DEF LostNowhere
<1>5. CASE \E w \in Worker : QuietWorkerStep(w) /\ ~Settle(w) /\ ~FailWriting(w)
  BY <1>1, <1>5, QuietSteps, QuietUnstamping, UnstampingKeeps DEF LostNowhere
<1>6. CASE \E a \in Actor : Analyze(a) \/ AnalyzeRaises(a)
  BY <1>2, <1>6, QuietSteps, QuietUnstamping, UnstampingKeeps DEF LostNowhere
<1> QED
  BY <1>3, <1>4, <1>5, <1>6

LEMMA StartBatchStampsRight == ASSUME IInv, StampsRight, StartBatch PROVE StampsRight'
<1>1. \A m \in Mid : pending'[m] = NoEntry <=> pending[m] = NoEntry
  BY AgedEntry DEF StartBatch
<1>2. /\ UNCHANGED <<stamps, unrecorded, crashes, lost, ready, out, msm, jobOf, writes, closed>>
      /\ \A w \in Worker : pc'[w] = pc[w]
      /\ pc[Main] = "off"
  BY DEF StartBatch, MainControl
<1>3. \A m \in Mid : StampDue(m)' <=> StampDue(m)
  BY <1>1, <1>2 DEF StampDue
<1>4. Unstamping
  BY <1>2, <1>3 DEF Unstamping
<1>5. LostNowhere'
  BY <1>2 DEF LostNowhere
<1> QED
  BY <1>4, <1>5, UnstampingKeeps

\* What collect_ready takes out of the file is handed out or given up on, and
\* its attempt is due either way.
LEMMA CollectReadyStampsRight == ASSUME IInv, StampsRight, CollectReady PROVE StampsRight'
<1>a. PICK verdict \in [Parked -> {"drop", "keep", "ready"}] :
        /\ ready' = [m \in Mid |-> IF m \in {n \in Parked : verdict[n] = "ready"}
                                   THEN pending[m] ELSE NoEntry]
        /\ pending' = [m \in Mid |-> IF m \in {n \in Parked : verdict[n] = "keep"}
                                     THEN pending[m] ELSE NoEntry]
        /\ closed' = [m \in Mid |-> IF m \in {n \in Parked : verdict[n] = "drop"}
                                    THEN "dropped" ELSE closed[m]]
        /\ lost' = {n \in Parked : verdict[n] = "drop"}
  BY DEF CollectReady
<1>b. /\ UNCHANGED <<stamps, unrecorded, crashes, out, msm, jobOf, writes>>
      /\ \A w \in Worker : pc'[w] = pc[w]
      /\ pc[Main] = "collect" /\ pc'[Main] = "lost"
  BY DEF CollectReady
<1>c. lost = {} /\ \A m \in Mid : ready[m] = NoEntry
  BY <1>b DEF LostNowhere, MainControl
<1>1. \A m \in Mid : /\ StampDue(m)' <=> StampDue(m)
                     /\ m \notin Parked => closed'[m] = closed[m]
  BY <1>a, <1>b, <1>c DEF StampDue, Parked
<1>2. \A m \in Parked : StampDue(m)
  BY DEF StampDue, Parked
<1>3. Unstamping
  BY <1>b, <1>1, <1>2 DEF Unstamping
<1>4. LostNowhere'
  BY <1>a, <1>b DEF LostNowhere, Parked, UnfiredNowhere
<1> QED
  BY <1>3, <1>4, UnstampingKeeps

\* Nothing else the collector does before it settles an entry.
LEMMA CollectorStampsRight ==
    ASSUME IInv, StampsRight, Repark \/ Crash \/ \E m \in Mid : TakeReady(m)
    PROVE  StampsRight'
<1>1. CASE Repark
  <2> DEFINE e == [ready[msm[Main]] EXCEPT !.attempts = @ + 1, !.cool = TRUE]
  <2>1. /\ UNCHANGED <<stamps, unrecorded, crashes, lost, out, jobOf, writes, closed>>
        /\ \A w \in Worker : pc'[w] = pc[w] /\ msm'[w] = msm[w]
        /\ pending' = [pending EXCEPT ![msm[Main]] = e]
        /\ ready' = [ready EXCEPT ![msm[Main]] = NoEntry]
        /\ pc[Main] = "failed"
    BY <1>1 DEF Repark, NextReady
  <2>2. /\ msm[Main] \in Mid /\ ready[msm[Main]] \in Entry
        /\ ready[msm[Main]].attempts < MaxAttempts
    BY <2>1 DEF MainControl, HoldPc
  <2>3. e # NoEntry /\ ready[msm[Main]] # NoEntry /\ lost = {}
    BY <2>1, <2>2, ReparkedEntry, EntryFields DEF LostNowhere
  <2> HIDE DEF e
  <2>4. \A m \in Mid : StampDue(m)' <=> StampDue(m)
    BY <2>1, <2>2, <2>3 DEF StampDue
  <2>5. Unstamping /\ LostNowhere'
    BY <2>1, <2>3, <2>4 DEF Unstamping, LostNowhere
  <2> QED
    BY <2>5, UnstampingKeeps
<1>2. CASE Crash
  <2>1. /\ UNCHANGED <<stamps, unrecorded, pending, jobOf>>
        /\ crashes' # 0 /\ lost' = {}
        /\ \A m \in Mid : ready'[m] = NoEntry
        /\ \A w \in Worker : msm'[w] = NoMid /\ out'[w] = NoMid
    BY <1>2 DEF Crash
  <2>2. \A m \in Mid : StampDue(m)' => StampDue(m)
    BY <2>1 DEF StampDue
  <2>3. Unstamping /\ LostNowhere'
    BY <2>1, <2>2 DEF Unstamping, LostNowhere
  <2> QED
    BY <2>3, UnstampingKeeps
<1>3. ASSUME NEW m \in Mid, TakeReady(m) PROVE StampsRight'
  <2>1. /\ UNCHANGED <<stamps, unrecorded, crashes, lost, pending, ready, out, jobOf, writes, closed>>
        /\ \A w \in Worker : pc'[w] = pc[w] /\ msm'[w] = msm[w]
        /\ pc[Main] = "next"
    BY <1>3 DEF TakeReady
  <2>2. \A n \in Mid : StampDue(n)' <=> StampDue(n)
    BY <2>1 DEF StampDue
  <2>3. Unstamping /\ LostNowhere'
    BY <2>1, <2>2 DEF Unstamping, LostNowhere
  <2> QED
    BY <2>3, UnstampingKeeps
<1> QED
  BY <1>1, <1>2, <1>3

\* A write phase: its measurement stays due until the attempt is recorded.
LEMMA WriteStampsRight ==
    ASSUME IInv, StampsRight, NEW a \in Actor, Write(a) \/ WriteRaises(a)
    PROVE  StampsRight'
<1>1. /\ writes' = [writes EXCEPT ![msm[a]] = @ + 1]
      /\ pc' \in {[pc EXCEPT ![a] = "settle"], [pc EXCEPT ![a] = "failedWriting"]}
      /\ pc[a] = "write"
      /\ UNCHANGED <<stamps, unrecorded, crashes, lost, pending, ready, out, msm, jobOf, closed>>
  BY DEF Write, WriteRaises
<1>2. \A m \in Mid : StampDue(m)' <=> StampDue(m)
  BY <1>1 DEF StampDue
<1>3. StampDue(msm[a])
  BY <1>1 DEF StampDue, MainControl, HoldPc, WorkerControl
<1>4. Unstamping /\ LostNowhere'
  BY <1>1, <1>2, <1>3 DEF Unstamping, LostNowhere
<1> QED
  BY <1>4, UnstampingKeeps

\* A worker creates, awaits, parks or lets go of a measurement.
LEMMA MovingStampsRight ==
    ASSUME IInv, StampsRight, NEW w \in Worker, MovingWorkerStep(w)
    PROVE  StampsRight'
<1>0. lost = {}
  <2>1. pc[w] # "off"
    BY DEF MovingWorkerStep, Create, WaitPending, WaitReturns, WaitRaises, Fail, Release
  <2> QED
    BY <2>1, NothingLost
<1>1. UNCHANGED <<stamps, unrecorded, crashes, lost, ready, writes>> /\ LostNowhere'
  BY <1>0 DEF LostNowhere, MovingWorkerStep, Create, WaitPending, WaitReturns, WaitRaises, Fail,
     Conclude, Stamp, Release
<1>2. Unstamping
  <2>1. CASE Create(w)
    <3>1. PICK m \in Mid : /\ jobOf' = [jobOf EXCEPT ![m] = job[w]]
                           /\ out' = [out EXCEPT ![w] = m]
                           /\ jobOf[m] = NoJob
      BY <2>1 DEF Create
    <3>2. UNCHANGED <<msm, pending, closed>> /\ pc' = [pc EXCEPT ![w] = "wait"] /\ pc[w] = "fire"
      BY <2>1 DEF Create
    <3>3. job[w] \in Job /\ out[w] \notin Mid
      BY <3>2 DEF WorkerControl, IdlePc
    <3>4. \A n \in Mid : n # m => (StampDue(n)' <=> StampDue(n))
      BY <1>1, <3>1, <3>2, <3>3 DEF StampDue
    <3>5. StampDue(m)'
      BY <3>1 DEF StampDue
    <3> QED
      BY <1>1, <3>1, <3>2, <3>3, <3>4, <3>5, JobFields DEF Unstamping
  <2>2. CASE WaitPending(w)
    <3> DEFINE e == [job |-> job[w], attempts |-> 0, cool |-> FALSE, age |-> 0]
    <3>1. /\ pending' = [pending EXCEPT ![out[w]] = e]
          /\ closed' = [m \in Mid |-> IF m = msm[w] THEN "superseded" ELSE closed[m]]
          /\ out' = [out EXCEPT ![w] = NoMid]
          /\ msm' = [msm EXCEPT ![w] = NoMid]
          /\ pc' = [pc EXCEPT ![w] = "settle"] /\ pc[w] = "wait"
          /\ UNCHANGED jobOf
      BY <2>2 DEF WaitPending, Supersede
    <3>2. out[w] \in Mid /\ msm[w] # out[w]
      BY <3>1 DEF WorkerControl, OwnersDiffer
    <3>3. e # NoEntry
      <4>1. job[w] \in Job /\ 0 \in 0..MaxAttempts
        BY <3>1 DEF WorkerControl, IdlePc
      <4> QED
        BY <4>1, NewEntry, EntryFields
    <3> HIDE DEF e
    <3>4. \A m \in Mid : m # msm[w] => (StampDue(m)' <=> StampDue(m))
      BY <1>1, <3>1, <3>2, <3>3 DEF StampDue
    <3>5. msm[w] \in Mid => writes[msm[w]] = 0 /\ StampDue(msm[w]) /\ closed'[msm[w]] # "dropped"
      BY <3>1 DEF HeldUnwritten, StampDue
    <3> QED
      BY <1>1, <3>1, <3>4, <3>5 DEF Unstamping
  <2>3. CASE WaitReturns(w)
    <3>1. /\ closed' = [m \in Mid |-> IF m = msm[w] THEN "superseded" ELSE closed[m]]
          /\ out' = [out EXCEPT ![w] = NoMid]
          /\ msm' = [msm EXCEPT ![w] = out[w]]
          /\ pc' = [pc EXCEPT ![w] = "analyze"] /\ pc[w] = "wait"
          /\ UNCHANGED <<jobOf, pending>>
      BY <2>3 DEF WaitReturns, Supersede
    <3>2. \A m \in Mid : m # msm[w] => (StampDue(m)' <=> StampDue(m))
      BY <1>1, <3>1 DEF StampDue
    <3>3. msm[w] \in Mid => writes[msm[w]] = 0 /\ StampDue(msm[w]) /\ closed'[msm[w]] # "dropped"
      BY <3>1 DEF HeldUnwritten, StampDue
    <3> QED
      BY <1>1, <3>1, <3>2, <3>3 DEF Unstamping
  <2>4. CASE WaitRaises(w)
    <3>1. /\ closed' = [closed EXCEPT ![out[w]] = "forgotten"]
          /\ out' = [out EXCEPT ![w] = NoMid]
          /\ pc' = [pc EXCEPT ![w] = "failed"] /\ pc[w] = "wait"
          /\ UNCHANGED <<jobOf, pending, msm>>
      BY <2>4 DEF WaitRaises
    <3>2. \A m \in Mid : m # out[w] => (StampDue(m)' <=> StampDue(m))
      BY <1>1, <3>1 DEF StampDue
    <3>3. out[w] \in Mid /\ writes[out[w]] = 0 /\ StampDue(out[w])
      BY <3>1 DEF WorkerControl, AwaitedUnwritten, StampDue
    <3>4. closed'[out[w]] # "dropped" /\ \A m \in Mid : m # out[w] => closed'[m] = closed[m]
      BY <3>1, <3>3
    <3> QED
      BY <1>1, <3>1, <3>2, <3>3, <3>4 DEF Unstamping
  <2>5. CASE Fail(w)
    <3> DEFINE e == [job |-> job[w], attempts |-> 1, cool |-> TRUE, age |-> 0]
    <3>1. /\ \A m \in Mid : pending'[m] = IF m # msm[w] THEN pending[m] ELSE e
          /\ pc' = [pc EXCEPT ![w] = "release"] /\ pc[w] = "failed"
          /\ UNCHANGED <<jobOf, closed, msm, out>>
      BY <2>5 DEF Fail, Conclude
    <3>2. e # NoEntry
      <4>1. job[w] \in Job /\ 1 \in 0..MaxAttempts
        BY <3>1 DEF WorkerControl, IdlePc
      <4> QED
        BY <4>1, NewEntry, EntryFields
    <3> HIDE DEF e
    <3>3. \A m \in Mid : StampDue(m)' <=> StampDue(m)
      BY <1>1, <3>1, <3>2 DEF StampDue
    <3> QED
      BY <1>1, <3>1, <3>3 DEF Unstamping
  <2>6. CASE Release(w)
    <3>1. /\ msm' = [msm EXCEPT ![w] = NoMid]
          /\ pc' = [pc EXCEPT ![w] = "loop"] /\ pc[w] = "release"
          /\ UNCHANGED <<jobOf, pending, closed, out>>
      BY <2>6 DEF Release
    <3>2. \A m \in Mid : StampDue(m)' <=> StampDue(m)
      BY <1>1, <3>1 DEF StampDue
    <3> QED
      BY <1>1, <3>1, <3>2 DEF Unstamping
  <2> QED
    BY <2>1, <2>2, <2>3, <2>4, <2>5, <2>6 DEF MovingWorkerStep
<1> QED
  BY <1>1, <1>2, UnstampingKeeps

\* The store is asked to record an attempt for every measurement in S that is a
\* retest: each was due, none is due any longer, and nothing else changes.
Stamping(S) ==
    /\ Stamp(S)
    /\ UNCHANGED <<jobOf, writes, closed, crashes>>
    /\ \A m \in Mid : IF m \in S THEN StampDue(m) /\ jobOf[m] # NoJob /\ ~StampDue(m)'
                                  ELSE StampDue(m)' <=> StampDue(m)

\* It does or it refuses.
LEMMA Recorded ==
    ASSUME TypeOK, NEW S, Stamp(S), NEW m \in Mid
    PROVE  IF m \in S /\ IsRetest(jobOf[m])
           THEN \/ stamps'[m] = stamps[m] + 1 /\ (m \in unrecorded' <=> m \in unrecorded)
                \/ stamps'[m] = stamps[m] /\ m \in unrecorded'
           ELSE stamps'[m] = stamps[m] /\ (m \in unrecorded' <=> m \in unrecorded)
  BY DEF Stamp

LEMMA StampingKeeps ==
    ASSUME IInv, StampsRight, NEW S, Stamping(S), LostNowhere'
    PROVE  StampsRight'
<1>1. \A m \in Mid :
        IF m \in S /\ IsRetest(jobOf[m])
        THEN \/ stamps'[m] = stamps[m] + 1 /\ (m \in unrecorded' <=> m \in unrecorded)
             \/ stamps'[m] = stamps[m] /\ m \in unrecorded'
        ELSE stamps'[m] = stamps[m] /\ (m \in unrecorded' <=> m \in unrecorded)
  BY Recorded DEF Stamping
<1>2. \A m \in Mid : m \in S => stamps[m] = 0 /\ m \notin unrecorded
  BY DEF Stamping, DueUnstamped
<1>3. DueUnstamped'
  BY <1>1 DEF Stamping, DueUnstamped
<1>4. StampedAtMostOnce'
  BY <1>1, <1>2 DEF StampedAtMostOnce
<1>5. FinishedStamped'
  BY <1>1, <1>2 DEF Stamping, FinishedStamped
<1> QED
  BY <1>3, <1>4, <1>5

\* What collect_ready gave up on is in nobody's hands.
LEMMA StampLostRight == ASSUME IInv, StampsRight, StampLost PROVE StampsRight'
<1>1. /\ UNCHANGED <<jobOf, writes, closed, crashes, pending, ready, msm, out>>
      /\ \A w \in Worker : pc'[w] = pc[w]
      /\ Stamp(lost) /\ lost' = {} /\ pc[Main] = "lost"
  BY DEF StampLost
<1>2. \A w \in Worker : msm[w] = NoMid /\ out[w] \notin Mid
  BY <1>1, CollectorAlone
<1>3. \A m \in Mid : IF m \in lost THEN StampDue(m) /\ ~StampDue(m)'
                                    ELSE StampDue(m)' <=> StampDue(m)
  BY <1>1, <1>2 DEF StampDue, LostNowhere
<1> QED
  BY <1>1, <1>3, StampingKeeps DEF Stamping, LostNowhere

\* A worker records the attempt of what it wrote, and of nothing it parked.
LEMMA SettleStampsRight ==
    ASSUME IInv, Kept, StampsRight, NEW w \in Worker, Settle(w) \/ FailWriting(w)
    PROVE  StampsRight'
<1>0. PICK S : S = {msm[w]} \cap Mid
  OBVIOUS
<1>1. /\ UNCHANGED <<jobOf, writes, closed, crashes, pending, ready, msm, out, lost>>
      /\ Stamp({msm[w]})
      /\ pc[w] \in {"settle", "failedWriting"} /\ pc' = [pc EXCEPT ![w] = "release"]
  BY DEF Settle, FailWriting, Conclude
<1>2. lost = {} /\ \A m \in Mid : ready[m] = NoEntry
  BY <1>1, NothingLost, WorkersAlone
<1>3. Stamp(S)
  <2>1. S \cap Mid = {msm[w]} \cap Mid
    BY <1>0
  <2> QED
    BY <1>1, <2>1 DEF Stamp
<1>4. ASSUME NEW m \in S PROVE StampDue(m) /\ jobOf[m] # NoJob /\ ~StampDue(m)'
  <2>1. m = msm[w] /\ m \in Mid /\ writes[m] > 0
    BY <1>0, <1>1 DEF Kept, WrittenUp
  <2>2. pending[m] = NoEntry /\ jobOf[m] # NoJob
    BY <2>1 DEF ParkedUnwritten, UnfiredNowhere
  <2>3. \A v \in Worker : out[v] # m /\ (v # w => msm[v] # m)
    BY <2>1 DEF OwnersDiffer
  <2> QED
    BY <1>1, <1>2, <2>1, <2>2, <2>3 DEF StampDue
<1>5. ASSUME NEW m \in Mid, m \notin S PROVE StampDue(m)' <=> StampDue(m)
  BY <1>0, <1>1, <1>5 DEF StampDue
<1>6. LostNowhere'
  BY <1>1, <1>2 DEF LostNowhere
<1>7. Stamping(S)
  BY <1>1, <1>3, <1>4, <1>5 DEF Stamping
<1> QED
  BY <1>6, <1>7, StampingKeeps

\* The collector does so for the entry it is done with.
LEMMA CollectorStampsKeepsRight ==
    ASSUME IInv, Kept, StampsRight, CollectorStamps
    PROVE  StampsRight'
<1>0. PICK m : m = msm[Main]
  OBVIOUS
<1>1. /\ UNCHANGED <<jobOf, writes, closed, crashes, pending, out, lost>>
      /\ Stamp({m})
      /\ ready' = [ready EXCEPT ![m] = NoEntry]
      /\ \A w \in Worker : pc'[w] = pc[w] /\ msm'[w] = msm[w]
      /\ pc[Main] \in {"settle", "failedWriting"}
  BY <1>0 DEF CollectorStamps, NextReady
<1>2. m \in Mid /\ ready[m] # NoEntry
  BY <1>0, <1>1 DEF MainControl, HoldPc
<1>3. /\ lost = {} /\ pending[m] = NoEntry /\ jobOf[m] # NoJob
      /\ \A w \in Worker : msm[w] = NoMid /\ out[w] \notin Mid
  BY <1>1, <1>2, CollectorAlone DEF LostNowhere, ParkedUnwritten, UnfiredNowhere
<1>4. StampDue(m) /\ ~StampDue(m)'
  BY <1>1, <1>2, <1>3 DEF StampDue
<1>5. \A n \in Mid : n # m => (StampDue(n)' <=> StampDue(n))
  BY <1>1 DEF StampDue
<1>6. LostNowhere'
  BY <1>1, <1>3 DEF LostNowhere
<1>7. Stamping({m})
  BY <1>1, <1>3, <1>4, <1>5 DEF Stamping
<1> QED
  BY <1>6, <1>7, StampingKeeps

LEMMA StepKeepsStamps == IInv /\ Kept /\ StampsRight /\ [Next]_vars => StampsRight'
<1> SUFFICES ASSUME IInv, Kept, StampsRight, [Next]_vars PROVE StampsRight'
  OBVIOUS
<1>1. CASE UNCHANGED vars
  BY <1>1 DEF vars, LostNowhere, DueUnstamped, StampedAtMostOnce, FinishedStamped, StampDue
<1>2. CASE QuietMainStep \/ MovingMainStep
  BY <1>2, IdleStampsRight, StampLostRight, StartBatchStampsRight, CollectReadyStampsRight,
     CollectorStampsKeepsRight, CollectorStampsRight DEF QuietMainStep, MovingMainStep
<1>3. ASSUME NEW w \in Worker, QuietWorkerStep(w) \/ MovingWorkerStep(w) PROVE StampsRight'
  BY <1>3, IdleStampsRight, SettleStampsRight, MovingStampsRight
<1> QED
  BY <1>1, <1>2, <1>3, StepCases, IdleStampsRight, WriteStampsRight

\* What is finished is due no attempt any more.
LEMMA CountedOnce == ASSUME IInv, StampsRight PROVE RetestStampedOnce
<1> SUFFICES ASSUME NEW m \in Mid, jobOf[m] # NoJob, IsRetest(jobOf[m])
             PROVE  /\ stamps[m] <= IF m \in unrecorded THEN 0 ELSE 1
                    /\ m \in Parked => stamps[m] = 0 /\ m \notin unrecorded
                    /\ Finished(m) /\ crashes = 0 => stamps[m] = 1 \/ m \in unrecorded
  BY DEF RetestStampedOnce
<1>1. stamps[m] <= IF m \in unrecorded THEN 0 ELSE 1
  BY DEF StampedAtMostOnce
<1>2. m \in Parked => stamps[m] = 0 /\ m \notin unrecorded
  BY DEF DueUnstamped, StampDue, Parked
<1>3. ASSUME Finished(m) PROVE ~StampDue(m)
  BY <1>3 DEF Finished, StampDue, InHand, Parked
<1>4. Finished(m) /\ crashes = 0 => stamps[m] = 1 \/ m \in unrecorded
  BY <1>3 DEF FinishedStamped, Finished
<1> QED
  BY <1>1, <1>2, <1>4

\* A scheduled retest of a finding is queued, in a worker's hands, parked or
\* collected, never two of these at once, and its attempt is recorded exactly
\* once, when its measurement is written up or given up, unless the process
\* died or the findings store refused that one record.
THEOREM RetestsOutOnceCountedOnce == Spec => []RetestOnce
<1>1. IInv /\ CarriersDiffer /\ StampsRight => RetestOnce
  BY OutOnce, CountedOnce DEF RetestOnce
<1>2. Spec => []CarriersDiffer
  BY InitCarriersDiffer, StepKeepsCarriers, InductiveInvariant, PTL DEF Spec
<1>3. Spec => []StampsRight
  BY InitStampsRight, StepKeepsStamps, AlwaysKept, InductiveInvariant, PTL DEF Spec
<1> QED
  BY <1>1, <1>2, <1>3, InductiveInvariant, PTL
=============================================================================
