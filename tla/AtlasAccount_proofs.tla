------------------------- MODULE AtlasAccount_proofs -------------------------
(***************************************************************************)
(* For every number of workers up to one more than HEADROOM_MARGIN, every  *)
(* cap and every size of a batch: as long as each job saw its headroom,    *)
(* and the offshore check runs when no batch is on, Atlas refuses nobody.  *)
(* And for any number of findings and nights, any share due a night and    *)
(* any mix of outcomes: the nightly rotation retests each once a night.    *)
(***************************************************************************)
EXTENDS MCAtlasAccount, FiniteSetTheorems, TLAPS

WorkersFit == ~Overlap /\ Cardinality(Worker) <= Margin + 1

LEMMA Numbers ==
    /\ Pings \in Nat /\ Cap \in Nat /\ Margin \in Nat
    /\ MaxPolls \in Nat /\ MaxRetries \in Nat
    /\ Margin <= Cap /\ Limit \in 0..Cap /\ Limit + Margin = Cap
BY AccountAssumption DEF Limit

LEMMA GrantedFinite ==
    /\ IsFiniteSet(Granted) /\ Cardinality(Granted) \in Nat
    /\ Cardinality(Granted) <= Cardinality(Worker)
<1>1. Granted \subseteq Worker
    BY DEF Granted
<1>2. QED
    BY <1>1, AccountAssumption, FS_Subset, FS_CardinalityType

\* A worker that is done creating, or fails to, is one less.
LEMMA GrantedOneLess ==
    ASSUME TypeOK, NEW w \in Worker, pc[w] = "create", pc' = [pc EXCEPT ![w] = "off"]
    PROVE  Cardinality(Granted') = Cardinality(Granted) - 1
<1>1. Granted' = Granted \ {w} /\ w \in Granted
    BY DEF Granted, TypeOK, Job
<1>2. QED
    BY <1>1, GrantedFinite, FS_RemoveElement

LEMMA GrantedSame ==
    ASSUME \A w \in Worker : pc'[w] = "create" <=> pc[w] = "create"
    PROVE  Cardinality(Granted') = Cardinality(Granted)
<1>1. Granted' = Granted
    BY DEF Granted
<1>2. QED
    BY <1>1
-----------------------------------------------------------------------------
LEMMA InitTypeOK == Init => TypeOK
<1> SUFFICES ASSUME Init PROVE TypeOK
    OBVIOUS
<1> USE Numbers
<1>1. inFlight \in 0..Cap
    BY DEF Init
<1>2. pc \in [Job -> {"off", "ask", "create"}]
    BY DEF Init
<1>3. polls \in [Job -> 0..MaxPolls]
    BY DEF Init
<1>4. left \in 0..Pings /\ retries \in 0..MaxRetries
    BY DEF Init
<1>5. blind \in BOOLEAN /\ refused \in BOOLEAN
    BY DEF Init
<1>6. QED
    BY <1>1, <1>2, <1>3, <1>4, <1>5 DEF TypeOK

LEMMA StepTypeOK == TypeOK /\ [Next]_vars => TypeOK'
<1> SUFFICES ASSUME TypeOK, [Next]_vars PROVE TypeOK'
    OBVIOUS
<1> USE Numbers
<1>1. CASE Finish
    BY <1>1 DEF Finish, TypeOK
<1>2. ASSUME NEW j \in Job, Headroom(j) \/ FireAnyway(j) \/ Unreadable(j) PROVE TypeOK'
    <2>1. GoAhead(j) /\ blind' \in BOOLEAN
        BY <1>2 DEF Headroom, FireAnyway, Unreadable, TypeOK
    <2>2. pc' \in [Job -> {"off", "ask", "create"}]
        BY <2>1 DEF GoAhead, TypeOK
    <2>3. polls' \in [Job -> 0..MaxPolls]
        BY <2>1 DEF GoAhead, TypeOK
    <2>4. left' \in 0..Pings
        BY <2>1 DEF GoAhead, TypeOK
    <2>5. QED
        BY <2>1, <2>2, <2>3, <2>4 DEF GoAhead, TypeOK
<1>3. ASSUME NEW j \in Job, Wait(j) PROVE TypeOK'
    <2>1. polls[j] + 1 \in 0..MaxPolls
        BY <1>3 DEF Wait, TypeOK
    <2>2. polls' \in [Job -> 0..MaxPolls]
        BY <1>3, <2>1 DEF Wait, TypeOK
    <2>3. QED
        BY <1>3, <2>2 DEF Wait, TypeOK
<1>4. CASE CreatePing
    <2>1. inFlight' \in 0..Cap
        BY <1>4 DEF CreatePing, TypeOK
    <2>2. left' \in 0..Pings
        BY <1>4 DEF CreatePing, TypeOK
    <2>3. retries' \in 0..MaxRetries
        BY <1>4 DEF CreatePing, TypeOK
    <2>4. refused' \in BOOLEAN
        BY <1>4 DEF CreatePing, TypeOK
    <2>5. QED
        BY <1>4, <2>1, <2>2, <2>3, <2>4 DEF CreatePing, TypeOK
<1>5. CASE BatchDone
    BY <1>5 DEF BatchDone, TypeOK
<1>6. ASSUME NEW w \in Worker, CreateTrace(w) PROVE TypeOK'
    <2>1. inFlight' \in 0..Cap
        BY <1>6 DEF CreateTrace, TypeOK
    <2>2. refused' \in BOOLEAN
        BY <1>6 DEF CreateTrace, TypeOK
    <2>3. QED
        BY <1>6, <2>1, <2>2 DEF CreateTrace, TypeOK
<1>7. ASSUME NEW j \in Job, Call(j) PROVE TypeOK'
    BY <1>7 DEF Call, TypeOK
<1>8. CASE UNCHANGED vars
    BY <1>8 DEF vars, TypeOK
<1>10. CASE SkipPing
    BY <1>10 DEF SkipPing, TypeOK
<1>11. ASSUME NEW j \in Job, Raises(j) PROVE TypeOK'
    BY <1>11 DEF Raises, TypeOK
<1>9. QED
    BY <1>1, <1>2, <1>3, <1>4, <1>5, <1>6, <1>7, <1>8, <1>10, <1>11 DEF Next, Offshore, Ask, Trace, Job

\* Every value of the parameters: the variables keep their types.
THEOREM TypeCorrect == Spec => []TypeOK
<1>1. QED
    BY InitTypeOK, StepTypeOK, PTL DEF Spec
-----------------------------------------------------------------------------
LEMMA InitAccounted == Init => Accounted
<1> SUFFICES ASSUME Init PROVE Accounted
    OBVIOUS
<1>1. Granted = {}
    BY DEF Init, Granted, Job
<1>2. Cardinality(Granted) = 0
    BY <1>1, FS_EmptySet
<1>3. Fitting
    BY <1>2, Numbers DEF Init, Fitting, Job
<1>4. Exclusive
    BY DEF Init, Exclusive, Job
<1>5. QED
    BY <1>3, <1>4 DEF Accounted, Init

\* The jobs take turns.
LEMMA StepExclusive ==
    ASSUME TypeOK, Exclusive, WorkersFit, [Next]_vars
    PROVE  Exclusive'
<1> USE DEF Exclusive, Job, TypeOK
<1>0. "offshore" \notin Worker
    BY AccountAssumption
<1>1. CASE Finish
    BY <1>1 DEF Finish
<1>2. ASSUME NEW j \in Job, Ask(j) \/ Unreadable(j) PROVE Exclusive'
    BY <1>0, <1>2 DEF Ask, Headroom, Wait, FireAnyway, Unreadable, GoAhead
<1>3. CASE CreatePing
    BY <1>3 DEF CreatePing
<1>4. CASE BatchDone
    BY <1>4 DEF BatchDone
<1>5. ASSUME NEW w \in Worker, CreateTrace(w) PROVE Exclusive'
    BY <1>0, <1>5 DEF CreateTrace
<1>6. ASSUME NEW j \in Job, Call(j) PROVE Exclusive'
    BY <1>0, <1>6 DEF Call, WorkersFit
<1>7. CASE UNCHANGED vars
    BY <1>7 DEF vars
<1>8. CASE SkipPing
    BY <1>8 DEF SkipPing
<1>9. ASSUME NEW j \in Job, Raises(j) PROVE Exclusive'
    BY <1>0, <1>9 DEF Raises
<1>10. QED
    BY <1>1, <1>2, <1>3, <1>4, <1>5, <1>6, <1>7, <1>8, <1>9 DEF Next, Offshore, Trace, Job

\* A worker's headroom: one more granted, and at most Margin others were.
LEMMA HeadroomFits ==
    ASSUME TypeOK, Exclusive, WorkersFit, NEW j \in Job, Headroom(j)
    PROVE  Fitting'
<1> USE Numbers
<1>0. "offshore" \notin Worker
    BY AccountAssumption
<1>1. CASE j = "offshore"
    BY <1>1 DEF Headroom, GoAhead, Fits, Need, Fitting, TypeOK, Job
<1>2. CASE j \in Worker
    <2>1. pc["offshore"] = "off" /\ pc'["offshore"] = "off"
        BY <1>0, <1>2 DEF Headroom, GoAhead, Exclusive, TypeOK, Job
    <2>2. inFlight' = inFlight /\ inFlight + 1 <= Limit
        BY <1>0, <1>2 DEF Headroom, GoAhead, Fits, Need
    <2>3. Cardinality(Granted') <= Cardinality(Worker) /\ Cardinality(Granted') \in Nat
        <3>1. Granted' \subseteq Worker
            BY DEF Granted
        <3>2. QED
            BY <3>1, AccountAssumption, FS_Subset, FS_CardinalityType
    <2>4. Cardinality(Worker) <= Margin + 1 /\ Cardinality(Worker) \in Nat
        BY AccountAssumption, FS_CardinalityType DEF WorkersFit
    <2>5. QED
        BY <2>1, <2>2, <2>3, <2>4 DEF Fitting, TypeOK
<1>3. QED
    BY <1>1, <1>2 DEF Job

LEMMA StepAccounted ==
    ASSUME TypeOK, Accounted, WorkersFit, [Next]_vars
    PROVE  Accounted'
<1> USE Numbers
<1>0. "offshore" \notin Worker
    BY AccountAssumption
<1>a. Exclusive'
    BY StepExclusive DEF Accounted
<1> SUFFICES ASSUME ~blind' PROVE Fitting' /\ ~refused'
    BY <1>a DEF Accounted
<1>b. ~blind
    BY DEF Next, Finish, Offshore, Ask, Headroom, Wait, FireAnyway, Unreadable, GoAhead,
           CreatePing, SkipPing, Raises, BatchDone, Trace, CreateTrace, Call, vars, TypeOK
<1>c. Exclusive /\ Fitting /\ ~refused
    BY <1>b DEF Accounted
<1>d. Cardinality(Granted) \in Nat
    BY GrantedFinite
<1>1. CASE Finish
    <2>1. Cardinality(Granted') = Cardinality(Granted)
        BY <1>1, GrantedSame DEF Finish
    <2>2. QED
        BY <1>1, <1>c, <1>d, <2>1 DEF Finish, Fitting, TypeOK
<1>2. ASSUME NEW j \in Job, Headroom(j) PROVE Fitting' /\ ~refused'
    BY <1>2, <1>c, HeadroomFits DEF Headroom, GoAhead
<1>3. ASSUME NEW j \in Job, Wait(j) PROVE Fitting' /\ ~refused'
    <2>1. Cardinality(Granted') = Cardinality(Granted)
        BY <1>3, GrantedSame DEF Wait
    <2>2. QED
        BY <1>3, <1>c, <2>1 DEF Wait, Fitting
<1>4. ASSUME NEW j \in Job, FireAnyway(j) \/ Unreadable(j) PROVE FALSE
    BY <1>4 DEF FireAnyway, Unreadable
<1>5. CASE CreatePing
    \* Fitting leaves room for what is left of the batch.
    BY <1>5, <1>c DEF CreatePing, Fitting, TypeOK
<1>6. CASE BatchDone
    <2>1. Granted' = {}
        BY <1>0, <1>6, <1>c DEF BatchDone, Exclusive, Granted, TypeOK, Job
    <2>2. Cardinality(Granted') = 0
        BY <2>1, FS_EmptySet
    <2>3. QED
        BY <1>6, <1>c, <2>2 DEF BatchDone, Fitting, TypeOK, Job
<1>7. ASSUME NEW w \in Worker, CreateTrace(w) PROVE Fitting' /\ ~refused'
    <2>1. pc["offshore"] = "off" /\ pc'["offshore"] = "off"
        BY <1>0, <1>7, <1>c DEF CreateTrace, Exclusive, TypeOK, Job
    <2>2. Cardinality(Granted') = Cardinality(Granted) - 1
        BY <1>7, GrantedOneLess DEF CreateTrace
    <2>3. w \in Granted
        BY <1>7 DEF CreateTrace, Granted
    <2>4. Cardinality(Granted) >= 1
        BY <2>3, GrantedFinite, FS_EmptySet
    <2>5. inFlight < Cap
        BY <1>c, <1>d, <2>1, <2>4 DEF Fitting, TypeOK
    <2>6. QED
        BY <1>7, <1>c, <1>d, <2>1, <2>2, <2>5 DEF CreateTrace, Fitting, TypeOK
<1>8. ASSUME NEW j \in Job, Call(j) PROVE Fitting' /\ ~refused'
    <2>1. Cardinality(Granted') = Cardinality(Granted)
        BY <1>8, GrantedSame DEF Call, TypeOK, Job
    <2>2. QED
        BY <1>8, <1>c, <2>1 DEF Call, Fitting, TypeOK, Job
<1>9. CASE UNCHANGED vars
    <2>1. Cardinality(Granted') = Cardinality(Granted)
        BY <1>9, GrantedSame DEF vars
    <2>2. QED
        BY <1>9, <1>c, <2>1 DEF vars, Fitting
<1>10. CASE SkipPing
    BY <1>10, <1>c DEF SkipPing, Fitting, TypeOK
<1>11. ASSUME NEW w \in Worker, Raises(w) PROVE Fitting' /\ ~refused'
    <2>1. pc["offshore"] = "off" /\ pc'["offshore"] = "off"
        BY <1>0, <1>11, <1>c DEF Raises, Exclusive, TypeOK, Job
    <2>2. Cardinality(Granted') = Cardinality(Granted) - 1
        BY <1>11, GrantedOneLess DEF Raises
    <2>3. inFlight' = inFlight /\ refused' = refused
        BY <1>11 DEF Raises
    <2>4. QED
        BY <1>c, <1>d, <2>1, <2>2, <2>3 DEF Fitting, TypeOK
<1>12. CASE Raises("offshore")
    <2>1. Granted' = {}
        BY <1>0, <1>12, <1>c DEF Raises, Exclusive, Granted, TypeOK, Job
    <2>2. Cardinality(Granted') = 0
        BY <2>1, FS_EmptySet
    <2>3. pc'["offshore"] = "off"
        BY <1>12 DEF Raises, TypeOK, Job
    <2>4. inFlight' = inFlight /\ refused' = refused
        BY <1>12 DEF Raises
    <2>5. QED
        BY <1>c, <2>2, <2>3, <2>4 DEF Fitting, TypeOK
<1>13. QED
    BY <1>1, <1>2, <1>3, <1>4, <1>5, <1>6, <1>7, <1>8, <1>9, <1>10, <1>11, <1>12
    DEF Next, Offshore, Ask, Trace, Job

\* NeverRefused for every number of workers the margin is meant for:
\* wait_for_headroom's check and the creation after it, as two steps, keep the
\* account under Atlas's cap.
THEOREM HeadroomSuffices ==
    ASSUME WorkersFit
    PROVE  Spec => []NeverRefused
<1>1. TypeOK /\ Accounted /\ [Next]_vars => Accounted'
    BY StepAccounted
<1>2. Accounted => NeverRefused
    BY DEF Accounted, NeverRefused
<1>3. QED
    BY InitTypeOK, StepTypeOK, InitAccounted, <1>1, <1>2, PTL DEF Spec
-----------------------------------------------------------------------------
\* The rotation, which shares no state with the account.
LEMMA NightsAlone == MCSpec => Nights!Spec
<1>1. MCInit => Nights!Init
  BY DEF MCInit
<1>2. [MCNext]_mcVars => [Nights!Next]_(Nights!vars)
  BY DEF MCNext, AccountNext, NightNext, mcVars, nightVars, Nights!vars
<1> QED
  BY <1>1, <1>2, PTL DEF MCSpec, Nights!Spec

\* What waits in the queue is neither out on a parked retest nor done tonight.
StillToDo ==
    /\ queue \cap parked = {}
    /\ queue \cap tonight = {}

\* However the findings rank, what is parked is not due.
LEMMA DueIsNotParked == Nights!Due \cap parked = {}
BY DEF Nights!Due, Nights!Oldest

\* An outcome of a popped retest.
LEMMA PoppedIsDone ==
    ASSUME StillToDo, NEW f, Nights!Popped(f),
           parked' \subseteq parked \cup {f}, tonight' \subseteq tonight \cup {f}
    PROVE  StillToDo'
BY DEF StillToDo, Nights!Popped

\* A parked retest that is collected was not in the queue.
LEMMA CollectedWasOut ==
    ASSUME StillToDo, NEW f, Nights!Collected(f)
    PROVE  StillToDo'
BY DEF StillToDo, Nights!Collected

(***************************************************************************)
(* A finding is retested at most once a night, whatever was parked, left   *)
(* over from the last night, or staged while its retest was out.           *)
(***************************************************************************)
THEOREM NightlyRetestsAreOnce == MCSpec => RetestedOnceANight
<1>1. Nights!Init => StillToDo
  BY DEF Nights!Init, StillToDo
<1>2. ASSUME StillToDo, [Nights!Next]_(Nights!vars) PROVE StillToDo'
  <2>1. CASE Nights!Stage
    BY <2>1, DueIsNotParked DEF Nights!Stage, StillToDo
  <2>2. CASE Nights!StageFails
    BY <1>2, <2>2 DEF Nights!StageFails, StillToDo
  <2>3. CASE Nights!EndNight
    BY <1>2, <2>3 DEF Nights!EndNight, StillToDo
  <2>4. ASSUME NEW f \in Finding,
               \/ Nights!Skip(f) \/ Nights!NoVantage(f) \/ Nights!Answered(f)
               \/ Nights!Silent(f) \/ Nights!Park(f)
        PROVE  StillToDo'
    <3>1. Nights!Popped(f) /\ parked' \subseteq parked \cup {f} /\ tonight' \subseteq tonight \cup {f}
      BY <2>4 DEF Nights!Skip, Nights!NoVantage, Nights!Answered, Nights!Silent, Nights!Park, Nights!Retested
    <3> QED
      BY <1>2, <3>1, PoppedIsDone
  <2>5. ASSUME NEW f \in Finding, Nights!Settle(f) \/ Nights!Forget(f) PROVE StillToDo'
    <3>1. Nights!Collected(f)
      BY <2>5 DEF Nights!Settle, Nights!Forget
    <3> QED
      BY <1>2, <3>1, CollectedWasOut
  <2>6. ASSUME NEW f \in Finding, Nights!Corroborate(f) \/ Nights!File(f) PROVE StillToDo'
    BY <1>2, <2>6 DEF Nights!Corroborate, Nights!File, StillToDo
  <2>7. CASE UNCHANGED Nights!vars
    BY <1>2, <2>7 DEF Nights!vars, StillToDo
  <2> QED
    BY <1>2, <2>1, <2>2, <2>3, <2>4, <2>5, <2>6, <2>7 DEF Nights!Next, Nights!Fired
<1>3. StillToDo /\ [Nights!Next]_(Nights!vars) =>
        \A f \in Finding : f \in queue \ queue' /\ f \in tonight' => f \notin tonight
  BY DEF StillToDo
<1> QED
  BY <1>1, <1>2, <1>3, NightsAlone, PTL DEF Nights!Spec, RetestedOnceANight, Nights!RetestedOnceANight
==============================================================================
