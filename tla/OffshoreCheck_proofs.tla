------------------------ MODULE OffshoreCheck_proofs ------------------------
(***************************************************************************)
(* Proofs about OffshoreCheck, for any set of ASNs.                        *)
(***************************************************************************)
EXTENDS OffshoreCheck, TLAPS

Covered == run.untestable \cup DOMAIN run.verdict

\* What Record can rely on: a run on schedule is a full one exactly when one
\* is due, and covers only ASNs nobody has measured otherwise; a forced run
\* covers the registry.  Neither the registry nor the history changes meanwhile.
Scheduled ==
    run.at = "measured" =>
       /\ Covered \subseteq registry
       /\ run.untestable \cap DOMAIN run.verdict = {}
       /\ run.forced => registry \subseteq Covered
       /\ run.full /\ ~run.forced => lastFull # "recent"
       /\ ~run.full => ~run.forced /\ DOMAIN run.verdict \cap seen = {}

Shaped == DOMAIN run = DOMAIN Asleep

Owed ==
    /\ refused \subseteq registry
    /\ lastFull = "recent" => refused \cap seen = {}

(***************************************************************************)
(* What Atlas refused to measure on schedule is up again in the next run,  *)
(* whatever was forced, recorded or died in between.                       *)
(***************************************************************************)
THEOREM RefusedComesBack == Spec => []RefusedIsRetried
<1> DEFINE IInv == Shaped /\ Scheduled /\ Owed
<1>1. Init => IInv
  BY DEF Init, Shaped, Scheduled, Owed, Asleep
<1>2. IInv /\ [Next]_vars => IInv'
  <2> SUFFICES ASSUME IInv, [Next]_vars PROVE IInv'
    OBVIOUS
  <2> USE DEF Shaped, Scheduled, Owed, Covered
  <2>1. ASSUME NEW asns \in SUBSET registry, NEW full \in BOOLEAN, NEW forced \in BOOLEAN,
               Measure(asns, full, forced),
               forced => asns = registry,
               full /\ ~forced => lastFull # "recent",
               ~full => ~forced /\ asns \cap seen = {}
        PROVE  IInv'
    <3>1. PICK testable \in SUBSET asns :
             \E verdict \in [testable -> Verdict] :
             \E leads \in SUBSET (With(verdict, "no_response") \ Quarantined) :
                run' = [at |-> "measured", full |-> full, forced |-> forced,
                        untestable |-> asns \ testable, verdict |-> verdict, leads |-> leads,
                        new |-> NewOffshore(verdict), newLeads |-> NewScreenFlags(leads)]
      BY <2>1 DEF Measure
    <3>2. /\ run'.untestable = asns \ testable /\ DOMAIN run'.verdict = testable
          /\ run'.full = full /\ run'.forced = forced
          /\ DOMAIN run' = DOMAIN Asleep
      BY <3>1 DEF Asleep
    <3> QED
      BY <2>1, <3>2 DEF Measure
  <2>2. CASE Check
    <3>1. Measure(Planned, FullIsDue, FALSE)
      BY <2>2 DEF Check
    <3> QED
      BY <3>1, <2>1 DEF Planned, FullIsDue
  <2>3. CASE ForceFull
    BY <2>3, <2>1 DEF ForceFull
  <2>4. CASE Record
    <3>1. Unmeasured \subseteq DOMAIN run.verdict
      BY DEF Unmeasured, With
    <3>2. run'.at = "recorded" /\ DOMAIN run' = DOMAIN run
      BY <2>4 DEF Record, Asleep
    <3>3. CASE run.forced
      BY <2>4, <3>2, <3>3 DEF Record
    <3>4. CASE ~run.forced /\ run.full
      BY <2>4, <3>1, <3>2, <3>4 DEF Record, CountsAsFull
    <3>5. CASE ~run.forced /\ ~run.full
      BY <2>4, <3>1, <3>2, <3>5 DEF Record, CountsAsFull
    <3> QED
      BY <3>3, <3>4, <3>5
  <2>5. CASE Escalate \/ EscalateScreen \/ Die
    <3>1. run'.at # "measured" /\ DOMAIN run' = DOMAIN Asleep
      BY <2>5 DEF Escalate, EscalateScreen, Die, Asleep
    <3> QED
      BY <2>5, <3>1 DEF Escalate, EscalateScreen, Die
  <2>6. CASE MonthPasses
    BY <2>6 DEF MonthPasses
  <2>7. ASSUME NEW a \in Asn, Rediscover(a) PROVE IInv'
    BY <2>7 DEF Rediscover
  <2>8. CASE UNCHANGED vars
    BY <2>8 DEF vars
  <2> QED
    BY <2>2, <2>3, <2>4, <2>5, <2>6, <2>7, <2>8 DEF Next
<1>3. IInv => RefusedIsRetried
  BY DEF Owed, RefusedIsRetried, Planned, FullIsDue
<1> QED
  BY <1>1, <1>2, <1>3, PTL DEF Spec
-----------------------------------------------------------------------------
\* Whose flags the history and the run at hand account for.  What a run holds
\* new is new until it is recorded, and then untold until it is escalated.
Known ==
    /\ \A a \in Asn : told[<<"offshore", a>>] # 0 => a \in flagged
    /\ \A a \in Asn : told[<<"screen", a>>] # 0 => a \in screened

Fresh ==
    /\ run.at = "measured" =>
          /\ run.new = NewOffshore(run.verdict)
          /\ run.newLeads = NewScreenFlags(run.leads)
    /\ run.at = "recorded" =>
          /\ run.new \subseteq flagged
          /\ \A a \in Asn \cap run.new : told[<<"offshore", a>>] = 0
    /\ run.at \in {"recorded", "escalated"} =>
          /\ run.newLeads \subseteq screened
          /\ \A a \in Asn \cap run.newLeads : told[<<"screen", a>>] = 0

(***************************************************************************)
(* Nobody is escalated twice for the same reason: whatever is told is in   *)
(* the history, and what is in the history is not told again.              *)
(***************************************************************************)
THEOREM ToldOnce == Spec => []NeverToldTwice
<1> DEFINE Counted == told \in [Flag -> {0, 1}]
           IInv == Shaped /\ Counted /\ Known /\ Fresh
<1>1. Init => IInv
  <2> SUFFICES ASSUME Init PROVE IInv
    OBVIOUS
  <2>1. run = Asleep /\ told = [f \in Flag |-> 0]
    BY DEF Init
  <2>2. run.at = "asleep"
    BY <2>1 DEF Asleep
  <2> QED
    BY <2>1, <2>2 DEF Shaped, Known, Fresh, Flag
<1>2. IInv /\ [Next]_vars => IInv'
  <2> SUFFICES ASSUME IInv, [Next]_vars PROVE IInv'
    OBVIOUS
  <2>1. ASSUME NEW asns, NEW full, NEW forced, Measure(asns, full, forced) PROVE IInv'
    <3>1. PICK testable \in SUBSET asns :
             \E verdict \in [testable -> Verdict] :
             \E leads \in SUBSET (With(verdict, "no_response") \ Quarantined) :
                run' = [at |-> "measured", full |-> full, forced |-> forced,
                        untestable |-> asns \ testable, verdict |-> verdict, leads |-> leads,
                        new |-> NewOffshore(verdict), newLeads |-> NewScreenFlags(leads)]
      BY <2>1 DEF Measure
    <3>2. PICK verdict \in [testable -> Verdict] :
             \E leads \in SUBSET (With(verdict, "no_response") \ Quarantined) :
                run' = [at |-> "measured", full |-> full, forced |-> forced,
                        untestable |-> asns \ testable, verdict |-> verdict, leads |-> leads,
                        new |-> NewOffshore(verdict), newLeads |-> NewScreenFlags(leads)]
      BY <3>1
    <3>3. PICK leads : run' = [at |-> "measured", full |-> full, forced |-> forced,
                        untestable |-> asns \ testable, verdict |-> verdict, leads |-> leads,
                        new |-> NewOffshore(verdict), newLeads |-> NewScreenFlags(leads)]
      BY <3>2
    <3>4. UNCHANGED <<flagged, screened, told>>
      BY <2>1 DEF Measure
    <3>5. run'.at = "measured" /\ DOMAIN run' = DOMAIN Asleep
      BY <3>3 DEF Asleep
    <3>6. /\ run'.new = NewOffshore(run'.verdict)
          /\ run'.newLeads = NewScreenFlags(run'.leads)
      BY <3>3
    <3>7. /\ NewOffshore(run.verdict)' = NewOffshore(run'.verdict)
          /\ NewScreenFlags(run.leads)' = NewScreenFlags(run'.leads)
      BY <3>4 DEF NewOffshore, NewScreenFlags, With
    <3> QED
      BY <3>4, <3>5, <3>6, <3>7 DEF Shaped, Known, Fresh
  <2>2. CASE Record
    <3>1. /\ run'.at = "recorded" /\ DOMAIN run' = DOMAIN run
          /\ run'.new = run.new /\ run'.newLeads = run.newLeads
      BY <2>2 DEF Record, Shaped, Asleep
    <3>2. /\ flagged' = flagged \cup With(run.verdict, "offshore")
          /\ screened' = screened \cup run.leads
          /\ told' = told /\ run.at = "measured"
      BY <2>2 DEF Record
    <3>3. /\ run.new = With(run.verdict, "offshore") \ flagged
          /\ run.newLeads \subseteq run.leads \ screened
      BY <3>2 DEF Fresh, NewOffshore, NewScreenFlags
    <3>4. Known'
      BY <3>2 DEF Known
    <3>5. Fresh'
      BY <3>1, <3>2, <3>3 DEF Fresh, Known
    <3> QED
      BY <3>1, <3>2, <3>4, <3>5 DEF Shaped
  <2>3. CASE Escalate
    <3>1. /\ run'.at = "escalated" /\ DOMAIN run' = DOMAIN run
          /\ run'.newLeads = run.newLeads
      BY <2>3 DEF Escalate, Shaped, Asleep
    <3>2. run.at = "recorded" /\ UNCHANGED <<flagged, screened>>
      BY <2>3 DEF Escalate
    <3>3. \A f \in {"offshore"} \X run.new : f \in Flag => told[f] = 0
      BY <3>2 DEF Fresh, Flag
    <3>4. told' = [f \in Flag |-> IF f \in {"offshore"} \X run.new /\ told[f] < 2
                                  THEN told[f] + 1 ELSE told[f]]
      BY <2>3 DEF Escalate, Tell
    <3>5. told' = [f \in Flag |-> IF f \in {"offshore"} \X run.new THEN 1 ELSE told[f]]
      BY <3>3, <3>4
    <3>6. Counted'
      BY <3>5
    <3>7. /\ \A a \in Asn : told'[<<"offshore", a>>] # 0 => a \in flagged
          /\ \A a \in Asn : told'[<<"screen", a>>] = told[<<"screen", a>>]
      BY <3>2, <3>5 DEF Known, Fresh, Flag
    <3> QED
      BY <3>1, <3>2, <3>6, <3>7 DEF Shaped, Known, Fresh
  <2>4. CASE EscalateScreen
    <3>1. run' = Asleep /\ run.at = "escalated" /\ UNCHANGED <<flagged, screened>>
      BY <2>4 DEF EscalateScreen
    <3>2. run'.at = "asleep"
      BY <3>1 DEF Asleep
    <3>3. \A f \in {"screen"} \X run.newLeads : f \in Flag => told[f] = 0
      BY <3>1 DEF Fresh, Flag
    <3>4. told' = [f \in Flag |-> IF f \in {"screen"} \X run.newLeads /\ told[f] < 2
                                  THEN told[f] + 1 ELSE told[f]]
      BY <2>4 DEF EscalateScreen, Tell
    <3>5. told' = [f \in Flag |-> IF f \in {"screen"} \X run.newLeads THEN 1 ELSE told[f]]
      BY <3>3, <3>4
    <3>6. Counted'
      BY <3>5
    <3>7. Known'
      BY <3>1, <3>5 DEF Known, Fresh, Flag
    <3> QED
      BY <3>1, <3>2, <3>6, <3>7 DEF Shaped, Fresh
  <2>5. CASE Die
    <3>1. run' = Asleep /\ UNCHANGED <<flagged, screened, told>>
      BY <2>5 DEF Die
    <3>2. run'.at = "asleep"
      BY <3>1 DEF Asleep
    <3> QED
      BY <3>1, <3>2 DEF Shaped, Known, Fresh
  <2>6. ASSUME UNCHANGED <<flagged, screened, told, run>> PROVE IInv'
    BY <2>6 DEF Shaped, Known, Fresh, NewOffshore, NewScreenFlags, With
  <2>7. CASE Check \/ ForceFull
    BY <2>1, <2>7 DEF Check, ForceFull
  <2>8. CASE MonthPasses \/ (\E a \in Asn : Rediscover(a)) \/ UNCHANGED vars
    BY <2>6, <2>8 DEF MonthPasses, Rediscover, vars
  <2> QED
    BY <2>2, <2>3, <2>4, <2>5, <2>7, <2>8 DEF Next
<1>3. IInv => NeverToldTwice
  BY DEF NeverToldTwice
<1> QED
  BY <1>1, <1>2, <1>3, PTL DEF Spec
=============================================================================
