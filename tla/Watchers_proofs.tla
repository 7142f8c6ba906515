------------------------- MODULE Watchers_proofs -------------------------
(***************************************************************************)
(* Proofs about the watchers of MCWatchers, for any targets, probes,       *)
(* networks, prefixes and originators.  The fleet trace queue and the      *)
(* leasing check run by themselves (FleetAlone, LeasingAlone): what they   *)
(* promise is proved of their own specifications first.                    *)
(***************************************************************************)
EXTENDS MCWatchers, OffshoreCheck_proofs, WellFoundedInduction, SequenceTheorems

LEMMA FleetAlone == MCSpec => Fleet!Spec
<1>1. MCInit => Fleet!Init
  BY DEF MCInit
<1>2. [MCNext]_mcVars => [Fleet!Next]_(Fleet!vars)
  BY DEF MCNext, FleetNext, ProbeNext, OffshoreNext, LeasingNext, TestNext, TestsEnd, ReportNext,
         mcVars, fleetVars, Fleet!vars
<1> QED
  BY <1>1, <1>2, PTL DEF MCSpec, Fleet!Spec

LEMMA LeasingAlone == MCSpec => Leasing!Spec
<1>1. MCInit => Leasing!Init
  BY DEF MCInit
<1>2. [MCNext]_mcVars => [Leasing!Next]_(Leasing!vars)
  BY DEF MCNext, FleetNext, ProbeNext, OffshoreNext, LeasingNext, TestNext, TestsEnd, ReportNext,
         mcVars, leasingVars, Leasing!vars
<1> QED
  BY <1>1, <1>2, PTL DEF MCSpec, Leasing!Spec

LEMMA OffshoreAlone == MCSpec => Spec
<1>1. MCInit => Init
  BY DEF MCInit
<1>2. [MCNext]_mcVars => [Next]_vars
  BY DEF MCNext, FleetNext, ProbeNext, OffshoreNext, LeasingNext, TestNext, TestsEnd, ReportNext,
         mcVars, vars
<1> QED
  BY <1>1, <1>2, PTL DEF MCSpec, Spec
-----------------------------------------------------------------------------
\* What a run of the fleet trace holds: until it is done with a target, the
\* target is on one of its lists, if not late.
Held ==
    /\ DOMAIN tracing = DOMAIN Fleet!Asleep
    /\ tracing.at \in {"asleep", "firing", "collecting"}
    /\ tracing.at # "asleep" =>
         asked \subseteq tracing.todo \cup tracing.entry \cup tracing.remaining \cup reported \cup late
    /\ tracing.at = "firing" => tracing.entry = {}

(***************************************************************************)
(* A target leaves the fleet trace queue only with its section in the      *)
(* report, or because it was queued during a run.                          *)
(***************************************************************************)
THEOREM QueueIsReported == Fleet!Spec => []LeavesQueueReported
<1> USE DEF LeavesQueueReported, Fleet!LeavesQueueReported, Held
<1> DEFINE IInv == Held /\ LeavesQueueReported
<1>1. Fleet!Init => IInv
  BY DEF Fleet!Init, Fleet!Asleep
<1>2. IInv /\ [Fleet!Next]_(Fleet!vars) => IInv'
  <2> SUFFICES ASSUME IInv, [Fleet!Next]_(Fleet!vars) PROVE IInv'
    OBVIOUS
  <2>1. ASSUME NEW t \in Target, Fleet!Enqueue(t) PROVE IInv'
    BY <2>1 DEF Fleet!Enqueue
  <2>2. ASSUME NEW t \in Target, Fleet!NotFired(t) PROVE IInv'
    BY <2>2 DEF Fleet!NotFired, Fleet!Asleep
  <2>3. ASSUME NEW t \in Target, Fleet!Fire(t) PROVE IInv'
    BY <2>3 DEF Fleet!Fire, Fleet!Asleep
  <2>4. CASE Fleet!Start
    BY <2>4 DEF Fleet!Start, Fleet!Asleep
  <2>5. CASE Fleet!Report
    BY <2>5 DEF Fleet!Report, Fleet!Asleep
  <2>6. CASE Fleet!Save
    BY <2>6 DEF Fleet!Save, Fleet!Asleep
  <2>7. CASE Fleet!Die
    BY <2>7 DEF Fleet!Die, Fleet!Asleep
  <2>8. CASE UNCHANGED Fleet!vars
    BY <2>8 DEF Fleet!vars
  <2> QED
    BY <2>1, <2>2, <2>3, <2>4, <2>5, <2>6, <2>7, <2>8 DEF Fleet!Next
<1> QED
  BY <1>1, <1>2, PTL DEF Fleet!Spec
-----------------------------------------------------------------------------
\* Whose flags the leasing check's history and its run account for: what is
\* told is in the history, what a run found new was not when it looked and is
\* untold until it is escalated.
Accounted ==
    /\ DOMAIN scanning = DOMAIN Leasing!Asleep
    /\ leaseTold \in [Asn \X Prefix -> {0, 1}]
    /\ \A f \in Asn \X Prefix : leaseTold[f] # 0 => f \in leased
    /\ scanning.at = "scanned" =>
         scanning.fresh = Leasing!NewFlags(scanning.asns, scanning.result)
    /\ scanning.at = "recorded" =>
         /\ scanning.fresh \subseteq leased
         /\ \A f \in scanning.fresh \cap (Asn \X Prefix) : leaseTold[f] = 0

(***************************************************************************)
(* No marker is escalated twice by the leasing check.                      *)
(***************************************************************************)
LEMMA MarkersToldOnce == Leasing!Spec => []Leasing!NeverToldTwice
<1> USE DEF Leasing!Asleep
<1>1. Leasing!Init => Accounted
  BY DEF Leasing!Init, Accounted
<1>2. Accounted /\ [Leasing!Next]_(Leasing!vars) => Accounted'
  <2> SUFFICES ASSUME Accounted, [Leasing!Next]_(Leasing!vars) PROVE Accounted'
    OBVIOUS
  <2>1. ASSUME NEW asns, NEW full, NEW forced, Leasing!Scan(asns, full, forced) PROVE Accounted'
    <3>1. PICK result : scanning' = [at |-> "scanned", full |-> full, forced |-> forced, asns |-> asns,
                  result |-> result, fresh |-> Leasing!NewFlags(asns, result)]
      BY <2>1 DEF Leasing!Scan
    <3>2. leased' = leased /\ leaseTold' = leaseTold
      BY <2>1 DEF Leasing!Scan
    <3>3. /\ scanning'.at = "scanned" /\ DOMAIN scanning' = DOMAIN Leasing!Asleep
          /\ scanning'.fresh = Leasing!NewFlags(scanning'.asns, scanning'.result)
      BY <3>1
    <3>4. Leasing!NewFlags(scanning'.asns, scanning'.result) = Leasing!NewFlags(scanning.asns, scanning.result)'
      BY <3>2 DEF Leasing!NewFlags, Leasing!FlagKeys, Leasing!With, Leasing!Holder
    <3> QED
      BY <3>2, <3>3, <3>4 DEF Accounted
  <2>2. CASE Leasing!Record
    <3>1. /\ scanning.at = "scanned" /\ leaseTold' = leaseTold
          /\ leased' = leased \cup Leasing!FlagKeys(scanning.asns, scanning.result)
          /\ scanning' = [scanning EXCEPT !.at = "recorded"]
      BY <2>2 DEF Leasing!Record
    <3>2. scanning'.at = "recorded" /\ scanning'.fresh = scanning.fresh /\ DOMAIN scanning' = DOMAIN scanning
      BY <3>1 DEF Accounted
    <3>3. scanning.fresh = Leasing!FlagKeys(scanning.asns, scanning.result) \ leased
      BY <3>1 DEF Accounted, Leasing!NewFlags
    <3> QED
      BY <3>1, <3>2, <3>3 DEF Accounted
  <2>3. CASE Leasing!Escalate
    <3>1. /\ scanning.at = "recorded" /\ scanning' = Leasing!Asleep /\ leased' = leased
          /\ leaseTold' = [f \in DOMAIN leaseTold |->
                 IF f \in scanning.fresh /\ leaseTold[f] < 2 THEN leaseTold[f] + 1 ELSE leaseTold[f]]
      BY <2>3 DEF Leasing!Escalate
    <3>2. DOMAIN leaseTold = Asn \X Prefix
      BY DEF Accounted
    <3>3. \A f \in Asn \X Prefix : f \in scanning.fresh => leaseTold[f] = 0 /\ f \in leased
      BY <3>1 DEF Accounted
    <3>4. leaseTold' = [f \in Asn \X Prefix |-> IF f \in scanning.fresh THEN 1 ELSE leaseTold[f]]
      BY <3>1, <3>2, <3>3
    <3> QED
      BY <3>1, <3>3, <3>4 DEF Accounted
  <2>4. CASE Leasing!Die
    BY <2>4 DEF Leasing!Die, Accounted
  <2>5. ASSUME UNCHANGED <<leased, leaseTold, scanning>> PROVE Accounted'
    <3>1. Leasing!NewFlags(scanning.asns, scanning.result)' = Leasing!NewFlags(scanning.asns, scanning.result)
      BY <2>5 DEF Leasing!NewFlags, Leasing!FlagKeys, Leasing!With, Leasing!Holder
    <3> QED
      BY <2>5, <3>1 DEF Accounted
  <2>6. CASE Leasing!Check \/ Leasing!ForceFull
    BY <2>6, <2>1 DEF Leasing!Check, Leasing!ForceFull
  <2> QED
    BY <2>2, <2>3, <2>4, <2>5, <2>6 DEF Leasing!Next, Leasing!MonthPasses, Leasing!Rediscover, Leasing!vars
<1>3. Accounted => Leasing!NeverToldTwice
  BY DEF Accounted, Leasing!NeverToldTwice
<1> QED
  BY <1>1, <1>2, <1>3, PTL DEF Leasing!Spec
-----------------------------------------------------------------------------
Snapshots ==
    {Tests!Snapshot(listed, traces, fired) :
        listed \in [Probe -> {"own", None}],
        traces \in [Probe -> [Tests!Role -> Tests!Trace \cup {None}]],
        fired \in Tests!FiredOf(Tests!Role)}

\* A snapshot says of each probe it covers what its two traces come to.
LEMMA VerdictsOfProbes ==
    ASSUME NEW snap \in Snapshots, NEW p \in DOMAIN snap
    PROVE  p \in Probe /\ snap[p] \in Tests!Verdicts
<1>1. PICK listed \in [Probe -> {"own", None}], traces \in [Probe -> [Tests!Role -> Tests!Trace \cup {None}]],
           fired \in Tests!FiredOf(Tests!Role) : snap = Tests!Snapshot(listed, traces, fired)
  BY DEF Snapshots
<1> DEFINE Of(role) == IF role \in fired THEN traces[p][role] ELSE None
<1>2. p \in Probe /\ snap[p] = Tests!classify_probe(Of("valid"), Of("invalid"), listed[p])
  BY <1>1 DEF Tests!Snapshot, Tests!probes_for_af
<1>3. "valid" \in Tests!Role /\ "invalid" \in Tests!Role
  BY DEF Tests!Role
<1>4. traces[p] \in [Tests!Role -> Tests!Trace \cup {None}]
  BY <1>2
<1>5. Of("valid") \in Tests!Trace \cup {None} /\ Of("invalid") \in Tests!Trace \cup {None}
  BY <1>3, <1>4
<1> HIDE DEF Of
<1> QED
  BY <1>2, <1>5 DEF Tests!Verdicts

\* What the report is about to say is what the latest week differs in from the
\* ones before.
WeekCompared ==
    /\ rov \in Seq(Snapshots)
    /\ rovNews # None =>
         \E weeks \in Seq(Snapshots), snap \in Snapshots :
            rov = <<snap>> \o weeks /\ rovNews = Tests!diff_snapshots(weeks, snap)

LEMMA WeeksAreCompared ==
    (Tests!Init => WeekCompared) /\ (WeekCompared /\ [MCNext]_mcVars => WeekCompared')
<1>1. Tests!Init => WeekCompared
  BY DEF Tests!Init, WeekCompared
<1>2. ASSUME WeekCompared, [MCNext]_mcVars PROVE WeekCompared'
  <2>1. CASE Tests!TestRoutes
    <3>1. PICK listed \in [Probe -> {"own", None}], traces \in [Probe -> [Tests!Role -> Tests!Trace \cup {None}]],
              fired \in Tests!FiredOf(Tests!Role) : Tests!RunTest(listed, traces, fired)
      BY <2>1 DEF Tests!TestRoutes
    <3>2. PICK snap : /\ snap = Tests!Snapshot(listed, traces, fired)
                      /\ rov' = <<snap>> \o rov /\ rovNews' = Tests!diff_snapshots(rov, snap)
      BY <3>1 DEF Tests!RunTest
    <3>3. snap \in Snapshots
      <4>1. \E l \in [Probe -> {"own", None}], t \in [Probe -> [Tests!Role -> Tests!Trace \cup {None}]],
               f \in Tests!FiredOf(Tests!Role) : snap = Tests!Snapshot(l, t, f)
        BY <3>1, <3>2
      <4> QED
        BY <4>1 DEF Snapshots
    <3>4. <<snap>> \o rov \in Seq(Snapshots)
      BY <1>2, <3>3 DEF WeekCompared
    <3> QED
      BY <1>2, <3>2, <3>3, <3>4 DEF WeekCompared
  <2>2. CASE rov' = rov /\ rovNews' = None
    BY <1>2, <2>2 DEF WeekCompared
  <2>3. CASE rov' = rov /\ rovNews' = rovNews
    BY <1>2, <2>3 DEF WeekCompared
  <2> QED
    BY <1>2, <2>1, <2>2, <2>3
       DEF MCNext, FleetNext, ProbeNext, OffshoreNext, LeasingNext, TestNext, TestsEnd, ReportNext, mcVars,
           testVars, Tests!WriteReport, Tests!Die, Tests!CheckFleet, Tests!RunCheck, Tests!fleetVars, Tests!rovVars
<1> QED
  BY <1>1, <1>2

\* A nonempty set of naturals has a least member.
Below == {ss \in Nat \X Nat : ss[1] < ss[2]}
LEMMA LeastOf == ASSUME NEW T \in SUBSET Nat, T # {} PROVE \E k \in T : \A j \in T : k <= j
<1>1. IsWellFoundedOn(Below, Nat)
  BY NatLessThanWellFounded DEF OpToRel, Below
<1>2. PICK k \in T : \A j \in T : <<j, k>> \notin Below
  BY <1>1, WFMin
<1>3. ASSUME NEW j \in T PROVE k <= j
  <2>1. k \in Nat /\ j \in Nat /\ <<j, k>> \notin Below
    BY <1>2
  <2>2. <<j, k>> \in Nat \X Nat /\ <<j, k>>[1] = j /\ <<j, k>>[2] = k
    BY <2>1
  <2>3. ~ (j < k)
    BY <2>1, <2>2 DEF Below
  <2> QED
    BY <2>1, <2>3
<1> QED
  BY <1>3

\* The weeks before with a verdict of the probe by the carrier it leaves by now.
Same(weeks, p, now) ==
    {k \in DOMAIN weeks : Tests!Conclusive(weeks[k], p) /\ weeks[k][p].exit = now.exit}

\* Where the probe left by somebody last week, the baseline is the newest
\* verdict by the same carrier, if there is one.
LEMMA NewestIsBaseline ==
    ASSUME NEW weeks \in Seq(Snapshots), NEW p, NEW now, now.exit # None,
           ~(p \in DOMAIN weeks[1] /\ weeks[1][p].exit = None)
    PROVE  /\ Same(weeks, p, now) = {} => Tests!Baseline(weeks, p, now) = None
           /\ \A k \in Same(weeks, p, now) :
                (\A j \in Same(weeks, p, now) : k <= j)
                   => Tests!Baseline(weeks, p, now) = weeks[k][p] /\ weeks[k][p] # None
<1> DEFINE same == Same(weeks, p, now)
<1>1. Tests!Baseline(weeks, p, now) =
        IF same = {} THEN None ELSE weeks[CHOOSE k \in same : \A j \in same : k <= j][p]
  BY DEF Tests!Baseline, Same
<1>2. same \subseteq 1..Len(weeks)
  BY DEF Same
<1>3. ASSUME NEW k \in same, \A j \in same : k <= j
      PROVE  Tests!Baseline(weeks, p, now) = weeks[k][p] /\ weeks[k][p] # None
  <2>1. \A l \in same : (\A j \in same : l <= j) => l = k
    BY <1>2, <1>3
  <2>2. (CHOOSE l \in same : \A j \in same : l <= j) = k
    BY <1>3, <2>1
  <2>3. k \in DOMAIN weeks /\ p \in DOMAIN weeks[k]
    BY DEF Same, Tests!Conclusive
  <2>4. weeks[k] \in Snapshots
    BY <2>3
  <2>5. weeks[k][p] \in Tests!Verdicts
    BY <2>3, <2>4, VerdictsOfProbes
  <2> QED
    BY <1>1, <2>2, <2>5, NoneIsNothing
<1> QED
  BY <1>1, <1>3

LEMMA ComparedIsNews == WeekCompared => Tests!CarrierChangesAreNews
<1> SUFFICES ASSUME WeekCompared, rovNews # None, NEW p \in DOMAIN rov[1], rov[1][p].exit # None
    PROVE  /\ \A k \in 2..Len(rov) : Tests!Successive(p, k) /\ ~Tests!LeftByNobody(p)
                => (p \in rovNews <=> Tests!Differs(rov[k][p], rov[1][p]))
           /\ p \in rovNews => Tests!LeftByNobody(p) \/ \E k \in 2..Len(rov) : Tests!Successive(p, k)
  BY DEF Tests!CarrierChangesAreNews
<1>1. PICK weeks \in Seq(Snapshots), snap \in Snapshots :
         rov = <<snap>> \o weeks /\ rovNews = Tests!diff_snapshots(weeks, snap)
  BY DEF WeekCompared
<1> DEFINE now == snap[p]
           same == Same(weeks, p, now)
<1>2. /\ rov[1] = snap /\ Len(rov) = Len(weeks) + 1 /\ Len(weeks) \in Nat
      /\ DOMAIN weeks = 1..Len(weeks)
      /\ \A k \in 1..Len(weeks) : rov[k + 1] = weeks[k]
  BY <1>1
<1>3. p \in DOMAIN snap /\ now.exit # None
  BY <1>2
<1>4. p \in rovNews <=> /\ weeks # <<>> /\ Tests!Conclusive(snap, p)
                        /\ Tests!Baseline(weeks, p, now) # None
                        /\ Tests!Differs(Tests!Baseline(weeks, p, now), now)
  BY <1>1, <1>3 DEF Tests!diff_snapshots
<1>5. ASSUME ~Tests!LeftByNobody(p), weeks # <<>> PROVE ~(p \in DOMAIN weeks[1] /\ weeks[1][p].exit = None)
  <2>1. Len(rov) > 1 /\ rov[2] = weeks[1]
    BY <1>1, <1>2, <1>5
  <2> QED
    BY <1>5, <2>1 DEF Tests!LeftByNobody
<1>6. same \subseteq 1..Len(weeks)
  BY <1>2 DEF Same
<1>7. ASSUME NEW k \in 2..Len(rov)
      PROVE  Tests!Successive(p, k) <=>
               Tests!Conclusive(snap, p) /\ k - 1 \in same /\ \A j \in same : k - 1 <= j
  <2>1. k - 1 \in 1..Len(weeks) /\ rov[k] = weeks[k - 1]
    BY <1>2
  <2>2. k - 1 \in same <=> Tests!Conclusive(rov[k], p) /\ rov[1][p].exit = rov[k][p].exit
    BY <1>2, <2>1 DEF Same
  <2>3. ASSUME k - 1 \in same
        PROVE  (\A j \in 2..(k - 1) : ~(Tests!Conclusive(rov[j], p) /\ rov[j][p].exit = rov[1][p].exit))
                  <=> \A j \in same : k - 1 <= j
    <3>1. \A j \in 2..(k - 1) : /\ j - 1 \in 1..Len(weeks) /\ rov[j] = weeks[j - 1]
      BY <1>2
    <3>2. \A j \in 2..(k - 1) :
             (Tests!Conclusive(rov[j], p) /\ rov[j][p].exit = rov[1][p].exit) <=> j - 1 \in same
      BY <1>2, <3>1 DEF Same
    <3>3. ASSUME \A j \in 2..(k - 1) : j - 1 \notin same, NEW j \in same PROVE k - 1 <= j
      <4>1. j \in 1..Len(weeks) /\ (j < k - 1 => j + 1 \in 2..(k - 1))
        BY <1>6
      <4>2. j + 1 - 1 = j
        BY <4>1
      <4> QED
        BY <3>3, <4>1, <4>2
    <3>4. ASSUME \A j \in same : k - 1 <= j, NEW j \in 2..(k - 1) PROVE j - 1 \notin same
      BY <3>4
    <3> QED
      BY <3>2, <3>3, <3>4
  <2> QED
    BY <1>2, <1>3, <2>2, <2>3 DEF Tests!Successive
<1>8. ASSUME NEW k \in 2..Len(rov), Tests!Successive(p, k), ~Tests!LeftByNobody(p)
      PROVE  p \in rovNews <=> Tests!Differs(rov[k][p], rov[1][p])
  <2>1. k - 1 \in same /\ (\A j \in same : k - 1 <= j) /\ Tests!Conclusive(snap, p)
    BY <1>7, <1>8
  <2>2. weeks # <<>> /\ rov[k] = weeks[k - 1]
    BY <1>2, <1>6, <2>1
  <2>3. Tests!Baseline(weeks, p, now) = weeks[k - 1][p] /\ weeks[k - 1][p] # None
    BY <1>3, <1>5, <1>8, <2>1, <2>2, NewestIsBaseline
  <2> QED
    BY <1>2, <1>4, <2>1, <2>2, <2>3
<1>9. ASSUME p \in rovNews, ~Tests!LeftByNobody(p) PROVE \E k \in 2..Len(rov) : Tests!Successive(p, k)
  <2>1. weeks # <<>> /\ Tests!Conclusive(snap, p) /\ Tests!Baseline(weeks, p, now) # None
    BY <1>4, <1>9
  <2>2. same # {}
    BY <1>3, <1>5, <1>9, <2>1, NewestIsBaseline
  <2>3. PICK k \in same : \A j \in same : k <= j
    BY <1>6, <2>2, LeastOf
  <2>4. k + 1 \in 2..Len(rov) /\ (k + 1) - 1 = k
    BY <1>2, <1>6
  <2> QED
    BY <1>7, <2>1, <2>3, <2>4
<1> QED
  BY <1>8, <1>9

(***************************************************************************)
(* News is told once: no marker is escalated twice, and a carrier's change *)
(* of filtering is in the report of the week it shows and in no other,     *)
(* whatever the probe did in between.                                      *)
(***************************************************************************)
THEOREM NewsOnce == MCSpec => []NewsIsToldOnce
<1>1. MCInit => Tests!Init
  BY DEF MCInit
<1>2. MCSpec => []WeekCompared
  BY <1>1, WeeksAreCompared, PTL DEF MCSpec
<1>3. MCSpec => []Tests!CarrierChangesAreNews
  BY <1>2, ComparedIsNews, PTL
<1>4. MCSpec => []Leasing!NeverToldTwice
  BY LeasingAlone, MarkersToldOnce, PTL
<1>5. Leasing!NeverToldTwice /\ Tests!CarrierChangesAreNews => NewsIsToldOnce
  BY DEF NewsIsToldOnce
<1> QED
  BY <1>3, <1>4, <1>5, PTL
-----------------------------------------------------------------------------
\* What a run of the probe watch holds until it is done: what it traced is
\* listed, and vouched for; the rest of what needs a trace stays pending; and
\* every move is among the blocks, which are told before the snapshot.
Underway ==
    watching.at # "asleep" =>
      /\ watching.pending = Ordinary!NeedsTrace \ DOMAIN watching.traced
      /\ \A p \in DOMAIN watching.traced : listing[p].net \in vouched[p]
      /\ Ordinary!MoveBlocks \subseteq watching.blocks
      /\ job = "BOLO watch" => Wanted!BoloBlocks \subseteq watching.blocks

Probed ==
    /\ DOMAIN watching = DOMAIN Ordinary!Asleep
    /\ watching.at \in {"asleep", "traced", "recorded", "escalated"}
    /\ listing \in [Probe -> Ordinary!State]
    /\ snapshot.probes \in [Probe -> Ordinary!State]
    /\ snapshot.taken \in BOOLEAN
    /\ Underway
    /\ watching.at = "escalated" => watching.blocks \subseteq escalated

\* The actions that do not look at the probes to be on the look-out for.
Plain ==
    \/ Ordinary!AppendHistory \/ Ordinary!Escalate \/ Ordinary!WriteSnapshot \/ Ordinary!Die
    \/ \E p \in Probe : Ordinary!Relist(p)

\* Tonight's traces: resolved is what there is a result for.
Traced(resolved) ==
    /\ watching.at = "asleep" /\ watching'.at = "traced"
    /\ DOMAIN watching' = DOMAIN Ordinary!Asleep
    /\ resolved \subseteq Probe
    /\ DOMAIN watching'.traced = resolved
    /\ watching'.pending = Ordinary!NeedsTrace \ resolved
    /\ Ordinary!MoveBlocks \subseteq watching'.blocks
    /\ job = "BOLO watch" => Wanted!BoloBlocks \subseteq watching'.blocks
    /\ vouched' = [p \in Probe |-> IF p \in resolved THEN vouched[p] \cup {listing[p].net} ELSE vouched[p]]
    /\ UNCHANGED <<job, listing, snapshot, egress, escalated>>

LEMMA ProbeSteps ==
    [MCNext]_mcVars =>
      \/ Plain /\ UNCHANGED job
      \/ \E resolved : Traced(resolved)
      \/ UNCHANGED <<job, listing, snapshot, egress, escalated, vouched, watching>>
<1> SUFFICES ASSUME [MCNext]_mcVars,
                    ~ UNCHANGED <<job, listing, snapshot, egress, escalated, vouched, watching>>
             PROVE  (Plain /\ UNCHANGED job) \/ \E resolved : Traced(resolved)
  OBVIOUS
<1>1. /\ UNCHANGED job
      /\ (job = "probe watch" /\ Ordinary!Next) \/ (job = "BOLO watch" /\ Wanted!Next)
  BY DEF MCNext, FleetNext, ProbeNext, OffshoreNext, LeasingNext, TestNext, TestsEnd, ReportNext, mcVars, probeVars
<1>2. ASSUME NEW weekly, job = "probe watch", Ordinary!Watch(weekly) PROVE \E resolved : Traced(resolved)
  <2> DEFINE toTrace == (Ordinary!NeedsTrace \cap Ordinary!Connected) \cup (IF weekly THEN Ordinary!OnWatch ELSE {})
  <2>1. PICK resolved \in SUBSET toTrace : \E traced \in [resolved -> Ordinary!Hop] :
             watching' = [at |-> "traced", traced |-> traced, pending |-> Ordinary!NeedsTrace \ resolved,
                     blocks |-> Ordinary!MoveBlocks \cup Ordinary!BoloBlocks \cup Ordinary!TraceBlocks(traced)]
    BY <1>2 DEF Ordinary!Watch
  <2>2. PICK traced \in [resolved -> Ordinary!Hop] :
             watching' = [at |-> "traced", traced |-> traced, pending |-> Ordinary!NeedsTrace \ resolved,
                     blocks |-> Ordinary!MoveBlocks \cup Ordinary!BoloBlocks \cup Ordinary!TraceBlocks(traced)]
    BY <2>1
  <2>3. resolved \subseteq Probe
    BY DEF Ordinary!NeedsTrace, Ordinary!Current, Ordinary!Live, Ordinary!OnWatch, Ordinary!Connected
  <2>4. /\ watching'.at = "traced" /\ watching'.traced = traced
        /\ watching'.pending = Ordinary!NeedsTrace \ resolved
        /\ Ordinary!MoveBlocks \subseteq watching'.blocks
        /\ DOMAIN watching' = DOMAIN Ordinary!Asleep
    BY <2>2 DEF Ordinary!Asleep
  <2>5. vouched' = [p \in Probe |-> IF p \in DOMAIN watching'.traced THEN vouched[p] \cup {listing[p].net} ELSE vouched[p]]
    BY <1>2 DEF Ordinary!Watch
  <2>6. watching.at = "asleep" /\ UNCHANGED <<listing, snapshot, egress, escalated>>
    BY <1>2 DEF Ordinary!Watch
  <2> HIDE DEF toTrace
  <2>7. DOMAIN watching'.traced = resolved
    BY <2>4
  <2> QED
    BY <1>1, <1>2, <2>3, <2>4, <2>5, <2>6, <2>7 DEF Traced
<1>3. ASSUME NEW weekly, job = "BOLO watch", Wanted!Watch(weekly) PROVE \E resolved : Traced(resolved)
  <2> DEFINE toTrace == (Wanted!NeedsTrace \cap Wanted!Connected) \cup (IF weekly THEN Wanted!OnWatch ELSE {})
  <2>1. PICK resolved \in SUBSET toTrace : \E traced \in [resolved -> Wanted!Hop] :
             watching' = [at |-> "traced", traced |-> traced, pending |-> Wanted!NeedsTrace \ resolved,
                     blocks |-> Wanted!MoveBlocks \cup Wanted!BoloBlocks \cup Wanted!TraceBlocks(traced)]
    BY <1>3 DEF Wanted!Watch
  <2>2. PICK traced \in [resolved -> Wanted!Hop] :
             watching' = [at |-> "traced", traced |-> traced, pending |-> Wanted!NeedsTrace \ resolved,
                     blocks |-> Wanted!MoveBlocks \cup Wanted!BoloBlocks \cup Wanted!TraceBlocks(traced)]
    BY <2>1
  <2>3. resolved \subseteq Probe
    BY DEF Wanted!NeedsTrace, Wanted!Current, Wanted!Live, Wanted!OnWatch, Wanted!Connected
  <2>4. /\ watching'.at = "traced" /\ watching'.traced = traced
        /\ watching'.pending = Wanted!NeedsTrace \ resolved
        /\ Wanted!MoveBlocks \subseteq watching'.blocks
        /\ Wanted!BoloBlocks \subseteq watching'.blocks
        /\ DOMAIN watching' = DOMAIN Wanted!Asleep
    BY <2>2 DEF Wanted!Asleep
  <2>5. vouched' = [p \in Probe |-> IF p \in DOMAIN watching'.traced THEN vouched[p] \cup {listing[p].net} ELSE vouched[p]]
    BY <1>3 DEF Wanted!Watch
  <2>6. watching.at = "asleep" /\ UNCHANGED <<listing, snapshot, egress, escalated>>
    BY <1>3 DEF Wanted!Watch
  <2> HIDE DEF toTrace
  <2>7. DOMAIN watching'.traced = resolved
    BY <2>4
  <2>8. Wanted!NeedsTrace = Ordinary!NeedsTrace
    BY DEF Wanted!NeedsTrace, Wanted!Changed, Wanted!NewlyTracked, Wanted!Current, Wanted!Previous, Wanted!Live,
           Wanted!Gone, Ordinary!NeedsTrace, Ordinary!Changed, Ordinary!NewlyTracked, Ordinary!Current,
           Ordinary!Previous, Ordinary!Live, Ordinary!Gone
  <2>9. Wanted!MoveBlocks = Ordinary!MoveBlocks
    BY DEF Wanted!MoveBlocks, Wanted!Changed, Wanted!Current, Wanted!Previous, Wanted!Live, Wanted!Gone, Wanted!Block,
           Ordinary!MoveBlocks, Ordinary!Changed, Ordinary!Current, Ordinary!Previous, Ordinary!Live, Ordinary!Gone,
           Ordinary!Block
  <2>10. Wanted!Asleep = Ordinary!Asleep
    BY DEF Wanted!Asleep, Ordinary!Asleep
  <2> QED
    BY <1>1, <1>3, <2>3, <2>4, <2>5, <2>6, <2>7, <2>8, <2>9, <2>10 DEF Traced
<1>4. Wanted!Next => Plain \/ \E weekly \in BOOLEAN : Wanted!Watch(weekly)
  BY DEF Plain, Wanted!Next, Wanted!AppendHistory, Wanted!Escalate, Wanted!WriteSnapshot, Wanted!Die, Wanted!Relist,
         Wanted!Asleep, Wanted!State, Wanted!Gone, Wanted!Status,
         Ordinary!AppendHistory, Ordinary!Escalate, Ordinary!WriteSnapshot, Ordinary!Die, Ordinary!Relist,
         Ordinary!Asleep, Ordinary!State, Ordinary!Gone, Ordinary!Status
<1>5. Ordinary!Next => Plain \/ \E weekly \in BOOLEAN : Ordinary!Watch(weekly)
  BY DEF Plain, Ordinary!Next
<1> QED
  BY <1>1, <1>2, <1>3, <1>4, <1>5

\* What Underway speaks of depends on the listing and the snapshot.
LEMMA SameComparison ==
    UNCHANGED <<listing, snapshot>> =>
      /\ Ordinary!NeedsTrace' = Ordinary!NeedsTrace
      /\ Ordinary!MoveBlocks' = Ordinary!MoveBlocks
      /\ Wanted!BoloBlocks' = Wanted!BoloBlocks
BY DEF Ordinary!NeedsTrace, Ordinary!MoveBlocks, Ordinary!Changed, Ordinary!NewlyTracked, Ordinary!Current,
       Ordinary!Previous, Ordinary!Live, Wanted!BoloBlocks, Wanted!NewlyTracked, Wanted!Current,
       Wanted!Previous, Wanted!Live

LEMMA ProbesAreWatched ==
    (Ordinary!Init => Probed) /\ (Probed /\ [MCNext]_mcVars => Probed')
<1>1. Ordinary!Init => Probed
  <2> SUFFICES ASSUME Ordinary!Init PROVE Probed
    OBVIOUS
  <2>1. watching = Ordinary!Asleep /\ snapshot = Ordinary!NoSnapshot /\ listing \in [Probe -> Ordinary!State]
    BY DEF Ordinary!Init
  <2>2. watching.at = "asleep" /\ DOMAIN watching = DOMAIN Ordinary!Asleep
    BY <2>1 DEF Ordinary!Asleep
  <2>3. snapshot.taken = FALSE /\ snapshot.probes \in [Probe -> Ordinary!State]
    BY <2>1 DEF Ordinary!NoSnapshot, Ordinary!State
  <2> QED
    BY <2>1, <2>2, <2>3 DEF Probed, Underway
<1>2. ASSUME Probed, [MCNext]_mcVars PROVE Probed'
  <2>1. ASSUME NEW resolved, Traced(resolved) PROVE Probed'
    <3>1. UNCHANGED <<job, listing, snapshot, escalated>> /\ watching'.at = "traced"
      BY <2>1 DEF Traced
    <3>2. Underway'
      <4>1. watching'.pending = Ordinary!NeedsTrace' \ DOMAIN watching'.traced
        BY <2>1, <3>1, SameComparison DEF Traced
      <4>2. \A p \in DOMAIN watching'.traced : listing'[p].net \in vouched'[p]
        BY <2>1, <3>1 DEF Traced
      <4>3. /\ Ordinary!MoveBlocks' \subseteq watching'.blocks
            /\ job' = "BOLO watch" => Wanted!BoloBlocks' \subseteq watching'.blocks
        BY <2>1, <3>1, SameComparison DEF Traced
      <4> QED
        BY <4>1, <4>2, <4>3 DEF Underway
    <3> QED
      BY <1>2, <2>1, <3>1, <3>2 DEF Probed, Traced
  <2>2. ASSUME UNCHANGED <<job, listing, snapshot, vouched>>,
               DOMAIN watching' = DOMAIN watching,
               \/ watching'.at = "asleep"
               \/ /\ watching.at # "asleep" /\ watching'.at \in {"traced", "recorded", "escalated"}
                  /\ watching'.pending = watching.pending /\ watching'.traced = watching.traced
                  /\ watching'.blocks = watching.blocks,
               watching'.at = "escalated" => watching'.blocks \subseteq escalated'
        PROVE  Probed'
    <3>1. Underway'
      BY <1>2, <2>2, SameComparison DEF Probed, Underway
    <3> QED
      BY <1>2, <2>2, <3>1 DEF Probed
  <2>3. CASE Ordinary!AppendHistory /\ UNCHANGED job
    BY <1>2, <2>2, <2>3 DEF Ordinary!AppendHistory, Probed, Ordinary!Asleep
  <2>4. CASE Ordinary!Escalate /\ UNCHANGED job
    BY <1>2, <2>2, <2>4 DEF Ordinary!Escalate, Probed, Ordinary!Asleep
  <2>5. CASE Ordinary!Die /\ UNCHANGED job
    BY <1>2, <2>2, <2>5 DEF Ordinary!Die, Probed, Ordinary!Asleep
  <2>6. CASE Ordinary!WriteSnapshot /\ UNCHANGED job
    <3>1. watching' = Ordinary!Asleep /\ listing' = listing
          /\ snapshot' = [taken |-> TRUE, probes |-> listing, pending |-> watching.pending]
      BY <2>6 DEF Ordinary!WriteSnapshot
    <3>2. watching'.at = "asleep" /\ DOMAIN watching' = DOMAIN Ordinary!Asleep
      BY <3>1 DEF Ordinary!Asleep
    <3>3. snapshot'.probes = listing /\ snapshot'.taken = TRUE
      BY <3>1
    <3> QED
      BY <1>2, <3>1, <3>2, <3>3 DEF Probed, Underway
  <2>7. ASSUME NEW p \in Probe, Ordinary!Relist(p) PROVE Probed'
    BY <1>2, <2>7 DEF Ordinary!Relist, Probed, Underway
  <2>8. CASE UNCHANGED <<job, listing, snapshot, egress, escalated, vouched, watching>>
    BY <1>2, <2>2, <2>8 DEF Probed
  <2> QED
    BY <1>2, <2>1, <2>3, <2>4, <2>5, <2>6, <2>7, <2>8, ProbeSteps DEF Plain
<1> QED
  BY <1>1, <1>2

(***************************************************************************)
(* A probe that owes no trace has been traced where the snapshot has it.   *)
(***************************************************************************)
THEOREM SettledProbesAreTraced == MCSpec => []SettledIsTraced
<1> DEFINE IInv == Probed /\ SettledIsTraced
<1>1. MCInit => IInv
  <2> SUFFICES ASSUME MCInit PROVE SettledIsTraced
    BY ProbesAreWatched DEF MCInit
  <2>1. snapshot = Ordinary!NoSnapshot
    BY DEF MCInit, Ordinary!Init
  <2> QED
    BY <2>1 DEF SettledIsTraced, Ordinary!SettledIsTraced, Ordinary!Previous, Ordinary!Live, Ordinary!NoSnapshot
<1>2. ASSUME IInv, [MCNext]_mcVars PROVE IInv'
  <2>1. Probed'
    BY <1>2, ProbesAreWatched
  <2> SUFFICES SettledIsTraced'
    BY <2>1
  <2> USE DEF SettledIsTraced, Ordinary!SettledIsTraced
  <2>2. ASSUME UNCHANGED snapshot, \A p \in Probe : vouched[p] \subseteq vouched'[p] PROVE SettledIsTraced'
    BY <1>2, <2>2 DEF Ordinary!Previous, Ordinary!Live
  <2>3. CASE Ordinary!WriteSnapshot
    <3> SUFFICES ASSUME NEW p \in Probe, listing[p] # Ordinary!Gone, p \notin watching.pending
                 PROVE  listing[p].net \in vouched'[p]
      <4>1. /\ snapshot'.probes = listing /\ snapshot'.pending = watching.pending
        BY <2>3 DEF Ordinary!WriteSnapshot
      <4> QED
        BY <4>1 DEF Ordinary!Previous, Ordinary!Live
    <3>1. watching.at # "asleep" /\ watching.at = "escalated"
      BY <2>3 DEF Ordinary!WriteSnapshot
    <3>2. vouched'[p] = IF snapshot.taken /\ snapshot.probes[p].net = listing[p].net THEN vouched[p]
                        ELSE IF p \in DOMAIN watching.traced \/ ~snapshot.taken THEN {listing[p].net} ELSE {}
      BY <2>3 DEF Ordinary!WriteSnapshot
    <3>3. CASE p \in DOMAIN watching.traced
      BY <1>2, <3>1, <3>2, <3>3 DEF Probed, Underway
    <3>4. CASE p \notin DOMAIN watching.traced /\ snapshot.taken
      <4>1. p \in Ordinary!Current
        BY DEF Ordinary!Current, Ordinary!Live
      <4>2. p \notin snapshot.pending \cup Ordinary!Changed \cup Ordinary!NewlyTracked
        BY <1>2, <3>1, <3>4, <4>1 DEF Probed, Underway, Ordinary!NeedsTrace
      <4>3. p \in Ordinary!Previous
        BY <3>4, <4>1, <4>2 DEF Ordinary!NewlyTracked
      <4>4. snapshot.probes[p].net = listing[p].net
        BY <4>1, <4>2, <4>3 DEF Ordinary!Changed
      <4> QED
        BY <1>2, <3>2, <3>4, <4>2, <4>3, <4>4
    <3>5. CASE p \notin DOMAIN watching.traced /\ ~snapshot.taken
      BY <3>2, <3>5
    <3> QED
      BY <3>3, <3>4, <3>5
  <2>4. ASSUME NEW resolved, Traced(resolved) PROVE SettledIsTraced'
    BY <2>2, <2>4 DEF Traced
  <2>5. CASE Ordinary!AppendHistory \/ Ordinary!Escalate \/ Ordinary!Die
    BY <2>2, <2>5 DEF Ordinary!AppendHistory, Ordinary!Escalate, Ordinary!Die
  <2>6. ASSUME NEW p \in Probe, Ordinary!Relist(p) PROVE SettledIsTraced'
    BY <2>2, <2>6 DEF Ordinary!Relist
  <2>7. CASE UNCHANGED <<job, listing, snapshot, egress, escalated, vouched, watching>>
    BY <2>2, <2>7
  <2> QED
    BY <1>2, <2>3, <2>4, <2>5, <2>6, <2>7, ProbeSteps DEF Plain
<1> QED
  BY <1>1, <1>2, PTL DEF MCSpec

(***************************************************************************)
(* The snapshot never moves past a move the owner was not told of, or past *)
(* the return of a probe on the look-out list.                             *)
(***************************************************************************)
THEOREM MovesAreTold == MCSpec => MovesAreEscalated
<1>1. MCInit => Probed
  BY ProbesAreWatched DEF MCInit
<1>2. Probed /\ [MCNext]_mcVars => Probed'
  BY ProbesAreWatched
<1>3. ASSUME Probed, [MCNext]_mcVars
      PROVE  /\ job = "probe watch" => Ordinary!MovesTold
             /\ job = "BOLO watch" => Wanted!MovesTold
  <2>1. CASE UNCHANGED snapshot
    BY <2>1 DEF Ordinary!MovesTold, Wanted!MovesTold
  <2>2. CASE Ordinary!WriteSnapshot
    <3>1. /\ watching.at # "asleep" /\ watching.at = "escalated" /\ snapshot'.probes = listing
      BY <2>2 DEF Ordinary!WriteSnapshot
    <3>2. /\ Ordinary!MoveBlocks \subseteq escalated
          /\ job = "BOLO watch" => Wanted!BoloBlocks \subseteq escalated
      BY <1>3, <3>1 DEF Probed, Underway
    <3>3. ASSUME NEW p \in Probe, snapshot.taken, snapshot.probes[p].net # listing[p].net, listing[p].net # None
          PROVE  /\ snapshot.probes[p].net # None =>
                      Ordinary!Block(p, "moved", snapshot.probes[p].net, listing[p].net) \in escalated
                 /\ snapshot.probes[p].net = None /\ job = "BOLO watch" =>
                      Wanted!Block(p, "back", None, listing[p].net) \in escalated
      <4>1. p \in Ordinary!Current /\ p \in Wanted!Current
        BY <3>3 DEF Ordinary!Current, Ordinary!Live, Ordinary!Gone, Wanted!Current, Wanted!Live, Wanted!Gone
      <4>2. ASSUME snapshot.probes[p].net # None
            PROVE  Ordinary!Block(p, "moved", snapshot.probes[p].net, listing[p].net) \in escalated
        <5>1. p \in Ordinary!Previous
          BY <4>2 DEF Ordinary!Previous, Ordinary!Live, Ordinary!Gone
        <5>2. p \in Ordinary!Changed
          BY <3>3, <4>1, <5>1 DEF Ordinary!Changed
        <5>3. Ordinary!Block(p, "moved", snapshot.probes[p].net, listing[p].net) \in Ordinary!MoveBlocks
          BY <5>2 DEF Ordinary!MoveBlocks
        <5> QED
          BY <3>2, <5>3
      <4>3. ASSUME snapshot.probes[p].net = None, job = "BOLO watch"
            PROVE  Wanted!Block(p, "back", None, listing[p].net) \in escalated
        <5>1. snapshot.probes[p] \in Ordinary!State
          BY <1>3 DEF Probed
        <5>2. snapshot.probes[p] = Wanted!Gone
          BY <4>3, <5>1, NoneIsNothing DEF Ordinary!State, Ordinary!Gone, Wanted!Gone
        <5>3. p \in Wanted!NewlyTracked
          BY <3>3, <4>1, <5>2 DEF Wanted!NewlyTracked, Wanted!Previous, Wanted!Live
        <5>4. Wanted!Block(p, "back", None, listing[p].net) \in Wanted!BoloBlocks
          BY <5>3 DEF Wanted!BoloBlocks
        <5> QED
          BY <3>2, <4>3, <5>4
      <4> QED
        BY <4>2, <4>3
    <3> QED
      BY <3>1, <3>3 DEF Ordinary!MovesTold, Wanted!MovesTold, Ordinary!Block, Wanted!Block
  <2>3. CASE \E resolved : Traced(resolved)
    BY <2>1, <2>3 DEF Traced
  <2> QED
    BY <1>3, <2>1, <2>2, <2>3, ProbeSteps
       DEF Plain, Ordinary!AppendHistory, Ordinary!Escalate, Ordinary!Die, Ordinary!Relist
<1> QED
  BY <1>1, <1>2, <1>3, PTL DEF MCSpec, MovesAreEscalated
=============================================================================
