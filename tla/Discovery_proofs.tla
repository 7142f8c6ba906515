-------------------------- MODULE Discovery_proofs --------------------------
(***************************************************************************)
(* Proofs about what MCDiscovery composes: of the backlog's own            *)
(* specification, and of the pipeline, the Atlas client, the addresses,    *)
(* the convergence report and a retest by way of theirs, for any networks, *)
(* probes, exchanges, host names and answers.                              *)
(***************************************************************************)
EXTENDS MCDiscovery, FiniteSetTheorems, SequenceTheorems, TLAPS

\* Corridors that are not settled yet.
Open == busy \cup parked

\* No two of them are of one pair, and none joins a network to itself.
OnePairEach ==
    /\ \A c \in Open : c.from \in Asn /\ c.to \in Asn /\ c.from # c.to
    /\ \A c, d \in Open : Pair(c) = Pair(d) => c = d
    /\ busy \cap parked = {}

\* No open pair is tested; what is open while its reverse is open or tested was
\* noted when it was picked.
Noted ==
    /\ \A c \in Open : Pair(c) \notin tested
    /\ \A c \in Open : Reverse(Pair(c)) \in tested => {c.from, c.to} \in together
    /\ \A c, d \in Open : Reverse(Pair(c)) = Pair(d) => {c.from, c.to} \in together

\* What a corridor taken from the backlog is.
LEMMA CandidatesAreOpen ==
    ASSUME NEW c \in Candidates
    PROVE  /\ c.from \in Asn /\ c.to \in Asn /\ c.from # c.to
           /\ Pair(c) \notin tested /\ Reverse(Pair(c)) \notin tested
BY DEF Candidates, Proposed, SameNetwork, TestedPairs

LEMMA PickKeeps == OnePairEach /\ Noted /\ Pick => OnePairEach' /\ Noted'
<1> SUFFICES ASSUME OnePairEach, Noted, Pick PROVE OnePairEach' /\ Noted'
  OBVIOUS
<1>1. PICK c \in Candidates :
        /\ Free(c)
        /\ busy' = busy \cup {c}
        /\ together' = IF Reverse(Pair(c)) \in {Pair(d) : d \in busy \cup parked}
                       THEN together \cup {{c.from, c.to}} ELSE together
  BY DEF Pick, First
<1>2. UNCHANGED <<tested, parked>>
  BY DEF Pick
<1>3. /\ c.from \in Asn /\ c.to \in Asn /\ c.from # c.to
      /\ Pair(c) \notin tested /\ Reverse(Pair(c)) \notin tested
  BY CandidatesAreOpen
<1>4. \A d \in Open : Pair(d) # Pair(c)
  BY <1>1 DEF Free, Open, Pair
<1>5. Open' = Open \cup {c} /\ c \notin Open
  BY <1>1, <1>2, <1>4 DEF Open
<1>6. OnePairEach'
  BY <1>1, <1>2, <1>3, <1>4, <1>5 DEF OnePairEach, Open
<1>7. ASSUME NEW d \in Open, Reverse(Pair(c)) = Pair(d) \/ Reverse(Pair(d)) = Pair(c)
      PROVE  {c.from, c.to} \in together' /\ {d.from, d.to} = {c.from, c.to}
  <2>1. Reverse(Pair(c)) = Pair(d) /\ {d.from, d.to} = {c.from, c.to}
    BY <1>7 DEF Pair, Reverse
  <2> QED
    BY <1>1, <2>1 DEF Open
<1>8. Reverse(Pair(c)) # Pair(c)
  BY <1>3 DEF Pair, Reverse
<1>9. together \subseteq together'
  BY <1>1
<1>10. \A d, e \in Open' : Reverse(Pair(d)) = Pair(e) => {d.from, d.to} \in together'
  BY <1>5, <1>7, <1>8, <1>9 DEF Noted
<1> QED
  BY <1>2, <1>3, <1>5, <1>6, <1>9, <1>10 DEF Noted

\* Settling an open corridor, whatever it files.
LEMMA SettleKeeps ==
    ASSUME OnePairEach, Noted, NEW c \in Open, Settle(c), Open' = Open \ {c},
           busy' \cap parked' = {}, UNCHANGED together
    PROVE  OnePairEach' /\ Noted'
<1>1. tested' = tested \cup {Pair(c)}
  BY DEF Settle, mark_corridor_tested
<1>2. OnePairEach'
  BY DEF OnePairEach, Pair
<1>3. \A d \in Open' : Pair(d) # Pair(c)
  BY DEF OnePairEach
<1>4. ASSUME NEW d \in Open', Reverse(Pair(d)) \in tested' PROVE {d.from, d.to} \in together'
  BY <1>1, <1>4 DEF Noted
<1> QED
  BY <1>1, <1>2, <1>3, <1>4 DEF Noted

\* What is written about an open corridor is about a pair that was noted.
LEMMA FiledIsNoted ==
    ASSUME OnePairEach, Noted, NEW c \in Open, File(c),
           NEW p \in Asn \X Asn, settled'[p] # settled[p]
    PROVE  p \notin tested /\ (Reverse(p) \in tested => {p[1], p[2]} \in together)
<1>1. p = Pair(c)
  BY DEF File
<1> QED
  BY <1>1 DEF Noted, Pair

(***************************************************************************)
(* No classification writes about a pair that is tested, and about one     *)
(* whose reverse is tested only if the two were open at the same time.     *)
(***************************************************************************)
THEOREM PairsSettledOnce == Spec => SettledOnce
<1> DEFINE IInv == OnePairEach /\ Noted
           Once == \A p \in Asn \X Asn : settled'[p] # settled[p] =>
                     /\ p \notin tested
                     /\ Reverse(p) \in tested => {p[1], p[2]} \in together
<1>1. Init => IInv
  BY DEF Init, OnePairEach, Noted, Open
<1>2. ASSUME IInv, [Next]_vars PROVE IInv' /\ Once
  <2>1. ASSUME NEW c \in Open, Settle(c), Open' = Open \ {c}, busy' \cap parked' = {}, UNCHANGED together
        PROVE IInv' /\ Once
    BY <1>2, <2>1, SettleKeeps, FiledIsNoted DEF Settle
  <2>2. ASSUME UNCHANGED <<tested, together>>, Open' \subseteq Open, busy' \cap parked' = {} PROVE IInv'
    BY <1>2, <2>2 DEF OnePairEach, Noted
  <2>3. ASSUME NEW c \in Open, BreakOff(c), Open' \subseteq Open, busy' \cap parked' = {}, UNCHANGED together
        PROVE IInv' /\ Once
    BY <1>2, <2>2, <2>3, FiledIsNoted DEF BreakOff
  <2>4. CASE Pick
    BY <1>2, <2>4, PickKeeps DEF Pick
  <2>5. ASSUME NEW c \in busy, Conclude(c) \/ FailWriting(c) PROVE IInv' /\ Once
    <3>1. c \in Open /\ Open' = Open \ {c} /\ busy' \cap parked' = {} /\ UNCHANGED together
      BY <1>2, <2>5 DEF Conclude, FailWriting, Open, OnePairEach
    <3> QED
      BY <2>1, <2>3, <2>5, <3>1 DEF Conclude, FailWriting
  <2>6. ASSUME NEW c \in parked, Collect(c) PROVE IInv' /\ Once
    <3>1. c \in Open /\ Open' = Open \ {c} /\ busy' \cap parked' = {} /\ UNCHANGED together
      BY <1>2, <2>6 DEF Collect, Open, OnePairEach
    <3>2. CASE UNCHANGED <<tested, findings, settled, cuts>>
      BY <2>2, <3>1, <3>2
    <3> QED
      BY <2>1, <2>3, <2>6, <3>1, <3>2 DEF Collect
  <2>7. ASSUME NEW c \in busy, Fail(c) \/ Park(c) PROVE IInv' /\ Once
    <3>1. /\ UNCHANGED <<tested, together, settled>>
          /\ Open' \subseteq Open /\ busy' \cap parked' = {}
      BY <1>2, <2>7 DEF Fail, Park, Open, OnePairEach, history
    <3> QED
      BY <2>2, <3>1
  <2>8. CASE Refresh \/ Start \/ Work \/ Join \/ Regenerate \/ SaveSnapshot \/ Die \/ UNCHANGED vars
    <3>1. /\ UNCHANGED <<tested, together, settled>>
          /\ Open' \subseteq Open /\ busy' \cap parked' = {}
      BY <1>2, <2>8 DEF Refresh, Start, Work, Join, Regenerate, SaveSnapshot, Die, vars, history, Open, OnePairEach
    <3> QED
      BY <2>2, <3>1
  <2> QED
    BY <1>2, <2>4, <2>5, <2>6, <2>7, <2>8 DEF Next
<1> QED
  BY <1>1, <1>2, PTL DEF Spec, SettledOnce
-----------------------------------------------------------------------------
\* A batch has imported every finding that is not its own, and what an earlier
\* finding covers it does not fire.
Imported ==
    /\ run \in Nat
    /\ \A f \in findings : f.run \in Nat /\ f.run <= run
    /\ \A x \in fired : x.run \in Nat /\ x.run <= run
    /\ stage \in {"before", "batch"} => \A f \in findings : f \in imported \/ f.run = run

(***************************************************************************)
(* Once a finding covers two economies, no later batch fires a corridor    *)
(* between them.                                                           *)
(***************************************************************************)
THEOREM ClosedStayClosed == Spec => []ClosedEconomiesStay
<1> DEFINE IInv == Imported /\ ClosedEconomiesStay
<1>1. Init => IInv
  BY DEF Init, Imported, ClosedEconomiesStay
<1>2. ASSUME IInv, [Next]_vars PROVE IInv'
  <2>1. ASSUME NEW c, File(c), UNCHANGED <<stage, run, imported, fired>>
        PROVE  IInv'
    <3>1. PICK filed \in Outcomes(c) : findings' = findings \cup filed
      BY <2>1 DEF File
    <3>2. \A f \in filed : f.run = run
      BY DEF Outcomes, Detour, Edge
    <3>3. Imported'
      BY <1>2, <2>1, <3>1, <3>2 DEF Imported
    <3>4. ClosedEconomiesStay'
      BY <1>2, <2>1, <3>1, <3>2 DEF Imported, ClosedEconomiesStay
    <3> QED
      BY <3>3, <3>4
  <2>2. CASE Pick
    <3>1. PICK c \in Candidates : fired' = fired \cup {[corridor |-> c, run |-> run]}
      BY <2>2 DEF Pick, First
    <3>2. UNCHANGED <<findings, run, imported, stage>> /\ stage = "batch"
      BY <2>2 DEF Pick
    <3>3. Imported'
      BY <1>2, <3>1, <3>2 DEF Imported
    <3>4. ASSUME NEW f \in findings, ~IsDomestic(c), EconomyPair(c) = f.economies PROVE f.run = run
      <4>1. f \notin imported
        BY <3>4 DEF Candidates, Proposed, ClosedEconomies
      <4> QED
        BY <1>2, <3>2, <4>1 DEF Imported
    <3>5. ClosedEconomiesStay'
      BY <1>2, <3>1, <3>2, <3>4 DEF Imported, ClosedEconomiesStay
    <3> QED
      BY <3>3, <3>5
  <2>3. CASE Start
    BY <1>2, <2>3 DEF Start, Imported, ClosedEconomiesStay, history
  <2>4. ASSUME UNCHANGED <<findings, run, fired>>,
               stage' \in {"before", "batch"} =>
                    stage \in {"before", "batch"} /\ imported' = imported
        PROVE IInv'
    BY <1>2, <2>4 DEF Imported, ClosedEconomiesStay
  <2>5. ASSUME NEW c \in busy, Conclude(c) \/ FailWriting(c) PROVE IInv'
    BY <2>1, <2>5 DEF Conclude, FailWriting, Settle, BreakOff
  <2>6. ASSUME NEW c \in parked, Collect(c) PROVE IInv'
    <3>1. CASE File(c)
      BY <2>1, <2>6, <3>1 DEF Collect
    <3>2. CASE ~File(c)
      BY <2>4, <2>6, <3>2 DEF Collect, Settle, BreakOff
    <3> QED
      BY <3>1, <3>2
  <2>7. ASSUME NEW c \in busy, Fail(c) \/ Park(c) PROVE IInv'
    BY <1>2, <2>4, <2>7 DEF Fail, Park, history, Imported
  <2>8. CASE Work \/ Join \/ Regenerate \/ SaveSnapshot \/ Die
    BY <1>2, <2>4, <2>8 DEF Work, Join, Regenerate, SaveSnapshot, Die, history, Imported
  <2>9. CASE Refresh \/ UNCHANGED vars
    BY <1>2, <2>9 DEF Refresh, vars, history, Imported, ClosedEconomiesStay
  <2> QED
    BY <1>2, <2>2, <2>3, <2>5, <2>6, <2>7, <2>8, <2>9 DEF Next
<1> QED
  BY <1>1, <1>2, PTL DEF Spec
-----------------------------------------------------------------------------
LEMMA WeekAlone == MCSpec => Week!Spec
<1>1. MCInit => Week!Init
  BY DEF MCInit
<1>2. [MCNext]_mcVars => [Week!Next]_(Week!vars)
  BY DEF MCNext, WeekNext, BacklogNext, ClientNext, AddressNext, ConvergenceNext, RetestNext, mcVars, pipelineVars,
         Week!vars, Week!files, Week!run, Week!history
<1> QED
  BY <1>1, <1>2, PTL DEF MCSpec, Week!Spec

LEMMA ClientAlone == MCSpec => Client!Spec
<1>1. MCInit => Client!Init
  BY DEF MCInit
<1>2. [MCNext]_mcVars => [Client!Next]_(Client!vars)
  BY DEF MCNext, WeekNext, BacklogNext, ClientNext, AddressNext, ConvergenceNext, RetestNext, mcVars, clientVars,
         Client!vars, Client!atlas, Client!counts, Client!cache
<1> QED
  BY <1>1, <1>2, PTL DEF MCSpec, Client!Spec
-----------------------------------------------------------------------------
USE DEF Client!Terminal, Client!NeverRan, Client!NoRetry

LEMMA Bounds ==
    /\ MaxLag \in Nat /\ MaxLag >= 1 /\ MaxErrors \in Nat
    /\ Retries \in Nat /\ Retries >= 1 /\ MaxLag + MaxErrors <= Retries
BY DiscoveryAssumption

LEMMA FewErrors ==
    ASSUME errors \in Nat, errors <= MaxErrors, Client!Error \/ UNCHANGED errors
    PROVE  errors' \in Nat /\ errors' <= MaxErrors
BY Bounds DEF Client!Error

LEMMA OneMoreError ==
    ASSUME NEW a \in Nat, NEW e \in Nat, ~(a >= MaxLag), a + 1 >= MaxLag
    PROVE  e + 1 >= (a + 1) - MaxLag + 1
BY Bounds

\* Atlas: what it serves was sent, nothing is sent before a measurement runs,
\* and a status that ends one is its last.
Answered ==
    /\ status \in {"none", "Scheduled", "Ongoing", "Stopped", "Failed", "No suitable probes"}
    /\ readable \subseteq reported /\ got \subseteq readable
    /\ status \in Client!NeverRan \cup {"none"} => reported = {}
    /\ seen \in Client!Terminal => status = seen
    /\ at = "idle" => status = "none" /\ reported = {}

\* The client: within the retries, after MaxLag of them, each empty answer is
\* either a failed request or all there is.
Retried ==
    /\ attempt \in Nat /\ errors \in Nat /\ errors <= MaxErrors
    /\ at \in {"idle", "poll", "unfinished", "fetch", "retry", "persist", "parse", "done",
               "pending", "raised", "dead"}
    /\ at \in {"idle", "poll", "unfinished", "fetch"} => attempt = 0
    /\ at = "retry" =>
         /\ got = {} /\ attempt < Retries
         /\ seen \in Client!Terminal /\ attempt >= MaxLag =>
              reported = {} \/ errors >= attempt - MaxLag + 1

\* What is about to be cached as empty is empty.
Genuine ==
    /\ at \in {"fetch", "retry"} => seen \in Client!Terminal \/ ~asked.defer
    /\ at = "unfinished" => seen \notin Client!Terminal
    /\ at \in {"persist", "parse", "done"} /\ got = {} =>
         IF seen \in Client!Terminal THEN reported = {} ELSE ~asked.defer
    /\ at = "done" => parsed = got
    /\ blame = "source probe" => reported = {} /\ status \in Client!Terminal

(***************************************************************************)
(* A measurement cached without results had none, however late Atlas was   *)
(* and whichever request failed, as long as both fit into the retries; and *)
(* a source probe is blamed only when nothing was sent.                    *)
(***************************************************************************)
THEOREM EmptyHadNothing == MCSpec => []EmptyIsGenuine
<1> DEFINE IInv == Answered /\ Retried /\ Genuine
<1>1. Client!Init => IInv
  BY Bounds DEF Client!Init, Answered, Retried, Genuine
<1>2. ASSUME IInv, [Client!Next]_(Client!vars) PROVE IInv'
  <2> USE DEF Client!atlas, Client!counts, Client!cache
  <2>1. CASE Client!Create
    BY <1>2, <2>1 DEF Client!Create, Answered, Retried, Genuine
  <2>2. CASE Client!Progress
    BY <1>2, <2>2 DEF Client!Progress, Answered, Retried, Genuine
  <2>3. CASE Client!Index
    BY <1>2, <2>3 DEF Client!Index, Answered, Retried, Genuine
  <2>4. ASSUME NEW p \in Probe, Client!Report(p) PROVE IInv'
    BY <1>2, <2>4 DEF Client!Report, Answered, Retried, Genuine
  <2>5. CASE Client!fetch_measurement_status
    <3>1. Answered'
      BY <1>2, <2>5 DEF Client!fetch_measurement_status, Client!Error, Answered, Retried, Genuine
    <3>2. Retried'
      <4>1. errors' \in Nat /\ errors' <= MaxErrors
        <5>1. Client!Error \/ UNCHANGED errors
          BY <2>5 DEF Client!fetch_measurement_status
        <5> QED
          BY <1>2, <5>1, FewErrors DEF Retried
      <4>2. attempt' = 0
        BY <1>2, <2>5 DEF Client!fetch_measurement_status, Retried
      <4>3. at' \in {"pending", "raised", "fetch", "poll", "unfinished"}
        BY <1>2, <2>5 DEF Client!fetch_measurement_status
      <4> QED
        BY <4>1, <4>2, <4>3 DEF Retried
    <3>3. Genuine'
      BY <1>2, <2>5, Bounds DEF Client!fetch_measurement_status, Client!Error, Answered, Retried, Genuine
    <3> QED
      BY <3>1, <3>2, <3>3
  <2>6. CASE Client!FetchUnfinished
    <3>1. Answered'
      BY <1>2, <2>6 DEF Client!FetchUnfinished, Client!Error, Answered, Retried, Genuine
    <3>2. Retried'
      <4>1. errors' \in Nat /\ errors' <= MaxErrors
        BY <1>2, <2>6, Bounds DEF Client!FetchUnfinished, Client!Error, Retried
      <4>2. attempt' = 0
        BY <1>2, <2>6 DEF Client!FetchUnfinished, Retried
      <4>3. at' \in {"pending", "persist"}
        BY <1>2, <2>6 DEF Client!FetchUnfinished
      <4> QED
        BY <4>1, <4>2, <4>3 DEF Retried
    <3>3. Genuine'
      BY <1>2, <2>6, Bounds DEF Client!FetchUnfinished, Client!Error, Answered, Retried, Genuine
    <3> QED
      BY <3>1, <3>2, <3>3
  <2>7. CASE Client!FirstFetch
    <3>1. Answered'
      BY <1>2, <2>7 DEF Client!FirstFetch, Client!Error, Answered, Retried, Genuine
    <3>2. Retried'
      <4>1. errors' \in Nat /\ errors' <= MaxErrors
        <5>1. Client!Error \/ UNCHANGED errors
          BY <2>7 DEF Client!FirstFetch
        <5> QED
          BY <1>2, <5>1, FewErrors DEF Retried
      <4>2. attempt' = 0 /\ 0 < Retries /\ ~(attempt' >= MaxLag)
        <5>1. attempt' = 0
          BY <1>2, <2>7 DEF Client!FirstFetch, Retried
        <5> QED
          BY <5>1, Bounds
      <4>3. at' \in {"raised", "retry", "persist"} /\ (at' = "retry" => got' = {})
        BY <1>2, <2>7 DEF Client!FirstFetch
      <4> QED
        BY <4>1, <4>2, <4>3 DEF Retried
    <3>3. Genuine'
      BY <1>2, <2>7, Bounds DEF Client!FirstFetch, Client!Error, Answered, Retried, Genuine
    <3> QED
      BY <3>1, <3>2, <3>3
  <2>8. CASE Client!Retry
    <3> USE <2>8 DEF Client!Retry
    <3>1. Answered'
      BY <1>2 DEF Client!Error, Answered, Retried
    <3>2. /\ attempt \in Nat /\ attempt' = attempt + 1 /\ attempt < Retries
          /\ got = {} /\ UNCHANGED <<seen, reported, asked>>
          /\ errors \in Nat /\ errors <= MaxErrors
      BY <1>2 DEF Retried
    <3>3. \/ errors' = errors + 1 /\ errors < MaxErrors /\ got' = {}
          \/ errors' = errors /\ got' = readable
      BY <3>2 DEF Client!Error
    <3>4. errors' \in Nat /\ errors' <= MaxErrors
      BY <3>2, <3>3, Bounds
    <3>5. \/ at' = "persist" /\ (got' # {} \/ attempt' = Retries)
          \/ at' = "retry" /\ got' = {} /\ attempt' # Retries
      OBVIOUS
    <3>6. ASSUME seen \in Client!Terminal, attempt' >= MaxLag, got' = {}, reported # {}
          PROVE  errors' >= attempt' - MaxLag + 1
      <4>1. readable = reported
        BY <3>2, <3>6, Bounds DEF Client!IndexedInTime
      <4>2. errors' = errors + 1
        BY <3>3, <3>6, <4>1
      <4>3. CASE attempt >= MaxLag
        <5>1. errors >= attempt - MaxLag + 1
          BY <1>2, <3>6, <4>3 DEF Retried
        <5> QED
          BY <3>2, <4>2, <5>1, Bounds
      <4>4. CASE ~(attempt >= MaxLag)
        <5> HIDE <2>8 DEF Client!Retry
        <5>1. attempt + 1 >= MaxLag /\ attempt \in Nat /\ errors \in Nat
          BY <3>2, <3>6
        <5>2. errors + 1 >= (attempt + 1) - MaxLag + 1
          BY <4>4, <5>1, OneMoreError
        <5> QED
          BY <3>2, <4>2, <5>2
      <4> QED
        BY <4>3, <4>4
    <3>7. Retried'
      <4>1. attempt' \in Nat
        BY <3>2
      <4>2. ASSUME at' = "retry" PROVE got' = {} /\ attempt' < Retries
        BY <3>2, <3>5, <4>2, Bounds
      <4> QED
        BY <3>2, <3>4, <3>5, <3>6, <4>1, <4>2 DEF Retried
    <3>8. ASSUME at' = "persist", got' = {}, seen \in Client!Terminal PROVE reported = {}
      <4>1. attempt' = Retries
        BY <3>5, <3>8
      <4>2. ~(errors' >= attempt' - MaxLag + 1)
        BY <3>4, <4>1, Bounds
      <4>3. attempt' >= MaxLag
        BY <4>1, Bounds
      <4> QED
        BY <3>6, <3>8, <4>2, <4>3
    <3>9. Genuine'
      BY <1>2, <3>2, <3>5, <3>8 DEF Genuine
    <3> QED
      BY <3>1, <3>7, <3>9
  <2>9. CASE Client!persist_results
    BY <1>2, <2>9 DEF Client!persist_results, Answered, Retried, Genuine
  <2>10. CASE Client!refetch_parsed
    <3>1. Answered'
      BY <1>2, <2>10 DEF Client!refetch_parsed, Client!Error, Answered, Retried, Genuine
    <3>2. Retried'
      <4>1. errors' \in Nat /\ errors' <= MaxErrors
        BY <1>2, <2>10, Bounds DEF Client!refetch_parsed, Client!Error, Retried
      <4>2. attempt' \in Nat
        BY <2>10, Bounds DEF Client!refetch_parsed
      <4>3. at' \in {"raised", "persist"}
        BY <2>10 DEF Client!refetch_parsed
      <4> QED
        BY <4>1, <4>2, <4>3 DEF Retried
    <3>3. Genuine'
      BY <1>2, <2>10, Bounds DEF Client!refetch_parsed, Client!Error, Answered, Retried, Genuine
    <3> QED
      BY <3>1, <3>2, <3>3
  <2>11. CASE Client!zero_probe_detail
    <3>1. Answered'
      BY <1>2, <2>11 DEF Client!zero_probe_detail, Client!Error, Answered, Retried, Genuine
    <3>2. Retried'
      <4>1. errors' \in Nat /\ errors' <= MaxErrors
        <5>1. Client!Error \/ UNCHANGED errors
          BY <2>11 DEF Client!zero_probe_detail
        <5> QED
          BY <1>2, <5>1, FewErrors DEF Retried
      <4>2. attempt' \in Nat /\ at' = "done"
        BY <1>2, <2>11 DEF Client!zero_probe_detail, Retried
      <4> QED
        BY <4>1, <4>2 DEF Retried
    <3>3. Genuine'
      BY <1>2, <2>11, Bounds DEF Client!zero_probe_detail, Client!Error, Answered, Retried, Genuine
    <3> QED
      BY <3>1, <3>2, <3>3
  <2>12. CASE Client!Die
    BY <1>2, <2>12 DEF Client!Die, Answered, Retried, Genuine
  <2>13. CASE UNCHANGED Client!vars
    BY <1>2, <2>13 DEF Client!vars, Answered, Retried, Genuine
  <2> QED
    BY <1>2, <2>1, <2>2, <2>3, <2>4, <2>5, <2>6, <2>7, <2>8, <2>9, <2>10, <2>11, <2>12, <2>13 DEF Client!Next
<1>3. IInv => EmptyIsGenuine
  BY DEF Genuine, Answered, EmptyIsGenuine, Client!EmptyIsGenuine
<1> QED
  BY <1>1, <1>2, <1>3, ClientAlone, PTL DEF Client!Spec
-----------------------------------------------------------------------------
LEMMA StepNames ==
    /\ Week!Idle = 7
    /\ Week!Steps[1] = "discovery" /\ Week!Steps[2] = "fishbowl" /\ Week!Steps[3] = "ixp_lan_registry"
    /\ Week!Steps[4] = "irr_leads" /\ Week!Steps[5] = "asn_probe_registry"
    /\ Week!Steps[6] = "probe_geo_audit"
BY DEF Week!Steps, Week!Idle

\* What the manifest will say of a step, it says once that step has run.
InOrder ==
    /\ step \in 1..Week!Idle
    /\ Week!Ok("fishbowl") => step > 2
    /\ Week!Ok("probe_geo_audit") => step > 6

\* The files of steps that succeeded are of one piece as long as they are kept.
Hung ==
    /\ scope \cap cut = {}
    /\ Week!Ok("fishbowl") => DOMAIN fishbowl = scope
    /\ Week!Ok("probe_geo_audit") => probes \subseteq judged

\* A step that is done leaves the results of the others.
LEMMA DoneKeeps ==
    ASSUME step \in 1..6, NEW result, Week!Done(result)
    PROVE  /\ step' = step + 1
           /\ \A s : Week!Ok(s)' <=> (IF s = Week!Steps[step] THEN result = "ok" ELSE Week!Ok(s))
BY DEF Week!Done, Week!Ok

LEMMA DoneInOrder ==
    ASSUME InOrder, step < Week!Idle, NEW result, Week!Done(result)
    PROVE  /\ InOrder'
           /\ Week!Ok("fishbowl")' => IF step = 2 THEN result = "ok" ELSE step > 2 /\ Week!Ok("fishbowl")
           /\ Week!Ok("probe_geo_audit")' => step = 6 /\ result = "ok"
<1>1. step \in 1..6 /\ 7 \in 1..Week!Idle
  BY StepNames DEF InOrder
<1>2. /\ step' = step + 1
      /\ \A s : Week!Ok(s)' <=> (IF s = Week!Steps[step] THEN result = "ok" ELSE Week!Ok(s))
  BY <1>1, DoneKeeps
<1>3. /\ Week!Steps[step] = "fishbowl" <=> step = 2
      /\ Week!Steps[step] = "probe_geo_audit" <=> step = 6
  BY <1>1, StepNames
<1>4. Week!Ok("fishbowl")' => IF step = 2 THEN result = "ok" ELSE step > 2 /\ Week!Ok("fishbowl")
  BY <1>2, <1>3 DEF InOrder
<1>5. Week!Ok("probe_geo_audit")' => step = 6 /\ result = "ok"
  BY <1>1, <1>2, <1>3 DEF InOrder
<1>6. step' \in 1..Week!Idle /\ (step >= 2 => step' > 2) /\ (step = 6 => step' > 6)
  BY <1>1, <1>2, StepNames
<1>7. InOrder'
  BY <1>1, <1>4, <1>5, <1>6 DEF InOrder
<1> QED
  BY <1>4, <1>5, <1>7

LEMMA StepAt ==
    ASSUME InOrder
    PROVE  /\ Week!At("discovery") => step = 1
           /\ Week!At("fishbowl") => step = 2
           /\ Week!At("ixp_lan_registry") => step = 3
           /\ Week!At("irr_leads") => step = 4
           /\ Week!At("asn_probe_registry") => step = 5
           /\ Week!At("probe_geo_audit") => step = 6
<1>1. step < Week!Idle => step \in 1..6
  BY StepNames DEF InOrder
<1> QED
  BY <1>1, StepNames DEF Week!At

(***************************************************************************)
(* When discovery and the fishbowl both succeeded, the fishbowl is of the  *)
(* networks discovery left, without those excluded by then; and when the   *)
(* probes and their audit did, no probe went without the audit.            *)
(***************************************************************************)
THEOREM WeekHangsTogether == MCSpec => []RunHangsTogether
<1> DEFINE IInv == InOrder /\ Hung
<1>1. Week!Init => IInv
  BY StepNames DEF Week!Init, InOrder, Hung, Week!Ok
<1>2. ASSUME IInv, [Week!Next]_(Week!vars) PROVE IInv'
  <2> USE DEF Week!files, Week!run, Week!history
  <2>1. ASSUME UNCHANGED <<step, results, scope, cut, fishbowl, probes, judged>> PROVE IInv'
    BY <1>2, <2>1 DEF InOrder, Hung, Week!Ok
  <2>2. ASSUME NEW a \in WeekAsn, Week!Exclude(a) PROVE IInv'
    BY <2>1, <2>2 DEF Week!Exclude
  <2>3. CASE Week!Age \/ UNCHANGED Week!vars
    BY <2>1, <2>3 DEF Week!Age, Week!vars
  <2>4. CASE Week!Start \/ Week!Die
    BY <1>2, <2>4, StepNames DEF Week!Start, Week!Die, InOrder, Hung, Week!Ok
  <2>5. CASE Week!build_registry
    <3>1. step = 1 /\ step < Week!Idle /\ Week!Done("ok")
      BY <1>2, <2>5, StepAt, StepNames DEF Week!build_registry
    <3>2. scope' \cap cut' = {}
      BY <2>5 DEF Week!build_registry
    <3> QED
      BY <1>2, <3>1, <3>2, DoneInOrder DEF Hung
  <2>6. CASE Week!build_fishbowl
    <3>1. step = 2 /\ step < Week!Idle /\ Week!Done("ok")
      BY <1>2, <2>6, StepAt, StepNames DEF Week!build_fishbowl
    <3>2. DOMAIN fishbowl' = scope' /\ UNCHANGED <<scope, cut>>
      BY <2>6 DEF Week!build_fishbowl
    <3> QED
      BY <1>2, <3>1, <3>2, DoneInOrder DEF Hung
  <2>7. ASSUME UNCHANGED <<scope, cut, fishbowl>>, step < Week!Idle, NEW result, Week!Done(result),
               step = 2 => result # "ok", step = 6 => probes' \subseteq judged' \/ result # "ok"
        PROVE  IInv'
    BY <1>2, <2>7, DoneInOrder DEF Hung
  <2>8. CASE Week!FishbowlFails
    <3>1. step = 2 /\ step < Week!Idle
      BY <1>2, <2>8, StepAt, StepNames DEF Week!FishbowlFails
    <3> QED
      BY <2>7, <2>8, <3>1 DEF Week!FishbowlFails
  <2>9. CASE Week!build_ixp_lan_registry
    <3>1. step = 3 /\ step < Week!Idle
      BY <1>2, <2>9, StepAt, StepNames DEF Week!build_ixp_lan_registry
    <3> QED
      BY <2>7, <2>9, <3>1 DEF Week!build_ixp_lan_registry
  <2>10. CASE Week!build_irr_leads
    <3>1. step = 4 /\ step < Week!Idle
      BY <1>2, <2>10, StepAt, StepNames DEF Week!build_irr_leads
    <3> QED
      BY <2>7, <2>10, <3>1 DEF Week!build_irr_leads
  <2>11. CASE Week!build_asn_probe_registry
    <3>1. step = 5 /\ step < Week!Idle
      BY <1>2, <2>11, StepAt, StepNames DEF Week!build_asn_probe_registry
    <3> QED
      BY <2>7, <2>11, <3>1 DEF Week!build_asn_probe_registry
  <2>12. CASE Week!probe_geo_audit
    <3>1. step = 6 /\ step < Week!Idle
      BY <1>2, <2>12, StepAt, StepNames DEF Week!probe_geo_audit
    <3> QED
      BY <2>7, <2>12, <3>1 DEF Week!probe_geo_audit
  <2>13. CASE Week!StepFails
    BY <2>7, <2>13 DEF Week!StepFails
  <2> QED
    BY <1>2, <2>2, <2>3, <2>4, <2>5, <2>6, <2>8, <2>9, <2>10, <2>11, <2>12, <2>13 DEF Week!Next
<1>3. IInv => RunHangsTogether
  BY DEF Hung, RunHangsTogether, Week!RunHangsTogether
<1> QED
  BY <1>1, <1>2, <1>3, WeekAlone, PTL DEF Week!Spec
-----------------------------------------------------------------------------
\* Paths that RIS has shown and not taken back are on disk.
ShownIsRaw ==
    /\ scope \subseteq WeekAsn
    /\ \A a \in WeekAsn : ris[a] = "paths" => a \in DOMAIN rawPaths /\ rawPaths[a]

LEMMA FetchedIsRaw ==
    ASSUME ShownIsRaw, Week!FetchRis
    PROVE  \A a \in WeekAsn : ris'[a] = "paths" => a \in DOMAIN rawPaths' /\ rawPaths'[a]
<1>1. PICK paths \in Week!fetch_aspaths_for_asn :
        /\ rawPaths' = Week!PathsAfter(rawPaths, paths)
        /\ ris' = [a \in WeekAsn |-> IF a \notin DOMAIN paths THEN ris[a]
                                    ELSE IF paths[a] THEN "paths" ELSE "none"]
  BY DEF Week!FetchRis
<1>2. rawPaths' = [a \in DOMAIN rawPaths \cup DOMAIN paths |->
                     IF a \in DOMAIN paths THEN paths[a] ELSE rawPaths[a]]
  BY <1>1 DEF Week!PathsAfter, Week!Overwrite
<1>3. ASSUME NEW a \in WeekAsn, ris'[a] = "paths" PROVE a \in DOMAIN rawPaths' /\ rawPaths'[a]
  <2>1. CASE a \in DOMAIN paths
    <3>1. paths[a]
      BY <1>1, <1>3, <2>1
    <3> QED
      BY <1>2, <2>1, <3>1
  <2>2. CASE a \notin DOMAIN paths
    <3>1. ris[a] = "paths"
      BY <1>1, <1>3, <2>2
    <3>2. a \in DOMAIN rawPaths /\ rawPaths[a]
      BY <3>1 DEF ShownIsRaw
    <3> QED
      BY <1>2, <2>2, <3>2
  <2> QED
    BY <2>1, <2>2
<1> QED
  BY <1>3

(***************************************************************************)
(* Whichever source fails for a network: paths RIS has shown stay in the   *)
(* fishbowl until RIS answers that there are none, and the lead of an      *)
(* AS-SET stays while the network is in scope.                             *)
(***************************************************************************)
THEOREM WeekKeepsTheKnown == MCSpec => KnownIsKept
<1>1. Week!Init => ShownIsRaw
  BY DEF Week!Init, ShownIsRaw
<1>2. ASSUME ShownIsRaw, [Week!Next]_(Week!vars)
      PROVE  /\ ShownIsRaw'
             /\ fishbowl' # fishbowl =>
                  \A a \in DOMAIN fishbowl' : ris'[a] = "paths" => fishbowl'[a].paths
             /\ scope \cap DOMAIN leads \subseteq DOMAIN leads'
  <2> USE DEF Week!files, Week!run, Week!history
  <2>1. ASSUME UNCHANGED <<scope, rawPaths, ris, fishbowl, leads>>
        PROVE  ShownIsRaw' /\ fishbowl' = fishbowl /\ scope \cap DOMAIN leads \subseteq DOMAIN leads'
    BY <1>2, <2>1 DEF ShownIsRaw
  <2>2. ASSUME NEW a \in WeekAsn, Week!Exclude(a) 
        PROVE  /\ ShownIsRaw'
               /\ fishbowl' = fishbowl
               /\ scope \cap DOMAIN leads \subseteq DOMAIN leads'
    BY <2>1, <2>2 DEF Week!Exclude
  <2>3. CASE \/ Week!Age \/ Week!Start \/ Week!StepFails \/ Week!Die
             \/ Week!build_ixp_lan_registry \/ Week!build_asn_probe_registry
             \/ Week!probe_geo_audit \/ UNCHANGED Week!vars
    BY <2>1, <2>3 DEF Week!Age, Week!Start, Week!StepFails, Week!Die, Week!build_ixp_lan_registry,
                      Week!build_asn_probe_registry, Week!probe_geo_audit, Week!vars
  <2>4. CASE Week!build_registry
    BY <1>2, <2>4, DiscoveryAssumption DEF Week!build_registry, ShownIsRaw
  <2>5. CASE Week!build_irr_leads
    BY <1>2, <2>5 DEF Week!build_irr_leads, ShownIsRaw
  <2>6. CASE Week!FishbowlFails
    BY <1>2, <2>6, FetchedIsRaw DEF Week!FishbowlFails, ShownIsRaw
  <2>7. CASE Week!build_fishbowl
    <3>1. ShownIsRaw'
      BY <1>2, <2>7, FetchedIsRaw DEF Week!build_fishbowl, ShownIsRaw
    <3>2. ASSUME NEW a \in DOMAIN fishbowl', ris'[a] = "paths" PROVE fishbowl'[a].paths
      <4>1. DOMAIN fishbowl' = scope /\ scope' = scope
        BY <2>7 DEF Week!build_fishbowl
      <4>2. fishbowl'[a].paths = (a \in DOMAIN rawPaths' /\ rawPaths'[a])
        BY <2>7, <4>1 DEF Week!build_fishbowl
      <4> QED
        BY <3>1, <3>2, <4>1, <4>2 DEF ShownIsRaw
    <3>3. leads' = leads
      BY <2>7 DEF Week!build_fishbowl
    <3> QED
      BY <3>1, <3>2, <3>3
  <2> QED
    BY <1>2, <2>2, <2>3, <2>4, <2>5, <2>6, <2>7 DEF Week!Next
<1> QED
  BY <1>1, <1>2, WeekAlone, PTL DEF Week!Spec, KnownIsKept, Week!KnownIsKept
-----------------------------------------------------------------------------
\* What is in the cache and not in a worker's copy was saved since it loaded.
SavedSince ==
    /\ DOMAIN loaded = Worker
    /\ DOMAIN cache \subseteq Addr
    /\ \A w \in Worker : Addresses!Busy(w) =>
         /\ loaded[w].trace \subseteq Addr /\ DOMAIN loaded[w].entries \subseteq Addr
         /\ \A a \in DOMAIN cache \ DOMAIN loaded[w].entries : w \in overlap[a]

(***************************************************************************)
(* However many analyses share the cache, a save loses an answer only if   *)
(* the analysis had begun before that answer was saved.                    *)
(***************************************************************************)
THEOREM OverlapAloneLoses == Addresses!Spec => LostOnlyByOverlap
<1> DEFINE Lost == \A a \in DOMAIN cache \ DOMAIN cache' :
                     \E w \in overlap[a] : Addresses!Busy(w) /\ ~Addresses!Busy(w)'
<1>1. Addresses!Init => SavedSince
  BY DEF Addresses!Init, SavedSince, Addresses!Busy
<1>2. ASSUME SavedSince, [Addresses!Next]_(Addresses!vars) PROVE SavedSince' /\ Lost
  <2>1. CASE UNCHANGED <<cache, loaded, overlap>>
    BY <1>2, <2>1 DEF SavedSince, Addresses!Busy
  <2>2. ASSUME NEW w \in Worker, Addresses!Load(w) PROVE SavedSince' /\ Lost
    <3>1. PICK trace \in Traces :
            /\ loaded' = [loaded EXCEPT ![w] = Addresses!Analysis(trace, cache)]
            /\ UNCHANGED <<cache, overlap>>
      BY <2>2 DEF Addresses!Load, Addresses!IpResolutionCache_load
    <3>2. loaded'[w].trace \subseteq Addr /\ loaded'[w].entries = cache
      BY <1>2, <3>1, DiscoveryAssumption DEF SavedSince, Addresses!Analysis
    <3> QED
      BY <1>2, <3>1, <3>2 DEF SavedSince, Addresses!Busy
  <2>3. ASSUME NEW w \in Worker, Addresses!Finish(w) PROVE SavedSince' /\ Lost
    <3> DEFINE new == loaded[w].trace \ Private
    <3>1. /\ Addresses!Busy(w)
          /\ DOMAIN cache' = DOMAIN loaded[w].entries \cup new
          /\ overlap' = [a \in Addr |->
                 IF a \in DOMAIN cache' \ DOMAIN cache THEN {v \in Worker : Addresses!Busy(v)} \ {w}
                 ELSE overlap[a] \ {w}]
          /\ loaded' = [loaded EXCEPT ![w] = Addresses!Idle]
      BY <2>3 DEF Addresses!Finish
    <3>2. ~Addresses!Busy(w)' /\ \A v \in Worker \ {w} : loaded'[v] = loaded[v]
      BY <1>2, <3>1 DEF SavedSince, Addresses!Busy
    <3>3. DOMAIN cache' \subseteq Addr
      BY <1>2, <3>1 DEF SavedSince
    <3>4. ASSUME NEW v \in Worker, Addresses!Busy(v)', NEW a \in DOMAIN cache' \ DOMAIN loaded'[v].entries
          PROVE  v \in overlap'[a]
      <4>1. v # w /\ Addresses!Busy(v) /\ loaded'[v] = loaded[v]
        BY <3>2, <3>4 DEF Addresses!Busy
      <4>2. a \in Addr
        BY <3>3
      <4>3. a \in DOMAIN cache => v \in overlap[a]
        BY <1>2, <4>1 DEF SavedSince
      <4> QED
        BY <3>1, <4>1, <4>2, <4>3
    <3>5. SavedSince'
      <4>1. \A v \in Worker : Addresses!Busy(v)' =>
              loaded'[v].trace \subseteq Addr /\ DOMAIN loaded'[v].entries \subseteq Addr
        BY <1>2, <3>2 DEF SavedSince, Addresses!Busy
      <4> QED
        BY <1>2, <3>1, <3>3, <3>4, <4>1 DEF SavedSince
    <3>6. Lost
      BY <1>2, <3>1, <3>2 DEF SavedSince
    <3> QED
      BY <3>5, <3>6
  <2>4. CASE Addresses!Die
    BY <1>2, <2>4 DEF Addresses!Die, SavedSince, Addresses!Busy
  <2> QED
    BY <1>2, <2>1, <2>2, <2>3, <2>4
       DEF Addresses!Next, Addresses!Recheck, Addresses!vars, Addresses!cacheVars
<1> QED
  BY <1>1, <1>2, PTL DEF Addresses!Spec, LostOnlyByOverlap, Addresses!LostOnlyByOverlap
-----------------------------------------------------------------------------
\* A region the owner has decided, wherever it is written down.
OwnersWord(ix, in) == in # Addresses!TBA => <<ix, in>> \in said
OwnersContext(context) == context # None => OwnersWord(context.ix, context.in)
OwnersList(exchanges) == \A ix \in DOMAIN exchanges : OwnersWord(ix, exchanges[ix].in)
OwnersEntries(entries) == \A a \in DOMAIN entries : OwnersContext(entries[a].context)
OwnersFile(file) == OwnersList(file) /\ \A ix \in DOMAIN file : DOMAIN file[ix] = {"in", "lan"}

\* The registry, the cache, and everybody's copies of them, hold the owner's decisions.
OwnersEverywhere ==
    /\ DOMAIN loaded = Worker
    /\ OwnersFile(lans) /\ OwnersEntries(cache)
    /\ \A o \in DOMAIN held : OwnersFile(held[o])
    /\ \A w \in Worker : OwnersEntries(loaded[w].entries) /\ OwnersList(loaded[w].exchanges)
    /\ \A h \in handed : OwnersWord(h.context.ix, h.context.in)

\* A resolution has the exchange that the registry has, or that an entry had.
LEMMA ResolvedAsDecided ==
    ASSUME NEW entries, NEW exchanges, OwnersEntries(entries), OwnersList(exchanges),
           NEW a, NEW r \in Addresses!Resolutions(a, entries, exchanges)
    PROVE  OwnersContext(r.context)
<1> DEFINE context == Addresses!classify_ixp_fabric(a, exchanges)
<1>1. OwnersContext(context)
  BY DEF OwnersList, OwnersContext, Addresses!classify_ixp_fabric
<1>2. r \in Addresses!Asked(a, context) => r.context = context
  BY DEF Addresses!Asked, Addresses!Answer, Addresses!Unowned
<1>3. Addresses!find_port_override(a, context).context = context
  BY DEF Addresses!find_port_override, Addresses!Answer
<1>4. \/ r.context = None \/ r.context = context
      \/ a \in DOMAIN entries /\ r = entries[a]
  <2> HIDE DEF context
  <2> DEFINE R == IF a \in Private THEN {Addresses!Answer(None, "private", None)}
                  ELSE IF a \in DOMAIN PortOf THEN {Addresses!find_port_override(a, context)}
                  ELSE IF a \in DOMAIN PrefixOwner
                       THEN {Addresses!Answer(PrefixOwner[a], "prefix_override", context)}
                  ELSE IF a \in DOMAIN entries
                       THEN {IF a \in OverrideLans THEN Addresses!Refreshed(entries[a], context)
                             ELSE entries[a]}
                  ELSE Addresses!Asked(a, context)
  <2>1. r \in R
    BY DEF Addresses!Resolutions, context
  <2>2. CASE r = Addresses!Answer(None, "private", None)
    BY <2>2 DEF Addresses!Answer
  <2>3. CASE r = Addresses!find_port_override(a, context)
    BY <1>3, <2>3
  <2>4. CASE r = Addresses!Answer(PrefixOwner[a], "prefix_override", context)
    BY <2>4 DEF Addresses!Answer
  <2>5. CASE r = Addresses!Refreshed(entries[a], context)
    BY <2>5 DEF Addresses!Answer, Addresses!Refreshed
  <2>6. CASE a \in DOMAIN entries /\ r = entries[a]
    BY <2>6
  <2>7. CASE r \in Addresses!Asked(a, context)
    BY <1>2, <2>7
  <2> QED
    BY <2>1, <2>2, <2>3, <2>4, <2>5, <2>6, <2>7
<1> QED
  BY <1>1, <1>4 DEF OwnersEntries, OwnersContext

\* What is decided stays said.
LEMMA SaidStays ==
    ASSUME said \subseteq said'
    PROVE  /\ \A ix, in : OwnersWord(ix, in) => OwnersWord(ix, in)'
           /\ \A c : OwnersContext(c) => OwnersContext(c)'
           /\ \A e : OwnersList(e) => OwnersList(e)'
           /\ \A e : OwnersEntries(e) => OwnersEntries(e)'
           /\ \A f : OwnersFile(f) => OwnersFile(f)'
BY DEF OwnersWord, OwnersContext, OwnersList, OwnersEntries, OwnersFile

\* Exchanges handed over with resolutions have the owner's decisions.
LEMMA HandedAsDecided ==
    ASSUME NEW l, NEW found, OwnersEntries(l.entries), OwnersList(l.exchanges),
           Addresses!resolve_traceroute_hops(l, found)
    PROVE  \A h \in handed' : OwnersWord(h.context.ix, h.context.in)
<1>1. ASSUME NEW h \in handed' PROVE OwnersWord(h.context.ix, h.context.in)
  <2>1. PICK a \in l.trace : found[a].context # None /\ h.context = found[a].context
    BY DEF Addresses!resolve_traceroute_hops
  <2>2. found[a] \in Addresses!Resolutions(a, l.entries, l.exchanges)
    BY DEF Addresses!resolve_traceroute_hops
  <2>3. OwnersContext(found[a].context)
    BY <2>2, ResolvedAsDecided
  <2> QED
    BY <2>1, <2>3 DEF OwnersContext
<1> QED
  BY <1>1

\* An operation that begins has the file as it is; none that goes on has another.
LEMMA CopiesAreOwners ==
    ASSUME OwnersEverywhere, said \subseteq said',
           \A o \in DOMAIN held' : IF o \in DOMAIN held THEN held'[o] = held[o] ELSE held'[o] = lans
    PROVE  (\A o \in DOMAIN held : OwnersFile(held[o]))'
BY SaidStays DEF OwnersEverywhere

\* A step of the registry that leaves the owner's decisions in the file and the copies.
LEMMA OwnersKept ==
    ASSUME OwnersEverywhere, UNCHANGED <<cache, loaded>>, handed' = {}, said \subseteq said',
           \A o \in DOMAIN held' : IF o \in DOMAIN held THEN held'[o] = held[o] ELSE held'[o] = lans,
           OwnersFile(lans)'
    PROVE  OwnersEverywhere'
BY CopiesAreOwners, SaidStays DEF OwnersEverywhere

\* An operation that ends without its copy being out of date at an exchange.
UpToDate(o, ix) == ix \in DOMAIN held[o] /\ held[o][ix] = lans[ix]

LEMMA EndingSaves ==
    ASSUME OwnersEverywhere, NEW o \in Addresses!Operation, Addresses!End(o)
    PROVE  /\ OwnersFile(held[o])
           /\ Addresses!Underway(o) /\ ~Addresses!Underway(o)'
           /\ \A p \in DOMAIN held' : IF p \in DOMAIN held THEN held'[p] = held[p] ELSE held'[p] = lans
           /\ \A ix \in DOMAIN lans : Addresses!Outdated(o, ix) \/ UpToDate(o, ix)
BY DEF Addresses!End, Addresses!Underway, Addresses!Outdated, UpToDate, OwnersEverywhere

(***************************************************************************)
(* Nobody but the owner decides that an exchange is in or out of the       *)
(* region, in the registry, the cache or a trace, however many operations  *)
(* rewrite the registry at a time; and neither the decision nor a known    *)
(* LAN is lost to an answer of PeeringDB, but only to an operation that    *)
(* had read the file before the entry was last written.                    *)
(***************************************************************************)
THEOREM OwnersDecisionsHold == Addresses!Spec => RegistryIsTheOwners
<1> DEFINE IInv == OwnersEverywhere
           Stays == \A ix \in DOMAIN lans :
             \/ Addresses!Listed(ix)' /\ lans'[ix].in = lans[ix].in /\ (Addresses!HasLan(ix) => Addresses!HasLan(ix)')
             \/ \E d \in Decision : Addresses!confirm_ixp_region(ix, d) \/ Addresses!add_or_confirm_ixp(ix, d)
             \/ Addresses!prune_orphaned_entries /\ ~Addresses!Listed(ix)'
             \/ \E o \in Addresses!Operation :
                    Addresses!Underway(o) /\ ~Addresses!Underway(o)' /\ Addresses!Outdated(o, ix)
<1>1. Addresses!Init => IInv
  BY DEF Addresses!Init, Addresses!RegistryInit, Addresses!Idle, OwnersEverywhere, OwnersFile, OwnersList, OwnersEntries
<1>2. ASSUME IInv, [Addresses!Next]_(Addresses!vars) PROVE IInv' /\ Stays
  <2>1. ASSUME UNCHANGED <<lans, said>> PROVE Stays
    BY <2>1 DEF Addresses!Listed, Addresses!HasLan
  <2>3. ASSUME Addresses!RegistryNext, handed' = {}, UNCHANGED <<cache, loaded>> PROVE IInv' /\ Stays
    <3>a. OwnersFile(lans)
      BY <1>2 DEF OwnersEverywhere
    <3>1. CASE Addresses!build_ixp_lan_registry
      <4> DEFINE b == <<"build">>
      <4>0. b \in Addresses!Operation /\ Addresses!End(b) /\ UNCHANGED said
        BY <3>1 DEF Addresses!build_ixp_lan_registry, Addresses!Operation
      <4>1. PICK known, fetched : lans' = [ix \in DOMAIN held[b] \cup known |->
                [in |-> Addresses!KeptDecision(held[b], ix), lan |-> Addresses!KeptLan(held[b], ix, known, fetched)]]
        BY <3>1 DEF Addresses!build_ixp_lan_registry, Addresses!Rebuild
      <4> HIDE DEF b
      <4>2. /\ OwnersFile(held[b]) /\ Addresses!Underway(b) /\ ~Addresses!Underway(b)'
            /\ \A p \in DOMAIN held' : IF p \in DOMAIN held THEN held'[p] = held[p] ELSE held'[p] = lans
            /\ \A ix \in DOMAIN lans : Addresses!Outdated(b, ix) \/ UpToDate(b, ix)
        BY <1>2, <4>0, EndingSaves
      <4>3. OwnersFile(lans)'
        <5>1. OwnersFile(lans')
          BY <4>1, <4>2 DEF OwnersFile, OwnersList, OwnersWord, Addresses!KeptDecision
        <5> QED
          BY <4>0, <5>1 DEF OwnersFile, OwnersList, OwnersWord
      <4>4. IInv'
        BY <1>2, <2>3, <4>0, <4>2, <4>3, OwnersKept
      <4>5. ASSUME NEW ix \in DOMAIN lans, UpToDate(b, ix)
            PROVE  /\ Addresses!Listed(ix)' /\ lans'[ix].in = lans[ix].in
                   /\ Addresses!HasLan(ix) => Addresses!HasLan(ix)'
        <5>1. ix \in DOMAIN lans' /\ lans'[ix].in = lans[ix].in
          BY <4>1, <4>5 DEF Addresses!KeptDecision, UpToDate
        <5>2. lans'[ix].lan = Addresses!KeptLan(held[b], ix, known, fetched)
          BY <4>1, <4>5 DEF UpToDate
        <5> QED
          BY <4>5, <5>1, <5>2 DEF Addresses!KeptLan, Addresses!HasLan, Addresses!Listed, UpToDate
      <4>6. Stays
        BY <4>0, <4>2, <4>5
      <4> QED
        BY <4>4, <4>6
    <3>2. CASE Addresses!prune_orphaned_entries
      <4> DEFINE b == <<"prune">>
      <4>0. b \in Addresses!Operation /\ Addresses!End(b) /\ UNCHANGED said
        BY <3>2 DEF Addresses!prune_orphaned_entries, Addresses!Operation
      <4>1. PICK kept \in SUBSET DOMAIN held[b] : lans' = lans \/ lans' = [ix \in kept |-> held[b][ix]]
        <5>1. PICK tracked : LET kept == DOMAIN held[b] \cap (Local \cup tracked)
                             IN lans' = IF kept = DOMAIN held[b] THEN lans ELSE [ix \in kept |-> held[b][ix]]
          BY <3>2 DEF Addresses!prune_orphaned_entries
        <5>2. DOMAIN held[b] \cap (Local \cup tracked) \in SUBSET DOMAIN held[b]
          OBVIOUS
        <5> QED
          BY <5>1, <5>2
      <4> HIDE DEF b
      <4>2. /\ OwnersFile(held[b]) /\ Addresses!Underway(b) /\ ~Addresses!Underway(b)'
            /\ \A p \in DOMAIN held' : IF p \in DOMAIN held THEN held'[p] = held[p] ELSE held'[p] = lans
            /\ \A ix \in DOMAIN lans : Addresses!Outdated(b, ix) \/ UpToDate(b, ix)
        BY <1>2, <4>0, EndingSaves
      <4>3. OwnersFile(lans)'
        <5>1. OwnersFile(lans')
          BY <3>a, <4>1, <4>2 DEF OwnersFile, OwnersList, OwnersWord
        <5> QED
          BY <4>0, <5>1 DEF OwnersFile, OwnersList, OwnersWord
      <4>4. IInv'
        BY <1>2, <2>3, <4>0, <4>2, <4>3, OwnersKept
      <4>5. ASSUME NEW ix \in DOMAIN lans, UpToDate(b, ix), Addresses!Listed(ix)'
            PROVE  lans'[ix] = lans[ix]
        BY <4>1, <4>5 DEF UpToDate, Addresses!Listed
      <4>6. Stays
        <5> SUFFICES ASSUME NEW ix \in DOMAIN lans, Addresses!Listed(ix)', UpToDate(b, ix)
                     PROVE  lans'[ix].in = lans[ix].in /\ (Addresses!HasLan(ix) => Addresses!HasLan(ix)')
          BY <3>2, <4>0, <4>2
        <5> QED
          BY <4>5 DEF Addresses!Listed, Addresses!HasLan
      <4> QED
        BY <4>4, <4>6
    <3>3. ASSUME NEW x \in Ix, NEW d \in Decision, Addresses!confirm_ixp_region(x, d)
          PROVE  IInv' /\ Stays
      <4>1. /\ x \in DOMAIN lans /\ UNCHANGED held
            /\ lans' = [lans EXCEPT ![x].in = d]
            /\ said' = said \cup {<<x, d>>}
        BY <3>3 DEF Addresses!confirm_ixp_region, Addresses!Listed, Addresses!Decide
      <4>2. /\ DOMAIN lans' = DOMAIN lans
            /\ \A ix \in DOMAIN lans : ix # x => lans'[ix] = lans[ix]
            /\ lans'[x] = [lans[x] EXCEPT !.in = d]
        BY <4>1
      <4>3. DOMAIN lans'[x] = {"in", "lan"} /\ lans'[x].in = d
        BY <3>a, <4>1, <4>2 DEF OwnersFile
      <4>4. OwnersFile(lans)'
        BY <3>a, <4>1, <4>2, <4>3 DEF OwnersFile, OwnersList, OwnersWord
      <4>5. IInv'
        BY <1>2, <2>3, <4>1, <4>4, OwnersKept
      <4>6. Stays
        BY <3>3, <4>2 DEF Addresses!Listed, Addresses!HasLan
      <4> QED
        BY <4>5, <4>6
    <3>4. ASSUME NEW x \in Ix, NEW d \in Decision, Addresses!add_or_confirm_ixp(x, d)
          PROVE  IInv' /\ Stays
      <4> DEFINE b == <<"add", x, d>>
      <4>0. /\ b \in Addresses!Operation /\ Addresses!End(b)
            /\ said' = said \cup {<<x, d>>}
        BY <3>4 DEF Addresses!add_or_confirm_ixp, Addresses!Operation, Addresses!Decide
      <4>1. PICK fetched : lans' = [ix \in DOMAIN held[b] \cup {x} |->
                               IF ix = x THEN [in |-> d, lan |-> fetched # {}] ELSE held[b][ix]]
        BY <3>4 DEF Addresses!add_or_confirm_ixp
      <4> HIDE DEF b
      <4>2. /\ OwnersFile(held[b]) /\ Addresses!Underway(b) /\ ~Addresses!Underway(b)'
            /\ \A p \in DOMAIN held' : IF p \in DOMAIN held THEN held'[p] = held[p] ELSE held'[p] = lans
            /\ \A ix \in DOMAIN lans : Addresses!Outdated(b, ix) \/ UpToDate(b, ix)
        BY <1>2, <4>0, EndingSaves
      <4>3. OwnersFile(lans)'
        BY <4>0, <4>1, <4>2 DEF OwnersFile, OwnersList, OwnersWord
      <4>4. IInv'
        BY <1>2, <2>3, <4>0, <4>2, <4>3, OwnersKept
      <4>5. ASSUME NEW ix \in DOMAIN lans, ix # x, UpToDate(b, ix)
            PROVE  ix \in DOMAIN lans' /\ lans'[ix] = lans[ix]
        BY <4>1, <4>5 DEF UpToDate
      <4>6. Stays
        BY <3>4, <4>0, <4>2, <4>5 DEF Addresses!Listed, Addresses!HasLan
      <4> QED
        BY <4>4, <4>6
    <3>5. CASE Addresses!BeginOperation \/ Addresses!AbandonOperation
      <4>1. /\ UNCHANGED <<lans, said>>
            /\ \A p \in DOMAIN held' : IF p \in DOMAIN held THEN held'[p] = held[p] ELSE held'[p] = lans
        BY <3>5 DEF Addresses!BeginOperation, Addresses!AbandonOperation, Addresses!Begin, Addresses!End,
                    Addresses!Underway, Addresses!load_ixp_lan_registry
      <4>2. OwnersFile(lans)'
        BY <3>a, <4>1 DEF OwnersFile, OwnersList, OwnersWord
      <4> QED
        BY <1>2, <2>1, <2>3, <4>1, <4>2, OwnersKept
    <3> QED
      BY <2>3, <3>1, <3>2, <3>3, <3>4, <3>5 DEF Addresses!RegistryNext
  <2>4. ASSUME NEW w \in Worker, Addresses!Load(w) PROVE IInv' /\ Stays
    <3>1. PICK trace \in Traces :
            loaded' = [loaded EXCEPT ![w] = Addresses!Analysis(trace, cache)]
      BY <2>4 DEF Addresses!Load, Addresses!IpResolutionCache_load
    <3>2. handed' = {} /\ UNCHANGED <<lans, held, said, cache>>
      BY <2>4 DEF Addresses!Load, Addresses!registryVars
    <3>3. /\ Addresses!Analysis(trace, cache).entries = cache
          /\ Addresses!Analysis(trace, cache).exchanges = lans
      BY DEF Addresses!Analysis, Addresses!load_ixp_lan_registry
    <3>4. \A v \in Worker : OwnersEntries(loaded'[v].entries) /\ OwnersList(loaded'[v].exchanges)
      BY <1>2, <3>1, <3>3 DEF OwnersEverywhere, OwnersFile
    <3>5. DOMAIN loaded' = Worker
      BY <1>2, <3>1 DEF OwnersEverywhere
    <3>6. IInv'
      BY <1>2, <3>2, <3>4, <3>5, SaidStays DEF OwnersEverywhere
    <3> QED
      BY <2>1, <3>2, <3>6
  <2>5. ASSUME NEW w \in Worker, Addresses!Finish(w) PROVE IInv' /\ Stays
    <3> DEFINE l == loaded[w]
               new == l.trace \ Private
    <3>1. PICK found : /\ Addresses!resolve_traceroute_hops(l, found)
                       /\ cache' = [a \in DOMAIN l.entries \cup new |->
                                       IF a \in new THEN found[a] ELSE l.entries[a]]
      BY <2>5 DEF Addresses!Finish
    <3>2. loaded' = [loaded EXCEPT ![w] = Addresses!Idle] /\ UNCHANGED <<lans, held, said>>
      BY <2>5 DEF Addresses!Finish, Addresses!registryVars
    <3>3. OwnersEntries(l.entries) /\ OwnersList(l.exchanges)
      BY <1>2 DEF OwnersEverywhere
    <3>4. \A h \in handed' : OwnersWord(h.context.ix, h.context.in)
      BY <3>1, <3>3, HandedAsDecided
    <3>5. \A a \in l.trace : OwnersContext(found[a].context)
      <4>1. \A a \in l.trace : found[a] \in Addresses!Resolutions(a, l.entries, l.exchanges)
        BY <3>1 DEF Addresses!resolve_traceroute_hops
      <4> QED
        BY <3>3, <4>1, ResolvedAsDecided
    <3>6. \A a \in DOMAIN cache' : OwnersContext(cache'[a].context)
      BY <3>1, <3>3, <3>5 DEF OwnersEntries
    <3>7. OwnersEntries(Addresses!Idle.entries) /\ OwnersList(Addresses!Idle.exchanges)
      BY DEF OwnersEntries, OwnersList, Addresses!Idle
    <3>8. \A v \in Worker : OwnersEntries(loaded'[v].entries) /\ OwnersList(loaded'[v].exchanges)
      BY <1>2, <3>2, <3>7 DEF OwnersEverywhere
    <3>9. OwnersEntries(cache)' /\ DOMAIN loaded' = Worker
      BY <1>2, <3>2, <3>6 DEF OwnersEverywhere, OwnersEntries, OwnersContext, OwnersWord
    <3>10. IInv'
      <4>1. \A h \in handed' : OwnersWord(h.context.ix, h.context.in)'
        BY <3>2, <3>4, SaidStays
      <4> QED
        BY <1>2, <3>2, <3>8, <3>9, <4>1, SaidStays DEF OwnersEverywhere
    <3> QED
      BY <2>1, <3>2, <3>10
  <2>6. CASE Addresses!Recheck
    <3>1. PICK trace, found :
            Addresses!resolve_traceroute_hops(Addresses!Analysis(trace, cache), found)
      BY <2>6 DEF Addresses!Recheck
    <3>2. /\ Addresses!Analysis(trace, cache).entries = cache
          /\ Addresses!Analysis(trace, cache).exchanges = lans
      BY DEF Addresses!Analysis, Addresses!load_ixp_lan_registry
    <3>3. UNCHANGED <<lans, held, said, cache, loaded>>
      BY <2>6 DEF Addresses!Recheck, Addresses!registryVars
    <3>4. \A h \in handed' : OwnersWord(h.context.ix, h.context.in)
      BY <1>2, <3>1, <3>2, HandedAsDecided DEF OwnersEverywhere, OwnersFile
    <3>5. IInv'
      BY <1>2, <3>3, <3>4, SaidStays DEF OwnersEverywhere
    <3> QED
      BY <2>1, <3>3, <3>5
  <2>7. CASE Addresses!Die
    <3>1. UNCHANGED <<lans, held, said, cache>> /\ handed' = {}
      BY <2>7 DEF Addresses!Die, Addresses!registryVars
    <3>2. \A v \in Worker : OwnersEntries(loaded'[v].entries) /\ OwnersList(loaded'[v].exchanges)
      BY <2>7 DEF Addresses!Die, OwnersEntries, OwnersList, Addresses!Idle
    <3>3. DOMAIN loaded' = Worker
      BY <2>7 DEF Addresses!Die
    <3>4. IInv'
      BY <1>2, <3>1, <3>2, <3>3, SaidStays DEF OwnersEverywhere
    <3> QED
      BY <2>1, <3>1, <3>4
  <2>8. CASE UNCHANGED Addresses!vars
    <3>1. UNCHANGED <<lans, held, said, cache, loaded, handed>>
      BY <2>8 DEF Addresses!vars, Addresses!registryVars, Addresses!cacheVars
    <3>2. IInv'
      BY <1>2, <3>1 DEF OwnersEverywhere, OwnersFile, OwnersList, OwnersEntries, OwnersContext, OwnersWord
    <3> QED
      BY <2>1, <3>1, <3>2
  <2> QED
    BY <1>2, <2>3, <2>4, <2>5, <2>6, <2>7, <2>8 DEF Addresses!Next
<1>3. IInv => Addresses!OnlyTheOwnerDecides
  BY DEF OwnersEverywhere, OwnersWord, Addresses!OnlyTheOwnerDecides
<1> QED
  BY <1>1, <1>2, <1>3, PTL
     DEF Addresses!Spec, RegistryIsTheOwners, Addresses!RecognisedStays
-----------------------------------------------------------------------------
\* A listing says of a probe what Atlas did, and where it stands; of a probe
\* that stands nowhere in the region it says nothing.
LEMMA ListingIs ==
    ASSUME atlas \in Worlds
    PROVE  LET new == Again!build_probe_listing IN
           /\ DOMAIN new \subseteq DOMAIN atlas
           /\ \A p \in DOMAIN new :
                /\ new[p].cc = Again!Where(p) /\ new[p].cc \in Economy
                /\ new[p].asn = atlas[p].asn /\ new[p].connected = atlas[p].connected
                /\ Again!Override(p, new[p].asn) \in Network
           /\ \A p \in DOMAIN atlas : p \notin DOMAIN new => Again!Where(p) = None
<1> DEFINE new == Again!build_probe_listing
           cc(p) == IF atlas[p].cc \in Economy THEN atlas[p].cc ELSE PROBE_ECONOMY_OVERRIDES[p]
<1>1. DOMAIN new = {q \in DOMAIN atlas : atlas[q].cc \in Economy \/ q \in DOMAIN PROBE_ECONOMY_OVERRIDES}
  BY DEF Again!build_probe_listing
<1>2. ASSUME NEW p \in DOMAIN new
      PROVE  /\ new[p].cc = Again!Where(p) /\ new[p].cc \in Economy
             /\ new[p].asn = atlas[p].asn /\ new[p].connected = atlas[p].connected
             /\ Again!Override(p, new[p].asn) \in Network
  <2>1. p \in DOMAIN atlas /\ (atlas[p].cc \in Economy \/ p \in DOMAIN PROBE_ECONOMY_OVERRIDES)
    BY <1>1, <1>2
  <2>2. /\ atlas[p] = [cc |-> atlas[p].cc, asn |-> atlas[p].asn, connected |-> atlas[p].connected]
        /\ atlas[p].asn \in Network
    BY <2>1, RetestAssumption
  <2>3. new[p] = [atlas[p] EXCEPT !.cc = cc(p)]
    BY <1>2 DEF Again!build_probe_listing
  <2>4. new[p] = [cc |-> cc(p), asn |-> atlas[p].asn, connected |-> atlas[p].connected]
    BY <2>2, <2>3
  <2>5. cc(p) \in Economy /\ cc(p) = Again!Where(p)
    BY <2>1, RetestAssumption DEF Again!Where
  <2> QED
    BY <2>2, <2>4, <2>5, RetestAssumption DEF Again!Override
<1>3. \A p \in DOMAIN atlas : p \notin DOMAIN new => Again!Where(p) = None
  BY <1>1 DEF Again!Where
<1>4. DOMAIN new \subseteq DOMAIN atlas
  BY <1>1
<1> HIDE DEF new
<1>5. /\ DOMAIN new \subseteq DOMAIN atlas
      /\ \A p \in DOMAIN new :
           /\ new[p].cc = Again!Where(p) /\ new[p].cc \in Economy
           /\ new[p].asn = atlas[p].asn /\ new[p].connected = atlas[p].connected
           /\ Again!Override(p, new[p].asn) \in Network
      /\ \A p \in DOMAIN atlas : p \notin DOMAIN new => Again!Where(p) = None
  BY <1>2, <1>3, <1>4
<1> QED
  BY <1>5 DEF new

\* One of a set there is one of.
LEMMA TheOnlyIs ==
    ASSUME NEW S, Again!TheOnly(S) # None
    PROVE  Again!TheOnly(S) \in S
BY DEF Again!TheOnly

LEMMA OneIsTheOnly ==
    ASSUME NEW x, x # None
    PROVE  Again!TheOnly({x}) = x
BY DEF Again!TheOnly

\* What a retest is rebuilt from is of the region, whatever has moved.
OfTheRegistered ==
    /\ atlas \in Worlds
    /\ DOMAIN probeListing \subseteq DOMAIN atlas
    /\ \A p \in DOMAIN probeListing : probeListing[p].cc \in Economy /\ Again!probe_asn(p) \in Network
    /\ latest.probes \subseteq DOMAIN atlas /\ latest.cc \in Economy

\* While nothing has moved since, the probes that measured last are listed,
\* connected, in the economy they were filed under, one of them on its network.
WhereItWas ==
    still =>
        /\ \A p \in latest.probes : /\ p \in Again!Connected(probeListing)
                                    /\ probeListing[p].cc = latest.cc
        /\ \E p \in latest.probes : latest.asn = Again!probe_asn(p)

\* The vantage is where the measurement was filed, or where its probes are.
LEMMA VantageIs ==
    /\ Again!original_vantage.cc = latest.cc \/ \E p \in latest.probes \cap DOMAIN probeListing :
                                                   Again!original_vantage.cc = probeListing[p].cc
    /\ Again!Source.cc = Again!original_vantage.cc
<1> DEFINE ccs == {probeListing[p].cc : p \in latest.probes \cap DOMAIN probeListing}
<1>1. CASE latest.cc \in ccs \/ Again!TheOnly(ccs) = None
  BY <1>1 DEF Again!original_vantage, Again!Source
<1>2. CASE ~(latest.cc \in ccs \/ Again!TheOnly(ccs) = None)
  <2>1. Again!TheOnly(ccs) \in ccs
    BY <1>2, TheOnlyIs
  <2> QED
    BY <1>2, <2>1 DEF Again!original_vantage, Again!Source
<1> QED
  BY <1>1, <1>2

\* So a retest is of an economy of the region.
LEMMA CandidateIs ==
    ASSUME OfTheRegistered, Again!candidate_from_finding # None
    PROVE  /\ Again!candidate_from_finding.cc \in Economy
           /\ ~Again!FromItself => Again!candidate_from_finding = Again!Source
<1>1. Again!Source.cc \in Economy
  BY VantageIs DEF OfTheRegistered
<1>2. CASE Again!FromItself
  <2>1. Again!UpstreamMeasures /\ Again!candidate_from_finding = [cc |-> finding.cc, asn |-> finding.asn]
    BY <1>2 DEF Again!candidate_from_finding
  <2>2. PICK p \in DOMAIN probeListing : probeListing[p].cc = finding.cc
    BY <2>1 DEF Again!UpstreamMeasures, Again!source_probe_ids, Again!Connected
  <2> QED
    BY <1>2, <2>1, <2>2 DEF OfTheRegistered
<1>3. CASE ~Again!FromItself
  BY <1>1, <1>3 DEF Again!candidate_from_finding
<1> QED
  BY <1>2, <1>3

LEMMA RetestAlone == MCSpec => Again!Spec
<1>1. MCInit => Again!Init
  BY DEF MCInit
<1>2. [MCNext]_mcVars => [Again!Next]_(Again!vars)
  BY DEF MCNext, mcVars, retestVars, Again!vars,
         WeekNext, BacklogNext, ClientNext, AddressNext, ConvergenceNext, RetestNext
<1> QED
  BY <1>1, <1>2, PTL DEF MCSpec, Again!Spec

\* The probes a retest asks are those of the network it is from, as listed, or
\* whichever Atlas has in the economy.
LEMMA AskedAre ==
    ASSUME OfTheRegistered, NEW c, c.cc \in Economy,
           NEW who \in Again!Asked(c), NEW p \in who \cap Again!Connected(atlas)
    PROVE  /\ who \subseteq DOMAIN atlas
           /\ probeListing = Again!build_probe_listing =>
                /\ \A q \in who \cap Again!Connected(atlas) :
                     q \in Again!Connected(probeListing) /\ probeListing[q].cc = c.cc
                /\ Again!VantageAsn(c, p) = Again!probe_asn(p)
<1>1. \A q \in who : \/ (q \in Again!Connected(probeListing) /\ probeListing[q].cc = c.cc)
                     \/ (q \in Again!Connected(atlas) /\ atlas[q].cc = c.cc)
  BY DEF Again!Asked, Again!source_probe_ids
<1>2. who \subseteq DOMAIN atlas
  BY <1>1 DEF OfTheRegistered, Again!Connected
<1>3. ASSUME probeListing = Again!build_probe_listing, NEW q \in who \cap Again!Connected(atlas)
      PROVE  q \in Again!Connected(probeListing) /\ probeListing[q].cc = c.cc
  <2>1. CASE q \in Again!Connected(probeListing) /\ probeListing[q].cc = c.cc
    BY <2>1
  <2>2. CASE q \in Again!Connected(atlas) /\ atlas[q].cc = c.cc
    <3>1. q \in DOMAIN atlas /\ atlas[q].connected /\ Again!Where(q) = c.cc
      BY <2>2 DEF Again!Connected, Again!Where
    <3>2. q \in DOMAIN probeListing /\ probeListing[q].cc = Again!Where(q)
          /\ probeListing[q].connected = atlas[q].connected
      BY <1>3, <3>1, ListingIs, RetestAssumption DEF OfTheRegistered
    <3> QED
      BY <3>1, <3>2 DEF Again!Connected
  <2> QED
    BY <1>1, <1>3, <2>1, <2>2
<1> QED
  BY <1>2, <1>3 DEF Again!VantageAsn, Again!probe_asn, Again!Connected

LEMMA RetestsKeep ==
    ASSUME OfTheRegistered, WhereItWas, [Again!Next]_(Again!vars)
    PROVE  OfTheRegistered' /\ WhereItWas'
<1>1. CASE Again!Move
  <2>1. atlas' \in Worlds /\ DOMAIN atlas' = DOMAIN atlas
    BY <1>1, RetestAssumption DEF Again!Move, OfTheRegistered
  <2>2. still' = FALSE /\ UNCHANGED <<probeListing, latest>>
    BY <1>1 DEF Again!Move
  <2> QED
    BY <2>1, <2>2 DEF OfTheRegistered, WhereItWas, Again!probe_asn, Again!Override
<1>2. CASE Again!Relist
  <2>1. /\ probeListing' = Again!build_probe_listing /\ still' = FALSE
        /\ UNCHANGED <<atlas, latest>>
    BY <1>2 DEF Again!Relist
  <2>2. /\ DOMAIN probeListing' \subseteq DOMAIN atlas
        /\ \A p \in DOMAIN probeListing' :
             probeListing'[p].cc \in Economy /\ Again!Override(p, probeListing'[p].asn) \in Network
    BY <2>1, ListingIs DEF OfTheRegistered
  <2> QED
    BY <2>1, <2>2 DEF OfTheRegistered, WhereItWas, Again!probe_asn, Again!Override
<1>3. CASE Again!Reregister \/ UNCHANGED Again!vars
  <2>1. UNCHANGED <<atlas, probeListing, latest, still>>
    BY <1>3 DEF Again!Reregister, Again!vars
  <2> QED
    BY <2>1 DEF OfTheRegistered, WhereItWas, Again!probe_asn, Again!Override, Again!Connected
<1>4. CASE Again!Corroborate
  <2> DEFINE c == Again!candidate_from_finding
  <2>1. c # None /\ UNCHANGED <<atlas, probeListing>> /\ still' = (probeListing = Again!build_probe_listing)
    BY <1>4 DEF Again!Corroborate
  <2>2. PICK who \in Again!Asked(c), target \in Again!Targets, p \in Again!Connected(atlas) :
          /\ p \in who
          /\ latest' = [cc |-> c.cc, asn |-> Again!VantageAsn(c, p),
                        probes |-> who \cap Again!Connected(atlas), target |-> target]
    BY <1>4 DEF Again!Corroborate
  <2>3. c.cc \in Economy
    BY <2>1, CandidateIs
  <2> HIDE DEF c
  <2>4. /\ who \subseteq DOMAIN atlas
        /\ probeListing = Again!build_probe_listing =>
             /\ \A q \in who \cap Again!Connected(atlas) :
                  q \in Again!Connected(probeListing) /\ probeListing[q].cc = c.cc
             /\ Again!VantageAsn(c, p) = Again!probe_asn(p)
    BY <2>2, <2>3, AskedAre
  <2>5. /\ latest'.cc = c.cc /\ latest'.asn = Again!VantageAsn(c, p)
        /\ latest'.probes = who \cap Again!Connected(atlas)
    BY <2>2
  <2>6. OfTheRegistered'
    BY <2>1, <2>3, <2>4, <2>5 DEF OfTheRegistered, Again!probe_asn, Again!Override
  <2>7. WhereItWas'
    BY <2>1, <2>2, <2>4, <2>5 DEF WhereItWas, Again!probe_asn, Again!Override, Again!Connected
  <2> QED
    BY <2>6, <2>7
<1> QED
  BY <1>1, <1>2, <1>3, <1>4 DEF Again!Next

\* A retest whose probes have not moved goes out from where they are.
LEMMA SettledThen ==
    ASSUME OfTheRegistered, WhereItWas
    PROVE  Again!Settled
<1> SUFFICES ASSUME still PROVE
        LET c == Again!candidate_from_finding IN
        IF c = None THEN Again!FromItself
        ELSE /\ c.cc \in {latest.cc, finding.cc}
             /\ Again!source_probe_ids(c.asn, c.cc) # {}
             /\ ~Again!same_network(c.asn, finding.target)
  BY DEF Again!Settled
<1> DEFINE ccs == {probeListing[p].cc : p \in latest.probes \cap DOMAIN probeListing}
<1>1. PICK p \in latest.probes : latest.asn = Again!probe_asn(p)
  BY DEF WhereItWas
<1>2. p \in Again!Connected(probeListing) /\ p \in DOMAIN probeListing /\ probeListing[p].cc = latest.cc
  BY <1>1 DEF WhereItWas, Again!Connected
<1>3. latest.cc \in ccs
  BY <1>1, <1>2
<1>4. latest.asn # None /\ [cc |-> latest.cc, asn |-> latest.asn] # None
  BY <1>1, <1>2, RetestAssumption DEF OfTheRegistered
<1>5. Again!original_vantage = [cc |-> latest.cc, asn |-> None]
  BY <1>3 DEF Again!original_vantage
<1>6. Again!Source = [cc |-> latest.cc, asn |-> latest.asn]
  BY <1>4, <1>5 DEF Again!Source
<1>7. Again!source_probe_ids(latest.asn, latest.cc) # {}
  BY <1>1, <1>2 DEF Again!source_probe_ids
<1>8. CASE Again!FromItself
  BY <1>8 DEF Again!candidate_from_finding, Again!UpstreamMeasures
<1>9. CASE ~Again!FromItself
  <2>1. Again!candidate_from_finding = [cc |-> latest.cc, asn |-> latest.asn]
    BY <1>4, <1>6, <1>9 DEF Again!candidate_from_finding
  <2>2. ~Again!same_network(latest.asn, finding.target)
    BY <1>4, <1>6, <1>9 DEF Again!FromItself
  <2> QED
    BY <1>4, <1>7, <2>1, <2>2
<1> QED
  BY <1>8, <1>9

\* With a current listing, one that has moved goes out from where they are now.
LEMMA ProbesAreFollowed ==
    ASSUME OfTheRegistered
    PROVE  Again!FollowsItsProbes
<1> DEFINE places == {Again!Where(p) : p \in latest.probes} \ {None}
           ccs == {probeListing[p].cc : p \in latest.probes \cap DOMAIN probeListing}
<1> SUFFICES ASSUME probeListing = Again!build_probe_listing, Again!candidate_from_finding # None,
                    ~Again!FromItself, NEW x \in places, places = {x}
             PROVE  Again!candidate_from_finding.cc = x
  BY DEF Again!FollowsItsProbes
<1>1. ccs = places
  <2>1. \A p \in DOMAIN probeListing : probeListing[p].cc = Again!Where(p) /\ probeListing[p].cc # None
    BY ListingIs, RetestAssumption DEF OfTheRegistered
  <2>2. \A p \in latest.probes : p \notin DOMAIN probeListing => Again!Where(p) = None
    BY ListingIs DEF OfTheRegistered
  <2> QED
    BY <2>1, <2>2
<1>2. ccs = {x}
  BY <1>1
<1>3. x # None
  OBVIOUS
<1>4. Again!original_vantage.cc = x
  <2>1. Again!TheOnly(ccs) = x
    BY <1>2, <1>3, OneIsTheOnly
  <2> QED
    BY <1>2, <1>3, <2>1 DEF Again!original_vantage
<1>5. Again!candidate_from_finding = Again!Source
  BY CandidateIs
<1> QED
  BY <1>4, <1>5, VantageIs

\* The address it was found at is the only one a target abroad is traced at.
LEMMA AddressIsKept ==
    /\ Again!Init => Again!KeepsItsAddress
    /\ Again!KeepsItsAddress /\ [Again!Next]_(Again!vars) => Again!KeepsItsAddress'
<1>1. Again!Init => Again!KeepsItsAddress
  BY DEF Again!Init, Again!KeepsItsAddress
<1>2. ASSUME Again!KeepsItsAddress, [Again!Next]_(Again!vars) PROVE Again!KeepsItsAddress'
  <2>1. CASE Again!Corroborate
    <3>1. finding' = finding /\ latest'.target \in Again!Targets
      BY <2>1 DEF Again!Corroborate
    <3> QED
      BY <1>2, <3>1 DEF Again!KeepsItsAddress, Again!Targets, Again!traced_address
  <2>2. CASE ~Again!Corroborate
    <3>1. UNCHANGED <<finding, latest>>
      BY <1>2, <2>2 DEF Again!Next, Again!vars, Again!Move, Again!Relist, Again!Reregister
    <3> QED
      BY <1>2, <3>1 DEF Again!KeepsItsAddress
  <2> QED
    BY <2>1, <2>2
<1> QED
  BY <1>1, <1>2

(***************************************************************************)
(* A finding is measured again from probes of one network, by their ids,   *)
(* in the economy it was last measured from or its upstream's; after its   *)
(* probes when they have moved; and abroad at the address it was found at. *)
(***************************************************************************)
THEOREM RetestsAreSettled == MCSpec => []RetestsSettle
<1> DEFINE IInv == OfTheRegistered /\ WhereItWas /\ Again!KeepsItsAddress
<1>1. Again!Init => IInv
  <2> SUFFICES ASSUME Again!Init PROVE IInv
    OBVIOUS
  <2>1. PICK o \in Outset : finding = o.finding /\ latest = o.latest
    BY DEF Again!Init
  <2>2. atlas \in Worlds /\ probeListing = Again!build_probe_listing /\ still = FALSE
    BY DEF Again!Init
  <2>3. OfTheRegistered
    BY <2>1, <2>2, ListingIs, RetestAssumption DEF OfTheRegistered, Again!probe_asn
  <2> QED
    BY <2>2, <2>3, AddressIsKept DEF WhereItWas
<1>2. IInv /\ [Again!Next]_(Again!vars) => IInv'
  BY RetestsKeep, AddressIsKept
<1>3. IInv => RetestsSettle
  BY SettledThen, ProbesAreFollowed DEF RetestsSettle, Again!RetestsSettle
<1> QED
  BY <1>1, <1>2, <1>3, RetestAlone, PTL DEF Again!Spec
-----------------------------------------------------------------------------
(***************************************************************************)
(* The convergence report.                                                 *)
(***************************************************************************)
LEMMA ConvergenceAlone == MCSpec => Convergence!Spec
<1>1. MCInit => Convergence!Init
  BY DEF MCInit
<1>2. [MCNext]_mcVars => [Convergence!Next]_(Convergence!vars)
  BY DEF MCNext, mcVars, convergenceVars, Convergence!vars,
         WeekNext, BacklogNext, ClientNext, AddressNext, ConvergenceNext, RetestNext
<1> QED
  BY <1>1, <1>2, PTL DEF MCSpec, Convergence!Spec

\* A set of numbers that holds 0 and goes up holds all of them.
LEMMA UpFromZero ==
    ASSUME NEW S, NEW L \in Nat, 0 \in S, \A n \in 0..(L - 1) : n \in S => n + 1 \in S
    PROVE  \A n \in 0..L : n \in S
<1> DEFINE Missed == {n \in Nat : n \in 0..L /\ n \notin S}
           Less == {p \in Nat \X Nat : p[1] < p[2]}
<1>1. SUFFICES ASSUME Missed # {} PROVE FALSE
  OBVIOUS
<1>2. PICK k \in Missed : \A j \in Missed : <<j, k>> \notin Less
  <2>1. IsWellFoundedOn(Less, Nat)
    BY NatLessThanWellFounded DEF OpToRel
  <2>2. Missed \in SUBSET Nat
    OBVIOUS
  <2> HIDE DEF Missed, Less
  <2> QED
    BY <1>1, <2>1, <2>2, WFMin
<1>3. k \in Nat /\ k \in 0..L /\ k \notin S /\ k # 0
  BY <1>2
<1>4. k - 1 \in Nat /\ k - 1 \in 0..(L - 1) /\ k - 1 \in 0..L /\ k - 1 < k /\ (k - 1) + 1 = k
  BY <1>3
<1>5. <<k - 1, k>> \in Less
  BY <1>3, <1>4
<1>6. k - 1 \in S
  BY <1>2, <1>4, <1>5
<1> QED
  BY <1>3, <1>4, <1>6

LEMMA SameCount == \A S : Convergence!Cardinality(S) = Cardinality(S)
BY DEF Cardinality, Convergence!Cardinality

\* The walk up from a network, step by step.
LEMMA WalkIs ==
    ASSUME NEW a
    PROVE  /\ Cardinality(Convergence!InScope) \in Nat
           /\ Convergence!Walk(a)[0] = <<a>>
           /\ \A n \in 0..(Cardinality(Convergence!InScope) - 1) :
                Convergence!Walk(a)[n + 1] = Convergence!Higher(Convergence!Walk(a)[n])
<1> DEFINE L == Cardinality(Convergence!InScope)
           W == Convergence!Walk(a)
           first == <<a>>
           Is(f, n) == f = [m \in 0..n |-> IF m = 0 THEN first ELSE Convergence!Higher(f[m - 1])]
           S == {n \in Nat : \E f : Is(f, n)}
<1>0. L \in Nat
  BY ConvergenceAssumption, FS_CardinalityType DEF Convergence!InScope
<1> HIDE DEF L
<1>1. 0 \in S
  <2> DEFINE f == [m \in 0..0 |-> first]
  <2>1. Is(f, 0)
    OBVIOUS
  <2> QED
    BY <2>1
<1>2. ASSUME NEW n \in 0..(L - 1), n \in S PROVE n + 1 \in S
  <2>1. PICK f : Is(f, n)
    BY <1>2
  <2>2. n \in Nat /\ n + 1 \in Nat
    BY <1>0
  <2> DEFINE g == [m \in 0..(n + 1) |-> IF m = n + 1 THEN Convergence!Higher(f[n]) ELSE f[m]]
  <2>3. ASSUME NEW m \in 0..(n + 1) PROVE g[m] = IF m = 0 THEN first ELSE Convergence!Higher(g[m - 1])
    <3>1. CASE m = n + 1
      <4>1. g[n] = f[n] /\ g[n + 1] = Convergence!Higher(f[n])
        BY <2>2
      <4> QED
        BY <2>2, <3>1, <4>1
    <3>2. CASE m # n + 1
      <4>1. m \in 0..n /\ (m # 0 => m - 1 \in 0..n)
        BY <2>2, <3>2
      <4>2. g[m] = f[m] /\ (m # 0 => g[m - 1] = f[m - 1])
        BY <2>2, <4>1
      <4>3. f[m] = IF m = 0 THEN first ELSE Convergence!Higher(f[m - 1])
        BY <2>1, <4>1
      <4> QED
        BY <4>2, <4>3
    <3> QED
      BY <3>1, <3>2
  <2>4. Is(g, n + 1)
    <3> DEFINE h == [m \in 0..(n + 1) |-> IF m = 0 THEN first ELSE Convergence!Higher(g[m - 1])]
    <3>1. \A m \in 0..(n + 1) : g[m] = h[m]
      BY <2>3
    <3>2. g = h
      BY <3>1
    <3> QED
      BY <3>2
  <2> QED
    BY <2>2, <2>4
<1>3. L \in S
  <2> HIDE DEF S, Is
  <2>1. L \in Nat /\ L \in 0..L /\ 0 \in S /\ \A n \in 0..(L - 1) : n \in S => n + 1 \in S
    BY <1>0, <1>1, <1>2
  <2> QED
    BY <2>1, UpFromZero
<1>4. PICK f : Is(f, L)
  BY <1>3
<1>5. W = [m \in 0..L |-> IF m = 0 THEN first ELSE Convergence!Higher(W[m - 1])]
  BY <1>4, SameCount DEF Convergence!Walk, L
<1> HIDE DEF first, W
<1>6. ASSUME NEW m \in 0..L PROVE W[m] = IF m = 0 THEN first ELSE Convergence!Higher(W[m - 1])
  BY <1>5
<1>7. ASSUME NEW n \in 0..(L - 1) PROVE W[n + 1] = Convergence!Higher(W[n])
  <2>1. n + 1 \in 0..L /\ n + 1 # 0 /\ (n + 1) - 1 = n
    BY <1>0
  <2> QED
    BY <1>6, <2>1
<1>8. W[0] = first
  <2>1. 0 \in 0..L
    BY <1>0
  <2> QED
    BY <1>6, <2>1
<1> QED
  BY <1>0, <1>7, <1>8 DEF first, L, W

\* Only a network in scope has upstreams, among its neighbors.
LEMMA UpstreamsAre ==
    ASSUME NEW x, Convergence!ris_upstreams(x) # None
    PROVE  x \in Convergence!InScope /\ Convergence!ris_upstreams(x) \subseteq DOMAIN neighbors[x]
BY DEF Convergence!ris_upstreams

\* Each network walked through has the next one as its only upstream.
Climbs(a, chain) ==
    /\ chain \in Seq(Convergence!Networks \cup {a})
    /\ Len(chain) >= 1 /\ chain[1] = a
    /\ \A i \in 1..(Len(chain) - 1) :
         /\ Convergence!ris_upstreams(chain[i]) # None
         /\ Convergence!ris_upstreams(chain[i]) = {chain[i + 1]}

LEMMA ClimbsOn ==
    ASSUME NEW a, NEW chain, neighbors \in Fishbowls, Climbs(a, chain)
    PROVE  Climbs(a, Convergence!Higher(chain))
<1> DEFINE L == Len(chain)
           x == chain[L]
           ups == Convergence!ris_upstreams(x)
           u == CHOOSE v \in ups : TRUE
           N == Convergence!Networks \cup {a}
<1>1. chain \in Seq(N) /\ L \in Nat /\ L >= 1 /\ Convergence!Last(chain) = x
  BY DEF Climbs, Convergence!Last
<1>2. Convergence!Higher(chain) = chain
        \/ /\ ups # None /\ Cardinality(ups) = 1 /\ Convergence!Higher(chain) = Append(chain, u)
  BY <1>1, SameCount DEF Convergence!Higher
<1>3. ASSUME ups # None, Cardinality(ups) = 1, Convergence!Higher(chain) = Append(chain, u)
      PROVE  Climbs(a, Append(chain, u))
  <2>1. x \in Convergence!InScope /\ ups \subseteq DOMAIN neighbors[x]
    BY <1>3, UpstreamsAre
  <2>2. IsFiniteSet(ups)
    <3>1. IsFiniteSet(DOMAIN neighbors[x])
      BY <2>1, ConvergenceAssumption DEF Convergence!InScope
    <3> QED
      BY <2>1, <3>1, FS_Subset
  <2>3. PICK v : ups = {v}
    BY <1>3, <2>2, FS_Singleton
  <2>4. u = v /\ ups = {u} /\ u \in N
    BY <2>1, <2>3 DEF Convergence!Networks
  <2> DEFINE longer == Append(chain, u)
  <2> HIDE DEF N, u
  <2>5. /\ longer \in Seq(N) /\ Len(longer) = L + 1 /\ longer[L + 1] = u
        /\ \A i \in 1..L : longer[i] = chain[i]
    BY <1>1, <2>4, AppendProperties
  <2> HIDE DEF longer
  <2>6. ASSUME NEW i \in 1..((L + 1) - 1)
        PROVE  /\ Convergence!ris_upstreams(longer[i]) # None
               /\ Convergence!ris_upstreams(longer[i]) = {longer[i + 1]}
    <3>1. CASE i = L
      BY <1>1, <1>3, <2>4, <2>5, <3>1
    <3>2. CASE i # L
      <4>1. i \in 1..(L - 1) /\ i \in 1..L /\ i + 1 \in 1..L
        BY <1>1, <3>2
      <4>2. longer[i] = chain[i] /\ longer[i + 1] = chain[i + 1]
        BY <2>5, <4>1
      <4> QED
        BY <4>1, <4>2 DEF Climbs
    <3> QED
      BY <3>1, <3>2
  <2>7. longer[1] = a /\ L + 1 >= 1
    BY <1>1, <2>5 DEF Climbs
  <2>8. Climbs(a, longer)
    BY <2>5, <2>6, <2>7 DEF Climbs, N
  <2> QED
    BY <2>8 DEF longer
<1> QED
  BY <1>2, <1>3

LEMMA WalkClimbs ==
    ASSUME NEW a, neighbors \in Fishbowls
    PROVE  Climbs(a, Convergence!Walk(a)[Cardinality(Convergence!InScope)])
<1> DEFINE L == Cardinality(Convergence!InScope)
           W == Convergence!Walk(a)
           S == {n \in Nat : Climbs(a, W[n])}
<1>1. L \in Nat /\ W[0] = <<a>> /\ \A n \in 0..(L - 1) : W[n + 1] = Convergence!Higher(W[n])
  BY WalkIs
<1>2. Climbs(a, <<a>>)
  <2>1. <<a>> \in Seq(Convergence!Networks \cup {a}) /\ Len(<<a>>) = 1 /\ <<a>>[1] = a
    OBVIOUS
  <2>2. \A i \in 1..(1 - 1) : FALSE
    OBVIOUS
  <2> QED
    BY <2>1, <2>2 DEF Climbs
<1> HIDE DEF L, W
<1>3. 0 \in S
  BY <1>1, <1>2
<1>4. ASSUME NEW n \in 0..(L - 1), n \in S PROVE n + 1 \in S
  BY <1>1, <1>4, ClimbsOn
<1>5. L \in S
  <2> HIDE DEF S
  <2>1. L \in Nat /\ L \in 0..L /\ 0 \in S /\ \A n \in 0..(L - 1) : n \in S => n + 1 \in S
    BY <1>1, <1>3, <1>4
  <2> QED
    BY <2>1, UpFromZero
<1> QED
  BY <1>5 DEF L, W

\* Each network a walk goes on from is in scope, with the next as its only upstream.
LEMMA ChainHas ==
    ASSUME NEW a, NEW chain, Climbs(a, chain), Len(chain) >= 2
    PROVE  /\ Len(chain) \in Nat
           /\ chain[1] = a
           /\ \A i \in 1..(Len(chain) - 1) :
                /\ chain[i] \in Convergence!InScope
                /\ Convergence!ris_upstreams(chain[i]) # None
                /\ Convergence!ris_upstreams(chain[i]) = {chain[i + 1]}
<1>1. Len(chain) \in Nat
  <2>1. chain \in Seq(Convergence!Networks \cup {a})
    BY DEF Climbs
  <2> HIDE DEF Climbs
  <2> QED
    BY <2>1, LenProperties
<1>2. chain[1] = a
  BY DEF Climbs
<1>3. ASSUME NEW i \in 1..(Len(chain) - 1)
      PROVE  /\ chain[i] \in Convergence!InScope
             /\ Convergence!ris_upstreams(chain[i]) # None
             /\ Convergence!ris_upstreams(chain[i]) = {chain[i + 1]}
  <2>1. /\ Convergence!ris_upstreams(chain[i]) # None
        /\ Convergence!ris_upstreams(chain[i]) = {chain[i + 1]}
    BY ZenonT(30) DEF Climbs
  <2>2. chain[i] \in Convergence!InScope
    BY <2>1, UpstreamsAre
  <2> QED
    BY <2>1, <2>2
<1> QED
  BY <1>1, <1>2, <1>3

\* Where a walk leaves the region is the only way out there is.
LEMMA OneWayOut ==
    ASSUME NEW a, NEW chain, Climbs(a, chain), Len(chain) >= 2,
           chain[Len(chain)] \notin Convergence!InScope
    PROVE  Convergence!WaysOut(a) = {chain[Len(chain)]}
<1> DEFINE L == Len(chain)
           z == chain[L]
           C == {chain[i] : i \in 1..L}
           Ups(x) == Convergence!ris_upstreams(x)
<1>0. /\ L \in Nat /\ L >= 2 /\ chain[1] = a
      /\ \A i \in 1..(L - 1) : /\ chain[i] \in Convergence!InScope
                               /\ Ups(chain[i]) # None /\ Ups(chain[i]) = {chain[i + 1]}
  BY ChainHas, Zenon
<1>2. Ups(z) = None /\ z \notin Convergence!InScope
  BY UpstreamsAre
<1> HIDE DEF L, Ups
<1>1. /\ L \in 1..L /\ 1 \in 1..L /\ L - 1 \in 1..(L - 1) /\ (L - 1) + 1 = L /\ L - 1 \in Nat
      /\ \A i \in 1..L : i \in 1..(L - 1) \/ i = L
      /\ \A i \in 1..(L - 1) : i + 1 \in 1..L
  BY <1>0
<1> HIDE DEF z
<1>3. z \in Convergence!Networks
  <2>1. /\ chain[L - 1] \in Convergence!InScope
        /\ Ups(chain[L - 1]) # None /\ Ups(chain[L - 1]) = {chain[(L - 1) + 1]}
    BY <1>0, <1>1
  <2>2. z \in Ups(chain[L - 1])
    BY <1>1, <2>1 DEF z
  <2>3. z \in DOMAIN neighbors[chain[L - 1]]
    BY <2>1, <2>2, UpstreamsAre DEF Ups
  <2> QED
    BY <2>1, <2>3 DEF Convergence!Networks
<1>5. C \in SUBSET Convergence!Networks /\ a \in C /\ Convergence!Upstreams(C) \subseteq C
  <2>1. ASSUME NEW i \in 1..L PROVE chain[i] \in Convergence!Networks
    <3>1. CASE i = L
      BY <1>3, <3>1 DEF z
    <3>2. CASE i # L
      BY <1>0, <1>1, <3>2 DEF Convergence!Networks
    <3> QED
      BY <3>1, <3>2
  <2>2. a \in C
    BY <1>0, <1>1
  <2>3. ASSUME NEW x \in C, Ups(x) # None PROVE Ups(x) \subseteq C
    <3>1. PICK i \in 1..L : x = chain[i]
      OBVIOUS
    <3>2. i # L
      BY <1>2, <2>3, <3>1 DEF z
    <3>3. i \in 1..(L - 1) /\ i + 1 \in 1..L
      BY <1>1, <3>2
    <3>4. Ups(x) = {chain[i + 1]}
      BY <1>0, <3>1, <3>3
    <3>5. chain[i + 1] \in C
      BY <3>3
    <3> QED
      BY <3>4, <3>5
  <2>4. C \in SUBSET Convergence!Networks
    BY <2>1
  <2> HIDE DEF C
  <2>5. Convergence!Upstreams(C) \subseteq C
    BY <2>3 DEF Convergence!Upstreams, Ups
  <2> QED
    BY <2>2, <2>4, <2>5
<1>6. ASSUME NEW x \in Convergence!WaysOut(a) PROVE x = z
  <2>1. x \in C /\ x \notin Convergence!InScope
    BY <1>5 DEF Convergence!WaysOut
  <2>2. PICK i \in 1..L : x = chain[i]
    BY <2>1
  <2> QED
    BY <1>0, <1>1, <2>1, <2>2 DEF z
<1>7. ASSUME NEW S \in SUBSET Convergence!Networks, a \in S, Convergence!Upstreams(S) \subseteq S
      PROVE  z \in S
  <2> DEFINE R == {n \in Nat : n + 1 \in 1..L => chain[n + 1] \in S}
  <2>1. 0 \in R
    BY <1>0, <1>7
  <2>2. ASSUME NEW n \in 0..((L - 1) - 1), n \in R PROVE n + 1 \in R
    <3>1. n \in Nat /\ n + 1 \in Nat /\ n + 1 \in 1..L /\ n + 1 \in 1..(L - 1)
      BY <1>0
    <3>2. chain[n + 1] \in S
      BY <2>2, <3>1
    <3>3. Ups(chain[n + 1]) # None /\ chain[(n + 1) + 1] \in Ups(chain[n + 1])
      BY <1>0, <3>1
    <3>4. chain[(n + 1) + 1] \in S
      BY <1>7, <3>2, <3>3 DEF Convergence!Upstreams, Ups
    <3> QED
      BY <3>1, <3>4
  <2>3. L - 1 \in R
    <3> HIDE DEF R
    <3>1. L - 1 \in Nat /\ L - 1 \in 0..(L - 1)
      BY <1>0
    <3> QED
      BY <2>1, <2>2, <3>1, UpFromZero
  <2>4. L - 1 + 1 \in 1..L => chain[(L - 1) + 1] \in S
    BY <2>3
  <2> QED
    BY <1>1, <2>4 DEF z
<1>8. z \in Convergence!WaysOut(a)
  BY <1>2, <1>3, <1>7 DEF Convergence!WaysOut
<1> QED
  BY <1>6, <1>8 DEF z, L
\* Where a network's routes leave the region is its only way out.
LEMMA ExitIsTheWay ==
    ASSUME NEW a, neighbors \in Fishbowls,
           NEW r, Convergence!off_region_exit(a) = r, r \notin Convergence!InScope \cup {None}
    PROVE  Convergence!WaysOut(a) = {r}
<1> DEFINE W == Convergence!Walk(a)[Cardinality(Convergence!InScope)]
           N == Convergence!Networks \cup {a}
<1>1. Convergence!upstream_chain(a) = Tail(W) /\ Tail(W) # <<>> /\ r = Convergence!Last(Tail(W))
  BY SameCount DEF Convergence!off_region_exit, Convergence!upstream_chain
<1>2. Climbs(a, W)
  BY WalkClimbs
<1> HIDE DEF W
<1>3. W \in Seq(N) /\ Len(W) >= 1
  BY <1>2 DEF Climbs
<1> HIDE DEF N
<1>4. W # <<>> /\ Len(W) \in Nat
  BY <1>3, LenProperties, EmptySeq
<1>5. /\ Tail(W) \in Seq(N) /\ Len(Tail(W)) = Len(W) - 1
      /\ \A i \in 1..Len(Tail(W)) : Tail(W)[i] = W[i + 1]
  BY <1>3, <1>4, HeadTailProperties
<1>6. Len(Tail(W)) # 0
  BY <1>1, <1>5, EmptySeq
<1>7. Len(W) >= 2 /\ Len(Tail(W)) \in 1..Len(Tail(W)) /\ Len(Tail(W)) + 1 = Len(W)
  BY <1>3, <1>4, <1>5, <1>6
<1>8. r = W[Len(W)]
  BY <1>1, <1>5, <1>7 DEF Convergence!Last
<1> QED
  BY <1>2, <1>7, <1>8, OneWayOut

\* What is called a dependency of a pair of economies is one.
LEMMA DependencyIsOne ==
    ASSUME neighbors \in Fishbowls, NEW ns, NEW d \in Convergence!always_crossed(ns),
           d.verdict = "dependency",
           NEW over, over = {t \in Convergence!Counted : Convergence!PairOf(t) = d.pair}
    PROVE  \E side \in {Convergence!Sources(over), Convergence!Targets(over)} \ {{}} :
              \A a \in side : Convergence!WaysOut(a) = {d.router[1]}
<1> DEFINE Over(pair) == {t \in Convergence!Counted : Convergence!PairOf(t) = pair}
<1>1. PICK pair : d \in {[router |-> r, pair |-> pair, verdict |->
                      Convergence!ris_verdict(r[1], Convergence!Sources(Over(pair)), Convergence!Targets(Over(pair)))]
                 : r \in {q \in UNION {Convergence!RoutersOn(ns, t) : t \in Over(pair)} :
                            \A t \in Over(pair) : q \in Convergence!RoutersOn(ns, t)}}
  BY DEF Convergence!always_crossed
<1>2. PICK r \in UNION {Convergence!RoutersOn(ns, t) : t \in Over(pair)} :
         d = [router |-> r, pair |-> pair, verdict |->
                Convergence!ris_verdict(r[1], Convergence!Sources(Over(pair)), Convergence!Targets(Over(pair)))]
  BY <1>1
<1>3. d.router = r /\ d.pair = pair /\ over = Over(pair)
  BY <1>2
<1>4. Convergence!ris_verdict(r[1], Convergence!Sources(over), Convergence!Targets(over)) = "dependency"
  BY <1>2, <1>3
<1>5. r[1] \notin Convergence!InScope \cup {None}
  <2>1. PICK t \in Over(pair) : r \in Convergence!RoutersOn(ns, t)
    BY <1>2
  <2>2. PICK b : Convergence!OffRegion(b) /\ r = Convergence!Router(ns, b)
    BY <2>1 DEF Convergence!RoutersOn
  <2>3. r[1] = Convergence!asn_of(b)
    BY <2>2 DEF Convergence!Router
  <2> QED
    BY <2>2, <2>3 DEF Convergence!OffRegion
<1> HIDE DEF Over
<1> DEFINE sources == Convergence!Sources(over)
           targets == Convergence!Targets(over)
<1> HIDE DEF sources, targets
<1>6. PICK side \in {sources, targets} \ {{}} : \A a \in side : Convergence!off_region_exit(a) = r[1]
  <2>1. Convergence!ris_verdict(r[1], sources, targets) = "dependency"
    BY <1>4 DEF sources, targets
  <2> QED
    BY <2>1 DEF Convergence!ris_verdict
<1>7. \A a \in side : Convergence!WaysOut(a) = {r[1]}
  BY <1>5, <1>6, ExitIsTheWay
<1> QED
  BY <1>3, <1>6, <1>7 DEF sources, targets

LEMMA NeighborsKept == Convergence!Spec => [](neighbors \in Fishbowls)
<1>1. Convergence!Init => neighbors \in Fishbowls
  BY DEF Convergence!Init
<1>2. neighbors \in Fishbowls /\ [Convergence!Next]_(Convergence!vars) => (neighbors \in Fishbowls)'
  BY DEF Convergence!Next, Convergence!LookUp, Convergence!Write, Convergence!Die, Convergence!vars
<1> QED
  BY <1>1, <1>2, PTL DEF Convergence!Spec

\* What the report calls a dependency is the only way out of the region.
THEOREM DependenciesAreOnlyWaysOut == Convergence!Spec => Convergence!DependencyHasNoWayAround
<1>1. ASSUME neighbors \in Fishbowls, Convergence!Write,
             NEW d \in report'.always, d.verdict = "dependency"
      PROVE  LET over == {t \in Convergence!Counted : Convergence!PairOf(t) = d.pair} IN
             \E side \in {Convergence!Sources(over), Convergence!Targets(over)} \ {{}} :
                \A a \in side : Convergence!WaysOut(a) = {d.router[1]}
  <2>1. d \in Convergence!always_crossed(names.of)
    BY <1>1 DEF Convergence!Write
  <2> QED
    BY <1>1, <2>1, DependencyIsOne
<1>2. neighbors \in Fishbowls /\ [Convergence!Next]_(Convergence!vars)
        => [Convergence!Write =>
              \A d \in report'.always : d.verdict = "dependency" =>
                 LET over == {t \in Convergence!Counted : Convergence!PairOf(t) = d.pair} IN
                 \E side \in {Convergence!Sources(over), Convergence!Targets(over)} \ {{}} :
                    \A a \in side : Convergence!WaysOut(a) = {d.router[1]}]_(Convergence!vars)
  BY <1>1
<1> QED
  BY <1>2, NeighborsKept, PTL DEF Convergence!Spec, Convergence!DependencyHasNoWayAround

\* What the names a run goes by are: those of the zones, as far as they are
\* known; and a router's addresses, as the report has them, are interfaces of one.
ZonesAreKept ==
    /\ dns \in Zones
    /\ traces \subseteq Convergence!Trace
    /\ \A x \in DOMAIN ptrCache : ptrCache[x] = dns[x]
AsKnown(ns) ==
    /\ DOMAIN ns = Convergence!Needed
    /\ \A x \in Convergence!Needed : ns[x] = IF x \in DOMAIN ptrCache THEN dns[x] ELSE None
OnARoute(a) == Convergence!OffRegion(a) /\ \E t \in Convergence!Counted : a \in Convergence!HopAddresses(t)
Interfaces(a, b) ==
    /\ Convergence!asn_of(a) = Convergence!asn_of(b)
    /\ a \in DOMAIN ptrCache /\ b \in DOMAIN ptrCache
    /\ dns[a] # None /\ dns[b] # None /\ dns[a] # dns[b]
    /\ DeviceOf[dns[a]] = DeviceOf[dns[b]] /\ DeviceOf[dns[a]] # None
IsRouter(R) == \A a \in R : OnARoute(a) /\ \A b \in R : a # b => Interfaces(a, b)
RoutersAreKnown ==
    /\ ZonesAreKept
    /\ names # None => AsKnown(names.of)
    /\ \A R \in Convergence!Routers : IsRouter(R)

LEMMA RouteAddress ==
    ASSUME ZonesAreKept, NEW t \in traces, NEW a \in Convergence!HopAddresses(t)
    PROVE  a \in HopAddr /\ (Convergence!OffRegion(a) => a \in Convergence!Needed)
<1>1. a \in HopAddr
  BY ConvergenceAssumption DEF ZonesAreKept, Convergence!Trace, Convergence!HopAddresses, Convergence!Range
<1> QED
  BY <1>1 DEF Convergence!Needed

LEMMA RouteAddresses ==
    ASSUME ZonesAreKept, NEW a, OnARoute(a)
    PROVE  a \in HopAddr /\ a \in Convergence!Needed /\ a \in UNION {Convergence!HopAddresses(t) : t \in traces}
BY RouteAddress DEF OnARoute, Convergence!Counted

LEMMA HoldersAre ==
    ASSUME ZonesAreKept, NEW ns, NEW n
    PROVE  IsFiniteSet(Convergence!Holders(ns, n))
<1>1. Convergence!Holders(ns, n) \subseteq HopAddr
  BY RouteAddress DEF Convergence!Holders
<1> QED
  BY <1>1, ConvergenceAssumption, FS_Subset

\* An address goes by its name where it alone has it.
LEMMA NameIsOwn ==
    ASSUME ZonesAreKept, NEW ns, AsKnown(ns), NEW a, OnARoute(a)
    PROVE  /\ Convergence!NameOf(ns, a) # None =>
                /\ a \in DOMAIN ptrCache /\ Convergence!NameOf(ns, a) = dns[a]
                /\ \A b : OnARoute(b) /\ b \in DOMAIN ptrCache /\ b # a => dns[b] # dns[a]
           /\ (/\ a \in DOMAIN ptrCache /\ dns[a] # None
               /\ \A c \in Convergence!Needed \ {a} : dns[c] # dns[a])
                => Convergence!NameOf(ns, a) = dns[a]
<1> DEFINE H == Convergence!Holders(ns, ns[a])
<1>1. a \in Convergence!Needed /\ a \in UNION {Convergence!HopAddresses(t) : t \in traces}
  BY RouteAddresses
<1>a. DOMAIN ns = Convergence!Needed
  BY DEF AsKnown
<1>b. ns[a] = IF a \in DOMAIN ptrCache THEN dns[a] ELSE None
  BY <1>1, Zenon DEF AsKnown
<1>2. a \in H /\ IsFiniteSet(H)
  <2>1. IsFiniteSet(H)
    BY HoldersAre
  <2>2. a \in DOMAIN ns
    BY <1>1, <1>a
  <2> QED
    BY <1>1, <2>1, <2>2, Zenon DEF Convergence!Holders
<1> HIDE DEF H
<1>3. ASSUME Convergence!NameOf(ns, a) # None
      PROVE  /\ a \in DOMAIN ptrCache /\ Convergence!NameOf(ns, a) = dns[a]
             /\ \A b : OnARoute(b) /\ b \in DOMAIN ptrCache /\ b # a => dns[b] # dns[a]
  <2>1. ns[a] # None /\ Convergence!NameOf(ns, a) = ns[a] /\ Cardinality(H) = 1
    BY <1>3, SameCount DEF Convergence!NameOf, H
  <2>2. a \in DOMAIN ptrCache /\ ns[a] = dns[a]
    BY <1>b, <2>1
  <2>3. ASSUME NEW b, OnARoute(b), b \in DOMAIN ptrCache, b # a, dns[b] = dns[a] PROVE FALSE
    <3>1. b \in Convergence!Needed /\ b \in UNION {Convergence!HopAddresses(t) : t \in traces}
      BY <2>3, RouteAddresses
    <3>2. ns[b] = ns[a]
      BY <2>2, <2>3, <3>1 DEF AsKnown
    <3>a. b \in DOMAIN ns
      BY <1>a, <3>1
    <3>3. b \in H
      BY <3>1, <3>2, <3>a, Zenon DEF Convergence!Holders, H
    <3>4. PICK x : H = {x}
      BY <1>2, <2>1, FS_Singleton
    <3> QED
      BY <1>2, <2>3, <3>3, <3>4
  <2> QED
    BY <2>1, <2>2, <2>3
<1>4. ASSUME a \in DOMAIN ptrCache, dns[a] # None, \A c \in Convergence!Needed \ {a} : dns[c] # dns[a]
      PROVE  Convergence!NameOf(ns, a) = dns[a]
  <2>1. ns[a] = dns[a]
    BY <1>b, <1>4
  <2>2. ASSUME NEW x \in H PROVE x = a
    <3>1. x \in Convergence!Needed /\ ns[x] = dns[a]
      BY <1>a, <2>1 DEF Convergence!Holders, H
    <3>2. ns[x] = dns[x] \/ ns[x] = None
      BY <1>4, <3>1 DEF AsKnown
    <3> QED
      BY <1>4, <3>1, <3>2
  <2>3. H = {a}
    BY <1>2, <2>2
  <2>4. Cardinality(H) = 1
    BY <2>3, FS_Singleton
  <2> QED
    BY <1>4, <2>1, <2>4, SameCount DEF Convergence!NameOf, H
<1> QED
  BY <1>3, <1>4

\* Two addresses the report takes for one router are named for it.
LEMMA NamedAlike ==
    ASSUME ZonesAreKept, NEW ns, AsKnown(ns), NEW a, OnARoute(a), NEW b, OnARoute(b), a # b,
           Convergence!Router(ns, a) = Convergence!Router(ns, b)
    PROVE  Interfaces(a, b)
<1> DEFINE na == Convergence!NameOf(ns, a)
           nb == Convergence!NameOf(ns, b)
<1>1. Convergence!asn_of(a) = Convergence!asn_of(b)
      /\ Convergence!device_key(a, na) = Convergence!device_key(b, nb)
  BY DEF Convergence!Router
<1>2. a \in HopAddr /\ b \in HopAddr
  BY RouteAddresses
<1>3. (na # None => na = dns[a] /\ a \in DOMAIN ptrCache) /\ (nb # None => nb = dns[b] /\ b \in DOMAIN ptrCache)
  BY NameIsOwn
<1>4. dns[a] \in DOMAIN DeviceOf \cup {None} /\ dns[b] \in DOMAIN DeviceOf \cup {None}
  BY <1>2, ConvergenceAssumption DEF ZonesAreKept
<1> HIDE DEF na, nb
<1>5. na # None /\ nb # None /\ DeviceOf[na] = DeviceOf[nb] /\ DeviceOf[na] # None
  BY <1>1, <1>2, <1>3, <1>4, ConvergenceAssumption DEF Convergence!device_key
<1>6. dns[b] # dns[a]
  BY <1>3, <1>5, NameIsOwn DEF na
<1> QED
  BY <1>1, <1>3, <1>5, <1>6 DEF Interfaces

\* And while nothing else is called as they are, they are taken for one.
LEMMA TakenForOne ==
    ASSUME ZonesAreKept, NEW ns, AsKnown(ns), NEW a, OnARoute(a), NEW b, OnARoute(b), Interfaces(a, b),
           \A c \in Convergence!Needed \ {a, b} : dns[c] \notin {dns[a], dns[b]}
    PROVE  Convergence!Router(ns, a) = Convergence!Router(ns, b)
<1>1. Convergence!NameOf(ns, a) = dns[a]
  <2>1. \A c \in Convergence!Needed \ {a} : dns[c] # dns[a]
    BY DEF Interfaces
  <2>2. a \in DOMAIN ptrCache /\ dns[a] # None
    BY DEF Interfaces
  <2> QED
    BY <2>1, <2>2, NameIsOwn
<1>2. Convergence!NameOf(ns, b) = dns[b]
  <2>1. \A c \in Convergence!Needed \ {b} : dns[c] # dns[b]
    BY DEF Interfaces
  <2>2. b \in DOMAIN ptrCache /\ dns[b] # None
    BY DEF Interfaces
  <2> QED
    BY <2>1, <2>2, NameIsOwn
<1> QED
  BY <1>1, <1>2 DEF Interfaces, Convergence!Router, Convergence!device_key

LEMMA CollectedAre ==
    ASSUME NEW ns, NEW r \in Convergence!collect(ns), NEW a \in r.addresses
    PROVE  OnARoute(a) /\ Convergence!Router(ns, a) = r.router
<1> DEFINE Over(q) == {t \in Convergence!Counted : q \in Convergence!RoutersOn(ns, t)}
           On(q) == {x \in UNION {Convergence!HopAddresses(t) : t \in Over(q)} :
                       Convergence!OffRegion(x) /\ Convergence!Router(ns, x) = q}
<1>1. PICK q : r.router = q /\ r.addresses = On(q)
  <2> DEFINE Entry(q) == [router |-> q, pairs |-> {Convergence!PairOf(t) : t \in Over(q)},
                          category |-> Convergence!category({Convergence!PairOf(t) : t \in Over(q)}),
                          addresses |-> On(q), probes |-> {ProbeOf[t] : t \in Over(q)}]
  <2>1. PICK q : r = Entry(q)
    BY Zenon DEF Convergence!collect
  <2>2. Entry(q).router = q /\ Entry(q).addresses = On(q)
    OBVIOUS
  <2> HIDE DEF Entry, On
  <2> QED
    BY <2>1, <2>2
<1>2. a \in On(q)
  BY <1>1
<1> QED
  BY <1>1, <1>2 DEF OnARoute

LEMMA CollectedTogether ==
    ASSUME NEW ns, NEW a, OnARoute(a), NEW b, OnARoute(b),
           Convergence!Router(ns, a) = Convergence!Router(ns, b)
    PROVE  \E r \in Convergence!collect(ns) : {a, b} \subseteq r.addresses
<1> DEFINE q == Convergence!Router(ns, a)
           Over == {t \in Convergence!Counted : q \in Convergence!RoutersOn(ns, t)}
           On == {x \in UNION {Convergence!HopAddresses(t) : t \in Over} :
                       Convergence!OffRegion(x) /\ Convergence!Router(ns, x) = q}
           pairs == {Convergence!PairOf(t) : t \in Over}
           r == [router |-> q, pairs |-> pairs, category |-> Convergence!category(pairs),
                 addresses |-> On, probes |-> {ProbeOf[t] : t \in Over}]
<1>1. ASSUME NEW x \in {a, b}
      PROVE  \E t \in Convergence!Counted : q \in Convergence!RoutersOn(ns, t) /\ x \in Convergence!HopAddresses(t)
  <2>1. OnARoute(x) /\ Convergence!Router(ns, x) = q
    OBVIOUS
  <2> HIDE DEF q
  <2> QED
    BY <2>1 DEF OnARoute, Convergence!RoutersOn
<1>2. q \in UNION {Convergence!RoutersOn(ns, t) : t \in Convergence!Counted}
  BY <1>1
<1>3. {a, b} \subseteq On
  <2>1. ASSUME NEW x \in {a, b} PROVE x \in On
    <3>1. Convergence!OffRegion(x) /\ Convergence!Router(ns, x) = q
      BY DEF OnARoute
    <3>2. x \in UNION {Convergence!HopAddresses(t) : t \in Over}
      BY <1>1
    <3> QED
      BY <3>1, <3>2
  <2> QED
    BY <2>1
<1>4. r \in Convergence!collect(ns)
  BY <1>2, Zenon DEF Convergence!collect
<1>5. r.addresses = On
  OBVIOUS
<1> QED
  BY <1>3, <1>4, <1>5

LEMMA RoutersStayKnown == Convergence!Spec => []RoutersAreKnown
<1>1. Convergence!Init => RoutersAreKnown
  <2> SUFFICES ASSUME Convergence!Init PROVE RoutersAreKnown
    OBVIOUS
  <2>1. Convergence!Routers = {} /\ DOMAIN ptrCache = {} /\ names = None
    BY DEF Convergence!Init, Convergence!Routers
  <2>2. ZonesAreKept
    BY <2>1 DEF Convergence!Init, ZonesAreKept
  <2> QED
    BY <2>1, <2>2 DEF RoutersAreKnown
<1>2. RoutersAreKnown /\ [Convergence!Next]_(Convergence!vars) => RoutersAreKnown'
  <2> SUFFICES ASSUME RoutersAreKnown, [Convergence!Next]_(Convergence!vars) PROVE RoutersAreKnown'
    OBVIOUS
  <2>1. CASE Convergence!LookUp
    <3>1. names = None /\ dns' = dns /\ report' = report
      BY <2>1 DEF Convergence!LookUp
    <3>2. PICK more \in SUBSET (Convergence!Trace \ traces) : traces' = traces \cup more
      BY <2>1 DEF Convergence!LookUp
    <3>3. PICK young \in {{}, DOMAIN ptrCache} :
            \E failed \in SUBSET (Convergence!Needed' \ young) :
              LET due == Convergence!Needed' \ young IN
              /\ names' = [of |-> Convergence!Resolved(due, failed), failed |-> failed]
              /\ ptrCache' = [a \in DOMAIN ptrCache \cup (due \ failed) |->
                                IF a \in due \ failed THEN dns[a] ELSE ptrCache[a]]
      BY <2>1, Zenon DEF Convergence!LookUp
    <3>a. PICK failed \in SUBSET (Convergence!Needed' \ young) :
            LET due == Convergence!Needed' \ young IN
            /\ names' = [of |-> Convergence!Resolved(due, failed), failed |-> failed]
            /\ ptrCache' = [a \in DOMAIN ptrCache \cup (due \ failed) |->
                              IF a \in due \ failed THEN dns[a] ELSE ptrCache[a]]
      BY <3>3, Zenon
    <3> DEFINE due == Convergence!Needed' \ young
               ns == Convergence!Resolved(due, failed)
    <3>4. /\ DOMAIN ptrCache' = DOMAIN ptrCache \cup (due \ failed)
          /\ \A x \in DOMAIN ptrCache' : ptrCache'[x] = dns[x]
      BY <3>a DEF RoutersAreKnown, ZonesAreKept
    <3>5. ZonesAreKept'
      BY <3>1, <3>2, <3>4 DEF RoutersAreKnown, ZonesAreKept, Convergence!Trace
    <3>6. AsKnown(names.of)'
      <4>1. names'.of = ns
        BY <3>a
      <4>2. DOMAIN ns = Convergence!Needed'
        BY DEF Convergence!Resolved
      <4>3. ASSUME NEW x \in Convergence!Needed'
            PROVE ns[x] = IF x \in DOMAIN ptrCache' THEN dns[x] ELSE None
        <5>1. ns[x] = IF x \in due \ failed THEN dns[x]
                      ELSE IF x \in DOMAIN ptrCache THEN ptrCache[x] ELSE None
          BY <4>3 DEF Convergence!Resolved
        <5>2. x \in DOMAIN ptrCache => ptrCache[x] = dns[x]
          BY DEF RoutersAreKnown, ZonesAreKept
        <5>3. x \in DOMAIN ptrCache' <=> x \in DOMAIN ptrCache \/ x \in due \ failed
          BY <3>4
        <5> HIDE DEF ns, due
        <5> QED
          BY <5>1, <5>2, <5>3
      <4> HIDE DEF ns
      <4> QED
        BY <3>1, <4>1, <4>2, <4>3 DEF AsKnown
    <3>7. ASSUME NEW R \in Convergence!Routers' PROVE IsRouter(R)'
      <4>1. R \in Convergence!Routers
        BY <3>1 DEF Convergence!Routers
      <4>2. IsRouter(R)
        BY <4>1 DEF RoutersAreKnown
      <4>3. ASSUME NEW a, OnARoute(a) PROVE OnARoute(a)'
        BY <3>2, <4>3 DEF OnARoute, Convergence!Counted, Convergence!OffRegion, Convergence!HopAddresses,
                   Convergence!SourceOf, Convergence!asn_of, Convergence!PrefixOrigin, Convergence!Rows
      <4>4. ASSUME NEW a, NEW b, Interfaces(a, b) PROVE Interfaces(a, b)'
        BY <3>1, <3>4, <4>4 DEF Interfaces, Convergence!asn_of, Convergence!PrefixOrigin, Convergence!Rows
      <4> QED
        BY <4>2, <4>3, <4>4 DEF IsRouter
    <3> QED
      BY <3>5, <3>6, <3>7 DEF RoutersAreKnown
  <2>2. CASE Convergence!Write
    <3>1. /\ names # None /\ names' = None /\ report'.routers = Convergence!collect(names.of)
          /\ UNCHANGED <<traces, dns, ptrCache, neighbors>>
      BY <2>2 DEF Convergence!Write
    <3>2. ZonesAreKept /\ AsKnown(names.of)
      BY <3>1 DEF RoutersAreKnown
    <3>3. ZonesAreKept'
      BY <3>1, <3>2 DEF ZonesAreKept, Convergence!Trace
    <3>4. ASSUME NEW R \in Convergence!Routers' PROVE IsRouter(R)'
      <4>1. PICK r \in Convergence!collect(names.of) : R = r.addresses
        BY <3>1 DEF Convergence!Routers
      <4>2. \A a \in R : OnARoute(a) /\ Convergence!Router(names.of, a) = r.router
        BY <4>1, CollectedAre
      <4>3. IsRouter(R)
        BY <3>2, <4>2, NamedAlike DEF IsRouter
      <4>4. ASSUME NEW a, OnARoute(a) PROVE OnARoute(a)'
        BY <3>1, <4>4 DEF OnARoute, Convergence!Counted, Convergence!OffRegion, Convergence!HopAddresses,
                   Convergence!SourceOf, Convergence!asn_of, Convergence!PrefixOrigin, Convergence!Rows
      <4>5. ASSUME NEW a, NEW b, Interfaces(a, b) PROVE Interfaces(a, b)'
        BY <3>1, <4>5 DEF Interfaces, Convergence!asn_of, Convergence!PrefixOrigin, Convergence!Rows
      <4> QED
        BY <4>3, <4>4, <4>5 DEF IsRouter
    <3> QED
      BY <3>1, <3>3, <3>4 DEF RoutersAreKnown
  <2>3. CASE Convergence!Die \/ UNCHANGED Convergence!vars
    <3>1. UNCHANGED <<traces, dns, ptrCache, report>> /\ (names' = None \/ names' = names)
      BY <2>3 DEF Convergence!Die, Convergence!vars
    <3>2. ZonesAreKept' /\ (names' # None => AsKnown(names.of)')
      BY <3>1 DEF RoutersAreKnown, ZonesAreKept, AsKnown, Convergence!Trace, Convergence!Needed,
                  Convergence!OffRegion, Convergence!HopAddresses,
                  Convergence!asn_of, Convergence!PrefixOrigin, Convergence!Rows
    <3>3. ASSUME NEW R \in Convergence!Routers' PROVE IsRouter(R)'
      <4>1. IsRouter(R)
        BY <3>1 DEF Convergence!Routers, RoutersAreKnown
      <4>4. ASSUME NEW a, OnARoute(a) PROVE OnARoute(a)'
        BY <3>1, <4>4 DEF OnARoute, Convergence!Counted, Convergence!OffRegion, Convergence!HopAddresses,
                   Convergence!SourceOf, Convergence!asn_of, Convergence!PrefixOrigin, Convergence!Rows
      <4>5. ASSUME NEW a, NEW b, Interfaces(a, b) PROVE Interfaces(a, b)'
        BY <3>1, <4>5 DEF Interfaces, Convergence!asn_of, Convergence!PrefixOrigin, Convergence!Rows
      <4> QED
        BY <4>1, <4>4, <4>5 DEF IsRouter
    <3> QED
      BY <3>2, <3>3 DEF RoutersAreKnown
  <2> QED
    BY <2>1, <2>2, <2>3 DEF Convergence!Next
<1> QED
  BY <1>1, <1>2, PTL DEF Convergence!Spec

\* Failed lookups split no router that was seen as one.
THEOREM FailuresSplitNoRouter == Convergence!Spec => Convergence!FailureSplitsNothing
<1> DEFINE Kept == \A R \in Convergence!Routers : \A a, b \in R :
                      report'.routers # report.routers
                        /\ (\A c \in Convergence!Needed \ {a, b} : dns[c] \notin {dns[a], dns[b]})
                        => \E S \in {r.addresses : r \in report'.routers} : {a, b} \subseteq S
<1>1. ASSUME RoutersAreKnown, Convergence!Write, NEW R \in Convergence!Routers, NEW a \in R, NEW b \in R,
             \A c \in Convergence!Needed \ {a, b} : dns[c] \notin {dns[a], dns[b]}
      PROVE  \E S \in {r.addresses : r \in report'.routers} : {a, b} \subseteq S
  <2>1. names # None /\ report'.routers = Convergence!collect(names.of)
    BY <1>1 DEF Convergence!Write
  <2>2. ZonesAreKept /\ AsKnown(names.of) /\ IsRouter(R)
    BY <1>1, <2>1 DEF RoutersAreKnown
  <2>3. OnARoute(a) /\ OnARoute(b) /\ (a # b => Interfaces(a, b))
    BY <2>2 DEF IsRouter
  <2>4. Convergence!Router(names.of, a) = Convergence!Router(names.of, b)
    <3>1. CASE a = b
      BY <3>1
    <3>2. CASE a # b
      <4>1. ZonesAreKept /\ AsKnown(names.of) /\ OnARoute(a) /\ OnARoute(b) /\ Interfaces(a, b)
        BY <2>2, <2>3, <3>2
      <4> QED
        BY <1>1, <4>1, TakenForOne
    <3> QED
      BY <3>1, <3>2
  <2>5. PICK r \in Convergence!collect(names.of) : {a, b} \subseteq r.addresses
    BY <2>3, <2>4, CollectedTogether
  <2> QED
    BY <2>1, <2>5
<1>2. RoutersAreKnown /\ [Convergence!Next]_(Convergence!vars) => [Kept]_(Convergence!vars)
  <2> SUFFICES ASSUME RoutersAreKnown, Convergence!Next PROVE Kept
    OBVIOUS
  <2>1. CASE Convergence!Write
    <3> SUFFICES ASSUME NEW R \in Convergence!Routers, NEW a \in R, NEW b \in R,
                        \A c \in Convergence!Needed \ {a, b} : dns[c] \notin {dns[a], dns[b]}
                 PROVE  \E S \in {r.addresses : r \in report'.routers} : {a, b} \subseteq S
      OBVIOUS
    <3> QED
      BY <1>1, <2>1
  <2>2. CASE Convergence!LookUp \/ Convergence!Die
    <3>1. report'.routers = report.routers
      BY <2>2 DEF Convergence!LookUp, Convergence!Die
    <3> QED
      BY <3>1
  <2> QED
    BY <2>1, <2>2 DEF Convergence!Next
<1> QED
  BY <1>2, RoutersStayKnown, PTL DEF Convergence!Spec, Convergence!FailureSplitsNothing

\* A router stays one whatever lookup fails, and is called a dependency only
\* where BGP has no way around it.
THEOREM ConvergenceIsSound == MCSpec => ConvergenceHolds
BY ConvergenceAlone, FailuresSplitNoRouter, DependenciesAreOnlyWaysOut, PTL DEF ConvergenceHolds
=============================================================================
