------------------------------- MODULE Tracing -------------------------------
(***************************************************************************)
(* A measurement from the replies of its probes to what is filed: Topology *)
(* reads them, Filing files what the rules make of them.  What the rules   *)
(* promise is said here of the replies themselves.                         *)
(***************************************************************************)
EXTENDS Filing, Topology

CONSTANT Raws   \* sequences of raw traces a measurement can return

ASSUME TracingAssumption ==
    /\ TargetAsn \in Target
    /\ \A traces \in Raws :
         /\ traces \in Seq(Range(traces))
         /\ \A hops \in Range(traces) :
              /\ hops \in Seq(Range(hops))
              /\ \A hop \in Range(hops) : IsFiniteSet(hop) /\ \A r \in hop : r.from \in Addr

VARIABLE raws   \* those of the measurement being filed

tracingVars == <<vars, raws>>

TracingInit == Init /\ raws = <<>>

\* A measurement is read.  Another address of the target is tried while no
\* probe was decisive and there is one; what came back before is forgotten.
Returned ==
    /\ run.stage = "idle"
    /\ \A p \in Range(analyze_measurement(raws)) : ~is_decisive(p)
    /\ raws' \in Raws
    /\ UNCHANGED vars

Measured ==
    /\ raws # <<>>
    /\ LET traces == analyze_measurement(raws) IN
       \E src \in Source, retest \in Ids \cup {Fresh} : Classify(src, TargetAsn, retest, traces)
    /\ UNCHANGED raws

Continued == Advance /\ raws' = IF run'.stage = "idle" THEN <<>> ELSE raws

TracingNext == Returned \/ Measured \/ Continued

TracingSpec == TracingInit /\ [][TracingNext]_tracingVars
-----------------------------------------------------------------------------
Filed == IF run.stage = "file" /\ raws # <<>> THEN run.groups ELSE {}
Cleaned == {i \in DOMAIN raws : run.traces[i].first = "local"}

\* A hop that says nothing of another network.  One private address is enough.
Silent(hop, us) ==
    /\ Addresses(hop) # {}
    /\ \/ \E a \in Addresses(hop) : Resolution[a].source = "private"
       \/ Owners(hop) # {} /\ Owners(hop) \subseteq us

\* The replies themselves show network u and then t, and nothing between them.
Adjacent(hops, u, t) ==
    \E i, j \in DOMAIN hops :
        /\ i < j /\ Owners(hops[i]) = {u} /\ Owners(hops[j]) = {t}
        /\ \A k \in (i + 1)..(j - 1) : Silent(hops[k], {u, t})

\* Some RIS path has the two next to each other.
SeenByRis(u, t) ==
    \E r \in RisPaths : \E i \in 1..(Len(r.path) - 1) : {r.path[i], r.path[i + 1]} = {u, t}

\* Where a trace counts as in the target's network: not at a hop a private
\* address answered as well, whatever else did.
Arrivals(hops) == {i \in TargetHops(hops) : ~Transparent(hops[i])}

\* An edge into the target is filed only on evidence: of transit, RIS has seen
\* it, and the trace shows it too if it counts as in the target's network; of
\* peering, a trace shows it with no dark or unresolved hop in between ("a lack
\* of real hop data is just inconclusive every time").  And no edge is in a
\* measurement that is thrown away to try another address.
EdgesAreShown ==
    \A g \in Filed : g.kind # "detour" =>
        /\ \E i \in Cleaned :
             \/ Adjacent(raws[i], g.up, TargetAsn)
             \/ g.kind = "transit" /\ Arrivals(raws[i]) = {}
        /\ g.kind = "transit" => SeenByRis(g.up, TargetAsn)
        /\ \E i \in DOMAIN raws : is_decisive(run.traces[i])
-----------------------------------------------------------------------------
\* Positions that answered with one address, and that address.
Answers(hops) == {i \in DOMAIN hops : IsSingle(hops[i])}
IsNew(hops, i) == \A j \in Answers(hops) : j < i => Single(hops[j]) # Single(hops[i])
RunTo(hops, i) ==
    Cardinality({j \in Answers(hops) : j <= i /\ \A k \in j..i :
                    k \in Answers(hops) /\ Single(hops[k]) = Single(hops[i])})

\* An answer comes back to one of the three before it, does not report the
\* target unreachable, and is not one router's second of two.
ComesBack(hops, i) ==
    /\ \E j \in Answers(hops) :
        /\ j < i /\ Single(hops[j]) = Single(hops[i])
        /\ Cardinality({k \in Answers(hops) : j <= k /\ k < i}) <= 3
    /\ Single(hops[i]) \notin Errors(hops[i])
    /\ RunTo(hops, i) # 2

\* A trace counts as a loop, in the note of a finding or as an escalation, just
\* if it is stuck: it never meets its target, and after the last router it had
\* not seen before it comes back to one it has.
LoopIsStuck ==
    run.stage = "file" /\ raws # <<>> => \A i \in DOMAIN raws :
        LET hops == raws[i]  IN
        run.traces[i].loop # "none" <=>
            /\ \A j \in DOMAIN hops : TargetAddr \notin Addresses(hops[j])
            /\ \E j \in Answers(hops) : ComesBack(hops, j)
                  /\ \A k \in Answers(hops) : IsNew(hops, k) => k < j
=============================================================================
