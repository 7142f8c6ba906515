------------------------------ MODULE MCFiling ------------------------------
(***************************************************************************)
(* Two economies, two Pacific upstreams and a foreign one, two hub cities. *)
(* In a wide behaviour one measurement brings any pair of traces from a    *)
(* set that has each feature the rules look at; in a long one three come   *)
(* one after the other, each of a kind of its own; in a raw one a          *)
(* measurement brings four hops, with up to two odd ones among them.       *)
(***************************************************************************)
EXTENDS Tracing, TLC

CONSTANTS u1, u2, x, tgt, c1, c2, sfo, syd

VARIABLE behaviour

MCEconomyOf == (u1 :> c1) @@ (u2 :> c2)
MCTarget == {tgt}

\* A trace that reached the target through u, as RIS has it, and nothing else.
Plain(u, ris) ==
    [first |-> "local", loop |-> "none", crossings |-> <<>>, up |-> u, ris |-> ris,
     contiguous |-> TRUE, reached |-> TRUE, hidden |-> FALSE, hub |-> None,
     floors |-> [c \in City |-> "ok"]]
At(kind, city) == [in |-> kind, city |-> city, slow |-> FALSE]
RouterIn(city, floor, owners) == [city |-> city, floor |-> floor, owners |-> owners]

MCTraceSet == {
    Plain(u1, TRUE), Plain(u2, FALSE), Plain(u1, FALSE), Plain(x, TRUE),
    [Plain(None, FALSE) EXCEPT !.reached = FALSE],
    [Plain(u1, TRUE) EXCEPT !.first = "proxy"],
    [Plain(u1, FALSE) EXCEPT !.hidden = TRUE],
    [Plain(u2, TRUE) EXCEPT !.contiguous = FALSE, !.loop = "new"],
    [Plain(x, FALSE) EXCEPT !.crossings = <<At("out", sfo)>>, !.floors[sfo] = "impossible"],
    [Plain(x, TRUE) EXCEPT !.crossings = <<At("TBA", Unmapped), At("out", syd)>>],
    [Plain(x, TRUE) EXCEPT !.crossings = <<At("TBA", Unmapped)>>],
    [Plain(None, FALSE) EXCEPT !.crossings = <<At("TBA", Unmapped)>>, !.reached = FALSE],
    [Plain(x, TRUE) EXCEPT !.crossings = <<At("out", Unmapped)>>],
    [Plain(u2, TRUE) EXCEPT !.crossings = <<[At("local", Unmapped) EXCEPT !.slow = TRUE]>>],
    [Plain(u1, TRUE) EXCEPT !.hub = RouterIn(sfo, "ok", {x})],
    [Plain(u2, FALSE) EXCEPT !.hub = RouterIn(syd, "ok", {x}), !.floors[syd] = "impossible"],
    [Plain(None, FALSE) EXCEPT !.hub = RouterIn(syd, "ok", {x, u1}), !.reached = FALSE],
    [Plain(x, FALSE) EXCEPT !.hub = RouterIn(syd, "ok", {}), !.reached = FALSE],
    [Plain(u1, FALSE) EXCEPT !.hub = RouterIn(sfo, "too_fast", {x})],
    [Plain(u1, FALSE) EXCEPT !.hub = RouterIn(Unmapped, "unmapped", {x})]}

MCTraces == {<<>>} \cup {<<p>> : p \in MCTraceSet} \cup {<<p, q>> : p, q \in MCTraceSet}

\* One measurement for each kind of finding, for several measurements in a row.
MCFewTraces == {
    <<Plain(u1, TRUE)>>,
    <<Plain(u1, FALSE), Plain(u2, FALSE)>>,
    <<[Plain(x, TRUE) EXCEPT !.crossings = <<At("out", syd)>>]>>,
    <<[Plain(u1, TRUE) EXCEPT !.hub = RouterIn(sfo, "ok", {x})]>>}

\* Addresses: 1 private, 2 and 3 of u1, 4 of u2, 5 a router of x in sfo, 6 on
\* the foreign exchange, 7 nobody's, 8 the target, 9 another of its routers.
From(asn, source) == [asn |-> asn, source |-> source, context |-> None]
MCResolution ==
    <<From(None, "private"), From(u1, "bgp"), From(u1, "bgp"), From(u2, "bgp"), From(x, "bgp"),
      [From(x, "peeringdb_netixlan") EXCEPT !.context = [ix |-> 1, in |-> "out"]],
      From(None, None), From(tgt, "bgp"), From(tgt, "bgp")>>
MCLocatedIn == [a \in Addr |-> IF a = 5 THEN sfo ELSE None]
MCIxCity == 1 :> syd
MCRisPaths == {[to |-> tgt, path |-> <<x, u1, tgt, tgt>>], [to |-> u1, path |-> <<x, u1>>]}
MCHubFloor == sfo :> 4 @@ syd :> 2
MCViaFloor == sfo :> 5 @@ syd :> 3

Reply(a, rtt) ==
    [from |-> a, rtt |-> rtt, stray |-> FALSE, error |-> FALSE, back |-> 0, reset |-> FALSE]
\* Silence, a private address, two routers of u1, one of u2, and the target.
MCPlainHops == {{}} \cup {{Reply(a, 4)} : a \in {1, 2, 3, 4, 8}}
MCOddHops ==
    {{Reply(a, 4)} : a \in {5, 6, 7}} \cup
    {{Reply(5, 1)}, {Reply(1, 4), Reply(4, 4)}, {Reply(1, 4), Reply(9, 4)}, {Reply(8, 1)},
     {[Reply(8, 4) EXCEPT !.back = 6]}, {[Reply(9, 4) EXCEPT !.reset = TRUE]},
     {[Reply(2, 4) EXCEPT !.error = TRUE]}, {[Reply(2, 4) EXCEPT !.stray = TRUE]}}
\* All traces of four hops that have no more than two of the odd ones, each at
\* any number of places.
MCHops == UNION {[1..4 -> MCPlainHops \cup {h, k}] : h, k \in MCOddHops}
Behind(n, hop) == {[r EXCEPT !.back = @ + n] : r \in hop}
MCRaws == {<<[n \in 1..4 |-> Behind(n, hops[n])]>> : hops \in MCHops}

MCDark == <<[n \in 1..4 |-> {}]>>

MCInit == TracingInit /\ behaviour \in {"wide", "long", "raw"}

\* The economies differ in nothing but their names, so that the first measurement
\* is from u1's.
MCNext ==
    /\ \/ behaviour = "raw" /\ runs = 0 /\ raws \in {<<>>, MCDark} /\ Returned
       \/ behaviour = "raw" /\ runs = 0 /\ Measured
       \/ behaviour = "wide" /\ runs = 0 /\ Measure(Traces) /\ UNCHANGED raws
       \/ behaviour = "long" /\ Measure(MCFewTraces) /\ UNCHANGED raws
       \/ behaviour # "raw" /\ Continued
    /\ UNCHANGED behaviour
    /\ runs = 0 /\ runs' = 1 => run'.src = u1

MCSpec == MCInit /\ [][MCNext]_<<tracingVars, behaviour>>
=============================================================================
