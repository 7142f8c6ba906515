-------------------------- MODULE MCCorridorBatch --------------------------
(***************************************************************************)
(* Small instances of CorridorBatch for TLC.                               *)
(***************************************************************************)
EXTENDS CorridorBatch, TLC

CONSTANTS a, b, t, f1, f2, w1, w2, m1, m2, m3

\* Two sources, one target; the findings' retests share a source with one
\* corridor of the backlog, so workers compete for it.
MCBacklog == {<<a, t>>, <<b, t>>}
MCRetestPair == [f \in Finding |-> <<a, t>>]

Symmetry == Permutations(Worker) \cup Permutations(Mid)
=============================================================================
