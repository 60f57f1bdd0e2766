----------------------------- MODULE MCCounters -----------------------------
(* Instances of Counters: two or three nodes, two or three calls.          *)
EXTENDS Counters, TLC

CONSTANTS n1, n2, c1, c2, c3

CountersSymmetry == Permutations(Call) \cup Permutations(Node)
=============================================================================
