-------------------------- MODULE MCRangeFailover --------------------------
(* RangeFailover on two nodes.                                             *)
EXTENDS RangeFailover, TLC

NodeSymmetry == Permutations(Node)

TwoTxns == 1..2

(* Crashes and abort races that fail; replicas of range 0 that lag;        *)
(* participants in the client's own gateway, which leaves or crashes.      *)
Scenarios ==
  {[work |-> {"global", "auto", "lock"}, faults |-> {"refused", "crash"}],
   [work |-> {"global", "auto"},         faults |-> {"lag"}],
   [work |-> {"lockjoin", "auto"},       faults |-> {"drop", "crash"}]}

RefusedRaces == {[work |-> {"global", "auto"}, faults |-> {"refused", "crash"}]}
=============================================================================
