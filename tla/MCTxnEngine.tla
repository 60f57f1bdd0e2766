---------------------------- MODULE MCTxnEngine ----------------------------
(* TxnEngine for TLC: two sessions whose blocks, autocommit statements and *)
(* crashes interleave over a small number of rows and xids.                *)
EXTENDS TxnEngine, TLC

CONSTANTS s1, s2

SessionSymmetry == Permutations({s1, s2})
=============================================================================
