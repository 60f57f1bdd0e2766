----------------------------- MODULE MCRowLocks -----------------------------
(* Small instances of RowLocks for TLC.                                    *)
EXTENDS RowLocks, TLC

CONSTANTS t1, t2, t3, l1, r1, r2

NoClaim == [x \in {} |-> {}]
TwoClaims == [x \in {l1} |-> {r1, r2}]

XidSymmetry == Permutations(Xid)
=============================================================================
