---------------------------- MODULE AtomicStore ----------------------------
(***************************************************************************)
(* What a range engine promises of its committed rows: a transaction's     *)
(* writes appear all at once, at its commit, on top of everything          *)
(* committed before it.  A row holds the set of transactions whose writes  *)
(* its value has absorbed, so an update that builds on a stale value is    *)
(* visible as a missing member.                                            *)
(***************************************************************************)
CONSTANTS Row, Txn, NoRow

VARIABLES
  content,   \* content[r]: the transactions row r has absorbed, or NoRow
  committed  \* the transactions that have committed

Init ==
  /\ content \in [Row -> {NoRow} \cup SUBSET committed]
  /\ committed \subseteq Txn

(* What one transaction may do to a row: leave it, delete it, update the   *)
(* value that is there, or insert it where there is none.                  *)
Written(old, x) ==
  {old, NoRow} \cup (IF old = NoRow THEN {{x}} ELSE {old \cup {x}})

Commit(x) ==
  /\ x \notin committed
  /\ committed' = committed \cup {x}
  /\ \A r \in Row : content'[r] \in Written(content[r], x)
  /\ DOMAIN content' = Row

Next == \E x \in Txn : Commit(x)

Spec == Init /\ [][Next]_<<content, committed>>
=============================================================================
