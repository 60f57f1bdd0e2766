-------------------------------- MODULE Mvcc --------------------------------
(***************************************************************************)
(* Snapshot visibility (crates/mvcc/src/visibility.rs) and the row-level   *)
(* reads built on it (crates/executor/src/exec.rs).  A version is a record *)
(* with fields xmin and xmax; a status is a function from xids to clog     *)
(* statuses; own is the reader's xid, or INVALID_XID for a reader with     *)
(* none.                                                                   *)
(***************************************************************************)
EXTENDS Naturals

INVALID_XID == 0

(* ProcArray::snapshot.  The snapshot's xmin is never consulted.           *)
Snapshot(next_xid, running) == [xmax |-> next_xid, xip |-> running]

(* Mutant of IsRunning: only later xids count as running.                  *)
IsRunningNoXip(snap, x) == x >= snap.xmax

(* The transaction was running at, or started after, the snapshot.         *)
IsRunning(snap, x) == x >= snap.xmax \/ x \in snap.xip

CommittedVisible(x, snap, own, status) ==
  \/ x = own
  \/ ~IsRunning(snap, x) /\ status[x] = "Committed"

SatisfiesMvcc(v, snap, own, status) ==
  /\ CommittedVisible(v.xmin, snap, own, status)
  /\ v.xmax = INVALID_XID \/ ~CommittedVisible(v.xmax, snap, own, status)

LiveVersions(vs, snap, own, status) ==
  {v \in vs : SatisfiesMvcc(v, snap, own, status)}

(* find_visible_one, and scan_live's choice for one rowid: the live        *)
(* version with the greatest xmin, as a set of at most one element.        *)
FindVisibleOne(vs, snap, own, status) ==
  LET live == LiveVersions(vs, snap, own, status)
  IN  {v \in live : \A w \in live : w.xmin <= v.xmin}

(* eval_plan_qual's changed_since_snapshot: some version was deleted or    *)
(* superseded by another transaction that committed and that the snapshot  *)
(* does not see.                                                           *)
ChangedSinceSnapshot(vs, snap, xid, status) ==
  \E v \in vs :
    /\ v.xmax \notin {INVALID_XID, xid}
    /\ status[v.xmax] = "Committed"
    /\ IsRunning(snap, v.xmax)
=============================================================================
