----------------------------- MODULE TxnEngine -----------------------------
(***************************************************************************)
(* Transactions of one range engine over a local durable store             *)
(* (crates/executor/src/session.rs, exec.rs, procarray.rs, seq.rs with     *)
(* PersistMode::Durable).  Sessions run BEGIN, COMMIT, ROLLBACK, INSERT,   *)
(* UPDATE, DELETE and SELECT FOR UPDATE, in a block or in autocommit, at   *)
(* READ COMMITTED or REPEATABLE READ, and the process may crash.           *)
(*                                                                         *)
(* A statement is several steps: it takes an xid and a snapshot and scans; *)
(* then for each candidate row it waits for the row lock and re-reads the  *)
(* row (EvalPlanQual); then it commits one batch.  The end of a            *)
(* transaction is three steps: the clog record, ProcArray::finish,         *)
(* release_all.  A row's value is the set of xids that have updated it.    *)
(* Row locks are the exclusive locks that RowLocks provides.               *)
(***************************************************************************)
EXTENDS Mvcc, FiniteSets, FiniteSetsExt

CONSTANTS
  Session,
  MaxXid,    \* bound: xids handed out
  InitRows,  \* how many rows there may be at the start
  MaxRow,    \* bound: rowids handed out
  NoRow

ASSUME TxnEngineAssumption ==
  /\ MaxXid \in Nat \ {0}
  /\ MaxRow \in Nat
  /\ InitRows \subseteq 0 .. MaxRow

Xid == 1 .. MaxXid
Row == 1 .. MaxRow
BOOTSTRAP_XID == 1 \* the committed transaction that wrote the initial rows
Status == {"InProgress", "Committed", "Aborted"}
Kind == {"insert", "update", "delete", "select"}

VARIABLES
  versions,     \* durable: the tuples, one per (row, xmin)
  clog,         \* durable: clog[x]
  durable_next, \* durable: /0/meta/next_xid
  next_rowid,   \* durable: the table's sequence
  next_xid,     \* ProcArray
  running,      \* ProcArray
  lock,         \* RowLockManager: lock[r], INVALID_XID when free
  sess          \* sess[s]: TxnState, TxnCtx and the statement in progress

stored == <<versions, clog, durable_next, next_rowid>>
proc == <<next_xid, running>>
vars == <<versions, clog, durable_next, next_rowid, next_xid, running, lock, sess>>

Version == [row : Row, xmin : Xid, xmax : Xid \cup {INVALID_XID}, val : SUBSET Xid]

(* pc: ready between statements; lock, recheck for the row Min(todo); batch *)
(* with the writes ops; finish, release at the end of a transaction.        *)
SessionState ==
  [state : {"Idle", "InTransaction", "Failed"},
   rr : BOOLEAN,
   xid : Xid \cup {INVALID_XID},
   snap : [xmax : 1 .. MaxXid + 1, xip : SUBSET Xid],
   pc : {"ready", "lock", "recheck", "batch", "finish", "release"},
   kind : Kind,
   todo : SUBSET Row,
   ops : SUBSET Version]

IdleSession ==
  [state |-> "Idle", rr |-> FALSE, xid |-> INVALID_XID,
   snap |-> Snapshot(BOOTSTRAP_XID, {}), pc |-> "ready", kind |-> "select",
   todo |-> {}, ops |-> {}]

Init ==
  /\ next_rowid \in {n + 1 : n \in InitRows}
  /\ versions = [row : 1 .. (next_rowid - 1), xmin : {BOOTSTRAP_XID},
                 xmax : {INVALID_XID}, val : {{BOOTSTRAP_XID}}]
  /\ clog = [x \in Xid |-> IF x = BOOTSTRAP_XID THEN "Committed" ELSE "InProgress"]
  /\ durable_next = BOOTSTRAP_XID + 1
  /\ next_xid = durable_next
  /\ running = {}
  /\ lock = [r \in Row |-> INVALID_XID]
  /\ sess = [s \in Session |-> IdleSession]

VersionsOf(r) == {v \in versions : v.row = r}

(* A session record after a statement in a block, and at the end of a      *)
(* transaction: what no later step reads is forgotten.                     *)
AfterStatement(c, state) ==
  [IdleSession EXCEPT !.state = state, !.rr = c.rr, !.xid = c.xid,
                      !.snap = IF c.rr /\ state # "Failed" THEN c.snap ELSE @]
Ending(c) == [IdleSession EXCEPT !.xid = c.xid, !.pc = "finish"]

-----------------------------------------------------------------------------
(* Mutant of BeginWrite: the counter is only bumped in memory.             *)
BeginWriteVolatile ==
  /\ next_xid <= MaxXid
  /\ next_xid' = next_xid + 1
  /\ running' = running \cup {next_xid}
  /\ UNCHANGED durable_next

(* ProcArray::begin_write: the bumped counter is durable before the xid is *)
(* used.                                                                   *)
BeginWrite ==
  /\ next_xid <= MaxXid
  /\ durable_next' = next_xid + 1
  /\ next_xid' = next_xid + 1
  /\ running' = running \cup {next_xid}

(* BEGIN; inside a block it is a no-op.  REPEATABLE READ keeps the         *)
(* snapshot it takes here.                                                 *)
Begin(s, rr) ==
  /\ sess[s].pc = "ready"
  /\ sess[s].state = "Idle"
  /\ sess' = [sess EXCEPT ![s].state = "InTransaction", ![s].rr = rr,
                          ![s].snap = IF rr THEN Snapshot(next_xid, running) ELSE @]
  /\ UNCHANGED <<stored, proc, lock>>

(* run_write and run_select_locking up to the candidate rows: allocate an  *)
(* xid if there is none, refresh the snapshot unless REPEATABLE READ, scan *)
(* the rows T of the WHERE clause.  INSERT takes its rowid instead.        *)
StartStatement(s, kind, T) ==
  /\ sess[s].pc = "ready"
  /\ sess[s].state # "Failed"
  /\ IF sess[s].xid = INVALID_XID
       THEN BeginWrite
       ELSE UNCHANGED <<durable_next, next_xid, running>>
  /\ LET xid  == IF sess[s].xid = INVALID_XID THEN next_xid ELSE sess[s].xid
         snap == IF sess[s].rr THEN sess[s].snap ELSE Snapshot(next_xid', running')
         todo == {r \in T : FindVisibleOne(VersionsOf(r), snap, xid, clog) # {}}
         new  == [row |-> next_rowid, xmin |-> xid, xmax |-> INVALID_XID, val |-> {xid}]
     IN  /\ \/ /\ kind = "insert"
               /\ next_rowid <= MaxRow
               /\ next_rowid' = next_rowid + 1
               /\ sess' = [sess EXCEPT ![s].xid = xid, ![s].snap = snap, ![s].kind = kind,
                                       ![s].ops = {new}, ![s].pc = "batch"]
            \/ /\ kind # "insert"
               /\ sess' = [sess EXCEPT ![s].xid = xid, ![s].snap = snap, ![s].kind = kind,
                                       ![s].todo = todo,
                                       ![s].pc = IF todo = {} THEN "batch" ELSE "lock"]
               /\ UNCHANGED next_rowid
  /\ UNCHANGED <<versions, clog, lock>>

(* The session a blocked session waits for.                                *)
Owner(r) == CHOOSE t \in Session : sess[t].xid = lock[r]
Blocked(s) ==
  /\ sess[s].pc = "lock"
  /\ lock[Min(sess[s].todo)] \notin {INVALID_XID, sess[s].xid}
WaitCycle(s) ==
  \E S \in SUBSET Session :
    /\ s \in S
    /\ \A t \in S : Blocked(t) /\ Owner(Min(sess[t].todo)) \in S

LockRow(s) ==
  /\ sess[s].pc = "lock"
  /\ ~Blocked(s)
  /\ lock' = [lock EXCEPT ![Min(sess[s].todo)] = sess[s].xid]
  /\ sess' = [sess EXCEPT ![s].pc = "recheck"]
  /\ UNCHANGED <<stored, proc>>

(* A statement fails: a block turns Failed and keeps its xid and locks; an *)
(* autocommit write records the abort if it can and ends; an autocommit    *)
(* locking SELECT ends.                                                    *)
StatementError(s) ==
  /\ \/ /\ sess[s].state = "InTransaction"
        /\ sess' = [sess EXCEPT ![s] = AfterStatement(@, "Failed")]
        /\ UNCHANGED clog
     \/ /\ sess[s].state = "Idle"
        /\ sess' = [sess EXCEPT ![s] = Ending(@)]
        /\ \/ sess[s].kind # "select" /\ clog' = [clog EXCEPT ![sess[s].xid] = "Aborted"]
           \/ UNCHANGED clog
  /\ UNCHANGED <<versions, durable_next, next_rowid, proc, lock>>

Deadlock(s) ==
  /\ Blocked(s)
  /\ WaitCycle(s)
  /\ StatementError(s)

(* The row operations of UPDATE and DELETE on the version v: an own        *)
(* version is overwritten in place, another's is superseded.               *)
RowOps(kind, v, xid) ==
  CASE kind = "update" ->
         {[v EXCEPT !.xmin = xid, !.xmax = INVALID_XID, !.val = @ \cup {xid}]}
           \cup (IF v.xmin = xid THEN {} ELSE {[v EXCEPT !.xmax = xid]})
    [] kind = "delete" -> {[v EXCEPT !.xmax = xid]}
    [] OTHER -> {}

(* Mutant of EvalPlanQual: the newest version with the scanned row's value. *)
EvalPlanQualScannedRow(s, r) ==
  {[v EXCEPT !.val = w.val] :
     v \in FindVisibleOne(VersionsOf(r), Snapshot(next_xid, running), sess[s].xid, clog),
     w \in FindVisibleOne(VersionsOf(r), sess[s].snap, sess[s].xid, clog)}

(* eval_plan_qual's answer for the locked row: the newest version if the   *)
(* row changed since the snapshot, else the snapshot's.                    *)
EvalPlanQual(s, r) ==
  LET snap == IF ChangedSinceSnapshot(VersionsOf(r), sess[s].snap, sess[s].xid, clog)
                THEN Snapshot(next_xid, running) ELSE sess[s].snap
  IN  FindVisibleOne(VersionsOf(r), snap, sess[s].xid, clog)

(* Re-read the locked row.  A row that changed may have left the WHERE     *)
(* clause.                                                                 *)
Recheck(s) ==
  LET r       == Min(sess[s].todo)
      changed == ChangedSinceSnapshot(VersionsOf(r), sess[s].snap, sess[s].xid, clog)
      found   == EvalPlanQual(s, r)
      done    == sess[s].todo \ {r}
  IN  /\ sess[s].pc = "recheck"
      /\ \/ /\ changed /\ sess[s].rr
            /\ StatementError(s)
         \/ /\ ~(changed /\ sess[s].rr)
            /\ \E keep \in {found} \cup (IF changed THEN {{}} ELSE {}) :
                 sess' = [sess EXCEPT
                   ![s].todo = done,
                   ![s].ops = @ \cup UNION {RowOps(sess[s].kind, v, sess[s].xid) : v \in keep},
                   ![s].pc = IF done = {} THEN "batch" ELSE "lock"]
            /\ UNCHANGED <<stored, proc, lock>>

(* Mutant of Put: an in-place overwrite keeps the old tuple beside the new. *)
PutAppend(vs, ops) == vs \cup ops

(* Puts of a batch replace the tuples under their (row, xmin) keys.        *)
Put(vs, ops) ==
  {v \in vs : \A o \in ops : <<o.row, o.xmin>> # <<v.row, v.xmin>>} \cup ops

(* committer.commit of a statement's batch; autocommit adds the clog       *)
(* record.  A locking SELECT commits nothing.                              *)
Batch(s) ==
  /\ sess[s].pc = "batch"
  /\ versions' = Put(versions, sess[s].ops)
  /\ clog' = IF sess[s].state = "Idle" /\ sess[s].kind # "select"
               THEN [clog EXCEPT ![sess[s].xid] = "Committed"] ELSE clog
  /\ sess' = [sess EXCEPT ![s] = IF @.state = "Idle" THEN Ending(@)
                                 ELSE AfterStatement(@, "InTransaction")]
  /\ UNCHANGED <<durable_next, next_rowid, proc, lock>>

(* The batch is not written: a block turns Failed, autocommit ends without *)
(* a record.                                                               *)
BatchFails(s) ==
  /\ sess[s].pc = "batch"
  /\ sess[s].kind # "select"
  /\ sess' = [sess EXCEPT ![s] = IF @.state = "Idle" THEN Ending(@)
                                 ELSE AfterStatement(@, "Failed")]
  /\ UNCHANGED <<stored, proc, lock>>

(* commit_cmd, rollback_cmd and abort_ctx: record the outcome, which may   *)
(* fail, and go on to deregister the xid and free its locks.               *)
EndBlock(s, outcome) ==
  /\ sess[s].pc = "ready"
  /\ sess[s].state # "Idle"
  /\ outcome = "Committed" => sess[s].state = "InTransaction"
  /\ \/ /\ sess[s].xid = INVALID_XID
        /\ sess' = [sess EXCEPT ![s] = IdleSession]
        /\ UNCHANGED clog
     \/ /\ sess[s].xid # INVALID_XID
        /\ sess' = [sess EXCEPT ![s] = Ending(@)]
        /\ \/ clog' = [clog EXCEPT ![sess[s].xid] = outcome]
           \/ UNCHANGED clog
  /\ UNCHANGED <<versions, durable_next, next_rowid, proc, lock>>

(* Drop of a session in a block: no clog record.                           *)
Disconnect(s) ==
  /\ sess[s].pc = "ready"
  /\ sess[s].state # "Idle"
  /\ sess' = [sess EXCEPT ![s] = IF @.xid = INVALID_XID THEN IdleSession ELSE Ending(@)]
  /\ UNCHANGED <<stored, proc, lock>>

Unlocked(xid) == [r \in Row |-> IF lock[r] = xid THEN INVALID_XID ELSE lock[r]]

(* Mutant of EndTransaction: the locks go before the xid is deregistered.  *)
EndTransactionReleaseFirst(s) ==
  \/ /\ sess[s].pc = "finish"
     /\ lock' = Unlocked(sess[s].xid)
     /\ sess' = [sess EXCEPT ![s].pc = "release"]
     /\ UNCHANGED <<stored, proc>>
  \/ /\ sess[s].pc = "release"
     /\ running' = running \ {sess[s].xid}
     /\ sess' = [sess EXCEPT ![s] = IdleSession]
     /\ UNCHANGED <<stored, next_xid, lock>>

(* Mutant of EndTransaction: release_all takes the freed rows out of the   *)
(* lock table instead of marking them free.                                *)
EndTransactionForgetsRows(s) ==
  \/ /\ sess[s].pc = "finish"
     /\ running' = running \ {sess[s].xid}
     /\ sess' = [sess EXCEPT ![s].pc = "release"]
     /\ UNCHANGED <<stored, next_xid, lock>>
  \/ /\ sess[s].pc = "release"
     /\ lock' = [r \in {q \in DOMAIN lock : lock[q] # sess[s].xid} |-> lock[r]]
     /\ sess' = [sess EXCEPT ![s] = IdleSession]
     /\ UNCHANGED <<stored, proc>>

(* After the outcome is recorded: deregister the xid, then free its locks. *)
EndTransaction(s) ==
  \/ /\ sess[s].pc = "finish"
     /\ running' = running \ {sess[s].xid}
     /\ sess' = [sess EXCEPT ![s].pc = "release"]
     /\ UNCHANGED <<stored, next_xid, lock>>
  \/ /\ sess[s].pc = "release"
     /\ lock' = Unlocked(sess[s].xid)
     /\ sess' = [sess EXCEPT ![s] = IdleSession]
     /\ UNCHANGED <<stored, proc>>

(* The process dies and restarts: ProcArray::open reads the durable        *)
(* counter, the running set and the lock table start empty.                *)
Crash ==
  /\ next_xid' = durable_next
  /\ running' = {}
  /\ lock' = [r \in Row |-> INVALID_XID]
  /\ sess' = [s \in Session |-> IdleSession]
  /\ UNCHANGED stored

-----------------------------------------------------------------------------
Step(s) ==
  \/ \E rr \in BOOLEAN : Begin(s, rr)
  \/ \E T \in SUBSET Row \ {{}}, kind \in Kind \ {"insert"} : StartStatement(s, kind, T)
  \/ StartStatement(s, "insert", {})
  \/ LockRow(s)
  \/ Deadlock(s)
  \/ Recheck(s)
  \/ Batch(s)
  \/ BatchFails(s)
  \/ \E outcome \in {"Committed", "Aborted"} : EndBlock(s, outcome)
  \/ Disconnect(s)
  \/ EndTransaction(s)

Next == (\E s \in Session : Step(s)) \/ Crash

Spec == Init /\ [][Next]_vars
-----------------------------------------------------------------------------
TypeOK ==
  /\ versions \subseteq Version
  /\ clog \in [Xid -> Status]
  /\ durable_next \in 1 .. MaxXid + 1
  /\ next_rowid \in 1 .. MaxRow + 1
  /\ next_xid \in 1 .. MaxXid + 1
  /\ running \subseteq Xid
  /\ lock \in [Row -> Xid \cup {INVALID_XID}]
  /\ sess \in [Session -> SessionState]

(* The snapshots a read may use now: those of statements in progress and   *)
(* of REPEATABLE READ blocks, and the one a new reader would take.         *)
SnapshotInUse(s) ==
  \/ sess[s].state = "InTransaction" /\ sess[s].rr
  \/ sess[s].pc \in {"lock", "recheck", "batch"}
Readers ==
  {<<sess[s].snap, sess[s].xid>> : s \in {t \in Session : SnapshotInUse(t)}}
    \cup {<<Snapshot(next_xid, running), INVALID_XID>>}

(* Every snapshot shows exactly the transactions that ended before it and  *)
(* the reader's own: a row they deleted is gone, and a row they left has   *)
(* one live version (the debug_assert of find_visible_one and scan_live),  *)
(* whose value has absorbed all of them and nothing else.                  *)
SnapshotExact ==
  \A rd \in Readers, r \in Row :
    LET vs      == VersionsOf(r)
        Seen(x) == CommittedVisible(x, rd[1], rd[2], clog)
        wrote   == {x \in {v.xmin : v \in vs} : Seen(x)}
        deleted == \E v \in vs :
                     /\ v.xmax # INVALID_XID
                     /\ Seen(v.xmax)
                     /\ \A w \in vs : w.xmin = v.xmax => w.xmax = w.xmin
        live    == LiveVersions(vs, rd[1], rd[2], clog)
    IN  IF deleted \/ wrote = {} THEN live = {}
        ELSE \E v \in live : live = {v} /\ v.val = wrote

(* What a REPEATABLE READ block reads does not change under it, unless by  *)
(* its own writes: other sessions' commits, aborts and statements leave    *)
(* every row of its snapshot as it was.                                    *)
SnapshotStable ==
  [][\A s \in Session :
       /\ SnapshotInUse(s) /\ SnapshotInUse(s)'
       /\ sess'[s] = sess[s]
       => \A r \in Row :
            {v.val : v \in FindVisibleOne(VersionsOf(r), sess[s].snap, sess[s].xid, clog)}
            = {v.val : v \in FindVisibleOne(VersionsOf(r)', sess[s].snap, sess[s].xid, clog')}]_vars

(* A restart never hands out an xid again: no tuple, clog record or lock   *)
(* carries an xid the counter has still to give (procarray.rs:54).         *)
XidNeverReused ==
  /\ \A v \in versions : v.xmin < next_xid /\ v.xmax < next_xid
  /\ \A x \in Xid : x >= next_xid => clog[x] = "InProgress" /\ x \notin running
  /\ \A s, t \in Session : sess[s].xid = sess[t].xid /\ s # t => sess[s].xid = INVALID_XID

(* The engine implements AtomicStore: a row's committed value is that of   *)
(* its version whose creator, and no deleter, has a Committed record.      *)
Committed(r) ==
  LET live == {v \in versions :
                 /\ v.row = r
                 /\ clog[v.xmin] = "Committed"
                 /\ v.xmax = INVALID_XID \/ clog[v.xmax] # "Committed"}
  IN  IF live = {} THEN NoRow
      ELSE (CHOOSE v \in live : \A w \in live : w.xmin <= v.xmin).val

Store == INSTANCE AtomicStore
  WITH Txn <- Xid, content <- [r \in Row |-> Committed(r)],
       committed <- {x \in Xid : clog[x] = "Committed"}

(* Every commit takes effect at one instant and on top of the latest       *)
(* committed rows; aborts, failures, disconnects and crashes change no     *)
(* committed row.                                                          *)
ImplementsAtomicStore == Store!Spec
=============================================================================
