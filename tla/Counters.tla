------------------------------ MODULE Counters ------------------------------
(***************************************************************************)
(* The three counters of a replicated engine across leader changes: the    *)
(* local xid counter (procarray.rs), a table's rowid sequence (seq.rs) and *)
(* the global xid counter of range 0 (gtm.rs).                             *)
(*                                                                         *)
(* Each node keeps the counters in memory and hands out ids from there.    *)
(* Batches that mention an id are proposed to the Raft group; a batch may  *)
(* carry a copy of the counter, which apply_op merges into the applied     *)
(* store.  A new leader lifts its memory to its applied store, in the      *)
(* reseed_on_leadership task and in the settle sweep that opens the        *)
(* recovery gate.                                                          *)
(*                                                                         *)
(* Raft is external: log holds the committed batches, a leader has all of  *)
(* them, and a node applies them in order.  Global xids are counted from 1 *)
(* instead of GLOBAL_XID_BASE; nothing here compares them with local xids. *)
(***************************************************************************)
EXTENDS Naturals, Sequences

CONSTANTS
  Node,
  Call,       \* client calls; each runs once
  Workload,   \* the kinds of call that occur
  MaxTerm,    \* bound: leader changes
  MaxRestart, \* bound: node restarts
  None

(* The calls that take an id, and the batches each of them proposes.       *)
(*   insert        autocommit INSERT                                       *)
(*   insert_error  autocommit INSERT that fails (run_write's Err arm)      *)
(*   rollback      BEGIN; UPDATE; ROLLBACK                                 *)
(*   lock_commit   BEGIN; SELECT FOR UPDATE; COMMIT                        *)
(*   lock_rollback BEGIN; SELECT FOR UPDATE; ROLLBACK                      *)
(*   lock_join     BEGIN; SELECT FOR UPDATE; a statement on another range  *)
(*   global        BeginGlobal on range 0                                  *)
Kind == {"insert", "insert_error", "rollback", "lock_commit", "lock_rollback",
         "lock_join", "global"}
Status == {"InProgress", "Committed", "Aborted", "Prepared"}

ASSUME CountersAssumption ==
  /\ Workload \subseteq Kind
  /\ MaxTerm \in Nat /\ MaxRestart \in Nat
  /\ None \notin Node

VARIABLES
  term, leader,   \* of the Raft group
  log, applied,   \* the committed batches; how many each node has applied
  store,          \* each node's applied counters and clog
  mem,            \* each node's counters in memory; seq = 0: not cached
  served,         \* RecoveryGate: the term each node last settled
  was_leader,     \* the local of each node's reseed_on_leadership task
  restarts,
  call

vars == <<term, leader, log, applied, store, mem, served, was_leader, restarts, call>>
raft == <<term, leader, log, applied, store>>
node == <<mem, served, was_leader, restarts>>

Larger(a, b) == IF a >= b THEN a ELSE b

EmptyStore == [next_xid |-> 1, seq |-> 1, next_global |-> 1,
               clog |-> [x \in {} |-> "InProgress"]]

(* ProcArray::open, SequenceManager::new and Gtm::open over a store.       *)
Opened(s) == [next_xid |-> s.next_xid, seq |-> 0, next_global |-> s.next_global]

NoEntry == [by |-> None]

IdleCall == [kind |-> None, pc |-> "idle", node |-> None, id |-> 0,
             rowid |-> 0, seq |-> 0, left |-> << >>, entry |-> NoEntry]
DoneCall == [IdleCall EXCEPT !.pc = "done"]

Init ==
  /\ term = 0 /\ leader = None
  /\ log = << >> /\ applied = [n \in Node |-> 0]
  /\ store = [n \in Node |-> EmptyStore]
  /\ mem = [n \in Node |-> Opened(EmptyStore)]
  /\ served = [n \in Node |-> 0]
  /\ was_leader = [n \in Node |-> FALSE]
  /\ restarts = 0
  /\ call = [c \in Call |-> IdleCall]

-----------------------------------------------------------------------------
(* What a call's batches say of its own xid, and whether they carry the    *)
(* counter.  "InProgress" is a row version without a clog record; join_global, *)
(* abort_ctx and the error arm of run_write propose the clog record alone. *)
Batch(status, folds) == [status |-> status, folds |-> folds]

Batches(kind) ==
  CASE kind \in {"insert", "lock_commit"}         -> <<Batch("Committed", TRUE)>>
    [] kind \in {"insert_error", "lock_rollback"} -> <<Batch("Aborted", FALSE)>>
    [] kind = "lock_join" -> <<Batch("Prepared", FALSE)>>
    [] kind = "rollback"  -> <<Batch("InProgress", TRUE), Batch("Aborted", FALSE)>>
    [] kind = "global"    -> <<Batch("InProgress", TRUE)>>

IsServing(n) == leader = n /\ served[n] = term

(* Mutant of MayDispatch: leadership alone admits a write.                 *)
MayDispatchUngated(n, kind) == leader = n

(* The recovery gate admits writes and BeginGlobal; a locking SELECT only  *)
(* waits for ensure_readable.                                              *)
MayDispatch(n, kind) ==
  IF kind \in {"insert", "insert_error", "rollback", "global"}
    THEN IsServing(n)
    ELSE leader = n /\ applied[n] = Len(log)

Admit(c, n, kind) ==
  /\ call[c].pc = "idle"
  /\ MayDispatch(n, kind)
  /\ call' = [call EXCEPT ![c].kind = kind, ![c].pc = "admitted", ![c].node = n,
                          ![c].left = Batches(kind)]
  /\ UNCHANGED <<raft, node>>

(* begin_write and, for INSERT, SequenceManager::alloc; or begin_global.   *)
(* The sequence op is made with the rowid, under the same mutex.           *)
Alloc(c) ==
  LET n       == call[c].node
      global  == call[c].kind = "global"
      rowid   == IF mem[n].seq = 0 THEN store[n].seq ELSE mem[n].seq
      inserts == call[c].kind = "insert"
  IN  /\ call[c].pc = "admitted"
      /\ call' = [call EXCEPT
                    ![c].pc = "allocated",
                    ![c].id = IF global THEN mem[n].next_global ELSE mem[n].next_xid,
                    ![c].rowid = IF inserts THEN rowid ELSE 0,
                    ![c].seq = IF inserts THEN rowid + 1 ELSE 0]
      /\ mem' = [mem EXCEPT ![n] =
                   [next_xid |-> IF global THEN @.next_xid ELSE @.next_xid + 1,
                    seq |-> IF inserts THEN rowid + 1 ELSE @.seq,
                    next_global |-> IF global THEN @.next_global + 1 ELSE @.next_global]]
      /\ UNCHANGED <<raft, served, was_leader, restarts>>

(* Build the next batch: next_xid_op() and next_global_xid_op() read the   *)
(* counter under a lock of their own, after the id was taken.              *)
Build(c) ==
  LET n == call[c].node
      b == Head(call[c].left)
      counter == IF call[c].kind = "global" THEN mem[n].next_global ELSE mem[n].next_xid
  IN  /\ call[c].pc = "allocated"
      /\ call' = [call EXCEPT
           ![c].pc = "built",
           ![c].left = Tail(@),
           ![c].entry = [by |-> c, global |-> call[c].kind = "global", id |-> call[c].id,
                         status |-> b.status, rowid |-> call[c].rowid,
                         seq |-> call[c].seq, next |-> IF b.folds THEN counter ELSE 0]]
      /\ UNCHANGED <<raft, node>>

(* RaftCommitter::commit: the leader's proposal is committed, any other    *)
(* node's is refused.                                                      *)
Propose(c) ==
  /\ call[c].pc = "built"
  /\ \/ /\ leader = call[c].node
        /\ log' = Append(log, call[c].entry)
        /\ call' = [call EXCEPT ![c] = IF @.left = << >> THEN DoneCall
                                       ELSE [@ EXCEPT !.entry = NoEntry, !.pc = "allocated"]]
     \/ /\ leader # call[c].node
        /\ call' = [call EXCEPT ![c] = DoneCall]
        /\ UNCHANGED log
  /\ UNCHANGED <<term, leader, applied, store, node>>

-----------------------------------------------------------------------------
(* Mutant of Merge: the incoming counter replaces the stored one.          *)
MergePut(existing, incoming) == IF incoming = 0 THEN existing ELSE incoming

(* apply_op of a counter key; 0: the batch carries none.                   *)
Merge(existing, incoming) == Larger(existing, incoming)

(* apply_op of a clog key: a terminal status is never overwritten.         *)
WriteOnce(clog, x, status) ==
  [y \in DOMAIN clog \cup {x} |->
     IF y # x THEN clog[y]
     ELSE IF x \in DOMAIN clog /\ clog[x] \in {"Committed", "Aborted"} THEN clog[x]
     ELSE status]

(* apply_op over a batch.  next_global_xid is no counter key: plain put.   *)
ApplyBatch(s, e) ==
  [next_xid    |-> IF e.global THEN s.next_xid ELSE Merge(s.next_xid, e.next),
   seq         |-> Merge(s.seq, e.seq),
   next_global |-> IF e.global THEN e.next ELSE s.next_global,
   clog        |-> IF e.global THEN s.clog ELSE WriteOnce(s.clog, e.id, e.status)]

Apply(n) ==
  /\ applied[n] < Len(log)
  /\ applied' = [applied EXCEPT ![n] = @ + 1]
  /\ store' = [store EXCEPT ![n] = ApplyBatch(@, log[applied[n] + 1])]
  /\ UNCHANGED <<term, leader, log, node, call>>

Elect(n) ==
  /\ term < MaxTerm
  /\ term' = term + 1 /\ leader' = n
  /\ UNCHANGED <<log, applied, store, node, call>>

(* Mutant of Reseeded: the cleared sequence table loses the counter.       *)
ReseededDropsSeq(m, s) ==
  [next_xid |-> Larger(m.next_xid, s.next_xid),
   next_global |-> Larger(m.next_global, s.next_global)]

(* reseed_counters and reseed_gtm: lift the xid counters to the applied    *)
(* store, forget the cached sequence.                                      *)
Reseeded(m, s) ==
  [next_xid |-> Larger(m.next_xid, s.next_xid), seq |-> 0,
   next_global |-> Larger(m.next_global, s.next_global)]

(* One turn of the reseed_on_leadership loop, at any time after the        *)
(* metrics changed; a change and its reversal between two turns are not    *)
(* seen.                                                                   *)
ReseedOnLeadership(n) ==
  /\ was_leader[n] # (leader = n)
  /\ was_leader' = [was_leader EXCEPT ![n] = (leader = n)]
  /\ mem' = IF leader = n THEN [mem EXCEPT ![n] = Reseeded(@, store[n])] ELSE mem
  /\ UNCHANGED <<raft, served, restarts, call>>

(* The settle sweep: wait until the term's log is applied, reseed, resolve *)
(* what is in doubt (module RangeFailover), open the gate.                 *)
Settle(n) ==
  /\ leader = n /\ served[n] # term
  /\ applied[n] = Len(log)
  /\ mem' = [mem EXCEPT ![n] = Reseeded(@, store[n])]
  /\ served' = [served EXCEPT ![n] = term]
  /\ UNCHANGED <<raft, was_leader, restarts, call>>

(* A node restarts: its clients' calls end, and the counters are opened    *)
(* from the durable state machine.                                         *)
Restart(n) ==
  /\ restarts < MaxRestart
  /\ restarts' = restarts + 1
  /\ leader' = IF leader = n THEN None ELSE leader
  /\ mem' = [mem EXCEPT ![n] = Opened(store[n])]
  /\ served' = [served EXCEPT ![n] = 0]
  /\ was_leader' = [was_leader EXCEPT ![n] = FALSE]
  /\ call' = [c \in Call |-> IF call[c].node = n THEN DoneCall ELSE call[c]]
  /\ UNCHANGED <<term, log, applied, store>>

-----------------------------------------------------------------------------
CallStep(c) ==
  \/ \E n \in Node, kind \in Workload : Admit(c, n, kind)
  \/ Alloc(c)
  \/ Build(c)
  \/ Propose(c)

NodeStep(n) ==
  \/ Apply(n)
  \/ Elect(n)
  \/ ReseedOnLeadership(n)
  \/ Settle(n)
  \/ Restart(n)

Next == (\E c \in Call : CallStep(c)) \/ (\E n \in Node : NodeStep(n))

Spec == Init /\ [][Next]_vars
-----------------------------------------------------------------------------
Entries ==
  [by : Call, global : BOOLEAN, id : Nat, status : Status, rowid : Nat, seq : Nat, next : Nat]
CallState ==
  [kind : Kind \cup {None}, pc : {"idle", "admitted", "allocated", "built", "done"},
   node : Node \cup {None}, id : Nat, rowid : Nat, seq : Nat,
   left : Seq([status : Status, folds : BOOLEAN]), entry : Entries \cup {NoEntry}]

TypeOK ==
  /\ term \in Nat /\ leader \in Node \cup {None}
  /\ log \in Seq(Entries)
  /\ applied \in [Node -> Nat] /\ \A n \in Node : applied[n] <= Len(log)
  /\ \A n \in Node :
       /\ DOMAIN store[n] = {"next_xid", "seq", "next_global", "clog"}
       /\ store[n].next_xid \in Nat /\ store[n].seq \in Nat /\ store[n].next_global \in Nat
       /\ \A x \in DOMAIN store[n].clog : x \in Nat /\ store[n].clog[x] \in Status
  /\ mem \in [Node -> [next_xid : Nat, seq : Nat, next_global : Nat]]
  /\ served \in [Node -> Nat] /\ was_leader \in [Node -> BOOLEAN] /\ restarts \in Nat
  /\ call \in [Call -> CallState]

(* Wherever a node stops applying, its next_xid is past every xid its      *)
(* clog and rows mention: a leader that reseeds from it hands out none of  *)
(* them again, however the batches of concurrent sessions were ordered     *)
(* (apply_op, store.rs:36-39).                                             *)
XidCovered ==
  \A n \in Node : \A x \in DOMAIN store[n].clog : x < store[n].next_xid

SameXid(e, f) == ~e.global /\ ~f.global /\ e.id = f.id

(* No two transactions leave a durable record under the same local xid,    *)
(* whatever leader handed it out: reseed_from_applied runs "so it never    *)
(* hands out an xid the old leader already used" (procarray.rs:74-75).     *)
XidOwnedOnce ==
  \A i, j \in 1 .. Len(log) : SameXid(log[i], log[j]) => log[i].by = log[j].by

(* What follows is what comments say and the engine does not keep; the     *)
(* README tells when.                                                      *)

(* A batch that commits a transaction leaves it committed: the write-once  *)
(* rule of apply_op never drops a COMMIT the client was told of.           *)
CommitStands ==
  \A n \in Node : \A i \in 1 .. applied[n] :
    ~log[i].global /\ log[i].status = "Committed"
      => store[n].clog[log[i].id] = "Committed"

(* A rowid names one row: "a restart never reuses a rowid" (seq.rs:4-5);   *)
(* the reseed "only bumps up" (server_node.rs:859).                        *)
RowidOwnedOnce ==
  \A i, j \in 1 .. Len(log) :
    log[i].rowid # 0 /\ log[i].rowid = log[j].rowid => log[i].by = log[j].by

(* "a global xid is never reused across a range-0 leader change"           *)
(* (lib.rs:257-258).                                                       *)
GlobalOwnedOnce ==
  \A i, j \in 1 .. Len(log) :
    log[i].global /\ log[j].global /\ log[i].id = log[j].id => log[i].by = log[j].by

(* A read that ensure_linearizable let through sees every committed        *)
(* transaction: the snapshot a leader builds is past all of them, so "the  *)
(* read returns no stale rows" (linearizer.rs:39).                         *)
ReadsAreCurrent ==
  \A n \in Node : leader = n /\ applied[n] = Len(log)
    => \A x \in DOMAIN store[n].clog :
         store[n].clog[x] = "Committed" => x < mem[n].next_xid
=============================================================================
