------------------------------ MODULE RowLocks ------------------------------
(***************************************************************************)
(* The in-memory row-lock manager of one range engine                      *)
(* (crates/executor/src/lockmgr.rs): shared and exclusive locks per        *)
(* (table, rowid), held until the transaction ends; a blocked writer       *)
(* parks on one holder and is woken by that holder's release_all; a        *)
(* wait-for graph with one outgoing edge per waiter is searched for a      *)
(* cycle before a transaction parks.                                       *)
(*                                                                         *)
(* The manager's mutex makes each pass of the acquire loop, and the first  *)
(* half of release_all, one step.  The wakeups of release_all come after   *)
(* the guard is dropped, one notify_one at a time, and are steps of their  *)
(* own.                                                                    *)
(***************************************************************************)
EXTENDS Naturals, FiniteSets

CONSTANTS
  Xid,        \* transactions of live sessions
  InDoubtXid, \* local xids Li of inherited Prepared(Li -> g) markers
  Row,        \* (table, rowid) pairs
  Claim,      \* Claim[Li]: the rows with a version Li created
  None        \* the absent xid, the absent request

ASSUME RowLocksAssumption ==
  /\ None \notin Xid \cup InDoubtXid
  /\ Xid \cap InDoubtXid = {}
  /\ Claim \in [InDoubtXid -> SUBSET Row]
  /\ \A x, y \in InDoubtXid : x # y => Claim[x] \cap Claim[y] = {}
  /\ None \notin [row : Row, mode : {"Shared", "Exclusive"}]

AnyXid == Xid \cup InDoubtXid
LockMode == {"Shared", "Exclusive"}

VARIABLES
  mode,     \* mode[r]: mode of the lock on r, meaningful while it has holders
  holders,  \* holders[r]: the xids holding r; {} when r has no lock entry
  waiters,  \* waiters[h]: the xids whose Notify is registered on holder h
  wait_for, \* wait_for[x]: the single holder x blocks on, or None
  permit,   \* permit[x]: x's current Notify has been notified
  to_wake,  \* to_wake[h]: Notifys release_all(h) has taken and not yet notified
  pc,       \* where each xid is
  req       \* req[x]: the row and mode of x's current acquire call

vars == <<mode, holders, waiters, wait_for, permit, to_wake, pc, req>>

PC == {"running", "waiting", "deadlock", "releasing", "done", "indoubt", "held"}

TypeOK ==
  /\ mode \in [Row -> LockMode]
  /\ holders \in [Row -> SUBSET AnyXid]
  /\ waiters \in [AnyXid -> SUBSET AnyXid]
  /\ wait_for \in [AnyXid -> AnyXid \cup {None}]
  /\ permit \in [AnyXid -> BOOLEAN]
  /\ to_wake \in [AnyXid -> SUBSET AnyXid]
  /\ pc \in [AnyXid -> PC]
  /\ req \in [AnyXid -> [row : Row, mode : LockMode] \cup {None}]

Init ==
  /\ mode = [r \in Row |-> "Shared"]
  /\ holders = [r \in Row |-> {}]
  /\ waiters = [x \in AnyXid |-> {}]
  /\ wait_for = [x \in AnyXid |-> None]
  /\ permit = [x \in AnyXid |-> FALSE]
  /\ to_wake = [x \in AnyXid |-> {}]
  /\ pc = [x \in AnyXid |-> IF x \in Xid THEN "running" ELSE "indoubt"]
  /\ req = [x \in AnyXid |-> None]

-----------------------------------------------------------------------------
(* Mutant of CanAcquire: a shared holder upgrades past its co-holders.     *)
CanAcquireUpgradeUnchecked(x, r, m) ==
  \/ holders[r] = {}
  \/ x \in holders[r]
  \/ m = "Shared" /\ mode[r] = "Shared"

(* try_acquire_locked: the row is free; or x already holds it and either   *)
(* needs no more than it has or is the sole holder upgrading; or both the  *)
(* lock and the request are shared.                                        *)
CanAcquire(x, r, m) ==
  \/ holders[r] = {}
  \/ /\ x \in holders[r]
     /\ m = "Exclusive" /\ mode[r] = "Shared" => holders[r] = {x}
  \/ /\ x \notin holders[r]
     /\ m = "Shared" /\ mode[r] = "Shared"

NewMode(r, m) ==
  IF holders[r] = {} \/ m = "Exclusive" THEN m ELSE mode[r]

(* Mutant of CycleThrough: only the holder's own edge is looked at.        *)
CycleThroughOneHop(h, x) == wait_for[h] = x

(* check_cycle: the walk along wait_for that starts at holder h meets x.   *)
(* The walk's nodes are the least set that has h and is closed under       *)
(* wait_for, so x is met exactly when every such closed set has x.         *)
CycleThrough(h, x) ==
  \A S \in SUBSET AnyXid :
    (h \in S /\ \A y \in S : wait_for[y] # None => wait_for[y] \in S) => x \in S

(* One pass of acquire's loop, under the mutex.                            *)
TryAcquire(x, r, m) ==
  \/ /\ CanAcquire(x, r, m)
     /\ holders' = [holders EXCEPT ![r] = @ \cup {x}]
     /\ mode' = [mode EXCEPT ![r] = NewMode(r, m)]
     /\ wait_for' = [wait_for EXCEPT ![x] = None]
     /\ pc' = [pc EXCEPT ![x] = "running"]
     /\ UNCHANGED <<waiters, permit>>
  \/ /\ ~CanAcquire(x, r, m)
     /\ \E h \in holders[r] \ {x} :
          \/ /\ CycleThrough(h, x)
             /\ wait_for' = [wait_for EXCEPT ![x] = None]
             /\ pc' = [pc EXCEPT ![x] = "deadlock"]
             /\ UNCHANGED <<waiters, permit>>
          \/ /\ ~CycleThrough(h, x)
             /\ wait_for' = [wait_for EXCEPT ![x] = h]
             /\ waiters' = [waiters EXCEPT ![h] = @ \cup {x}]
             /\ permit' = [permit EXCEPT ![x] = FALSE]
             /\ pc' = [pc EXCEPT ![x] = "waiting"]
     /\ UNCHANGED <<holders, mode>>

(* A session calls acquire: its first pass.                                *)
Acquire(x, r, m) ==
  /\ pc[x] = "running"
  /\ TryAcquire(x, r, m)
  /\ req' = [req EXCEPT ![x] = [row |-> r, mode |-> m]]
  /\ UNCHANGED to_wake

(* A parked waiter consumes its permit and goes round the loop again.      *)
Retry(x) ==
  /\ pc[x] = "waiting"
  /\ permit[x]
  /\ TryAcquire(x, req[x].row, req[x].mode)
  /\ UNCHANGED <<req, to_wake>>

(* Mutant of DropLocks: retain keeps only the locks that x held.           *)
DropLocksRetainInverted(x) ==
  /\ holders' = [r \in {q \in Row : x \in holders[q]} |-> holders[r] \ {x}]
  /\ wait_for' = [wait_for EXCEPT ![x] = None]
  /\ to_wake' = [to_wake EXCEPT ![x] = @ \cup waiters[x]]
  /\ waiters' = [waiters EXCEPT ![x] = {}]

(* Mutant of DropLocks: the waiters are taken and never notified.          *)
DropLocksSilent(x) ==
  /\ holders' = [r \in Row |-> holders[r] \ {x}]
  /\ wait_for' = [wait_for EXCEPT ![x] = None]
  /\ waiters' = [waiters EXCEPT ![x] = {}]
  /\ UNCHANGED to_wake

(* release_all under the mutex: drop every lock and the outgoing edge, and *)
(* take the list of waiters to notify.                                     *)
DropLocks(x) ==
  /\ holders' = [r \in Row |-> holders[r] \ {x}]
  /\ wait_for' = [wait_for EXCEPT ![x] = None]
  /\ to_wake' = [to_wake EXCEPT ![x] = @ \cup waiters[x]]
  /\ waiters' = [waiters EXCEPT ![x] = {}]

(* COMMIT or ROLLBACK, also of a transaction a deadlock error has failed.  *)
ReleaseAll(x) ==
  /\ x \in Xid
  /\ pc[x] \in {"running", "deadlock"}
  /\ DropLocks(x)
  /\ pc' = [pc EXCEPT ![x] = "releasing"]
  /\ UNCHANGED <<mode, permit, req>>

(* release_all after the guard is dropped: one notify_one.                 *)
NotifyOne(x, w) ==
  /\ w \in to_wake[x]
  /\ permit' = [permit EXCEPT ![w] = TRUE]
  /\ to_wake' = [to_wake EXCEPT ![x] = @ \ {w}]
  /\ UNCHANGED <<mode, holders, waiters, wait_for, pc, req>>

(* release_all returns.                                                    *)
Released(x) ==
  /\ pc[x] = "releasing"
  /\ to_wake[x] = {}
  /\ pc' = [pc EXCEPT ![x] = "done"]
  /\ UNCHANGED <<mode, holders, waiters, wait_for, permit, to_wake, req>>

-----------------------------------------------------------------------------
(* Recovery.  On a leadership rise the sweep installs an exclusive lock    *)
(* for an inherited in-doubt Li without consulting the holders.            *)
ReacquireExclusive(x, r) ==
  /\ pc[x] \in {"indoubt", "held"}
  /\ to_wake[x] = {}
  /\ mode' = [mode EXCEPT ![r] = "Exclusive"]
  /\ holders' = [holders EXCEPT ![r] = @ \cup {x}]
  /\ pc' = [pc EXCEPT ![x] = "held"]
  /\ UNCHANGED <<waiters, wait_for, permit, to_wake, req>>

(* release_in_doubt_lock: release_all(Li).  The sweep runs it when the     *)
(* abort-race answered, whether or not g was driven terminal; an Li whose  *)
(* g is still undecided is swept again.                                    *)
ReleaseInDoubtLock(x, decided) ==
  /\ pc[x] = "held"
  /\ DropLocks(x)
  /\ pc' = [pc EXCEPT ![x] = IF decided THEN "releasing" ELSE "indoubt"]
  /\ UNCHANGED <<mode, permit, req>>

-----------------------------------------------------------------------------
Session(x) ==
  \/ \E r \in Row, m \in LockMode : Acquire(x, r, m)
  \/ Retry(x)
  \/ ReleaseAll(x)
  \/ \E w \in AnyXid : NotifyOne(x, w)
  \/ Released(x)

Sweep(x) ==
  \/ \E r \in Claim[x] : ReacquireExclusive(x, r)
  \/ \E decided \in BOOLEAN : ReleaseInDoubtLock(x, decided)
  \/ \E w \in AnyXid : NotifyOne(x, w)
  \/ Released(x)

Terminated ==
  /\ \A x \in AnyXid : pc[x] = "done"
  /\ UNCHANGED vars

Next == (\E x \in Xid : Session(x)) \/ (\E x \in InDoubtXid : Sweep(x)) \/ Terminated

Spec == Init /\ [][Next]_vars

(* A transaction that is not parked ends, a wakeup that was taken is       *)
(* delivered and a woken task is polled.                                   *)
Fairness ==
  \A x \in Xid :
    /\ WF_vars(ReleaseAll(x))
    /\ WF_vars(Retry(x))
    /\ WF_vars(Released(x))
    /\ \A w \in Xid : WF_vars(NotifyOne(x, w))

FairSpec == Spec /\ Fairness

-----------------------------------------------------------------------------
(* An exclusive row lock has one holder: two writers never both pass the   *)
(* acquire of UPDATE or DELETE on one row (lockmgr.rs:193).                *)
MutualExclusion ==
  \A r \in Row : mode[r] = "Exclusive" =>
    \A x, y \in holders[r] : x = y

(* No lost wakeup (lockmgr.rs:113): a parked waiter that has no permit is  *)
(* still registered on the very holder its edge names and that holder      *)
(* still has the row, or its Notify is in the list a release_all is        *)
(* notifying.                                                              *)
NoLostWakeup ==
  \A x \in AnyXid : pc[x] = "waiting" /\ ~permit[x] =>
    \E h \in AnyXid :
      /\ wait_for[x] = h
      /\ \/ x \in waiters[h] /\ h \in holders[req[x].row]
         \/ x \in to_wake[h]

(* The wait-for graph is acyclic: no non-empty set of transactions all     *)
(* wait on each other (check_cycle, lockmgr.rs:238).                       *)
WaitForAcyclic ==
  \A S \in SUBSET AnyXid :
    S # {} => \E y \in S : wait_for[y] \notin S

(* A cycle that runs through a shared co-holder the single edge does not   *)
(* name "cannot hang permanently" (lockmgr.rs:47): every transaction that  *)
(* parks goes on, with the lock or with a deadlock error.                  *)
WaitersProgress ==
  \A x \in Xid : pc[x] = "waiting" ~> pc[x] # "waiting"
=============================================================================
