--------------------------- MODULE RowLocksProofs ---------------------------
(***************************************************************************)
(* Proofs about the row-lock manager, for every set of transactions and    *)
(* rows: type correctness, mutual exclusion of exclusive locks, absence of *)
(* lost wakeups and acyclicity of the wait-for graph.                      *)
(***************************************************************************)
EXTENDS RowLocks, TLAPS

(* A parked transaction has a current request: Retry reads it.             *)
WaitingHasRequest ==
  \A x \in AnyXid : pc[x] = "waiting" => req[x] # None

(* The inductive invariant behind the wakeup and cycle theorems.           *)
LockInv == TypeOK /\ WaitingHasRequest /\ NoLostWakeup /\ WaitForAcyclic

-----------------------------------------------------------------------------
(* What a pass of the acquire loop writes has the right type               *)
(* (lockmgr.rs:117).                                                       *)
LEMMA TryAcquireType ==
  ASSUME TypeOK, NEW x \in AnyXid, NEW r \in Row, NEW m \in LockMode,
         TryAcquire(x, r, m)
  PROVE  /\ mode' \in [Row -> LockMode]
         /\ holders' \in [Row -> SUBSET AnyXid]
         /\ waiters' \in [AnyXid -> SUBSET AnyXid]
         /\ wait_for' \in [AnyXid -> AnyXid \cup {None}]
         /\ permit' \in [AnyXid -> BOOLEAN]
         /\ pc' \in [AnyXid -> PC]
<1>1. NewMode(r, m) \in LockMode
  BY DEF NewMode, TypeOK
<1>2. CASE CanAcquire(x, r, m)
  BY <1>1, <1>2 DEF TryAcquire, TypeOK, PC
<1>3. CASE ~CanAcquire(x, r, m)
  <2>1. PICK h \in holders[r] \ {x} :
          \/ /\ wait_for' = [wait_for EXCEPT ![x] = None]
             /\ pc' = [pc EXCEPT ![x] = "deadlock"]
             /\ UNCHANGED <<waiters, permit>>
          \/ /\ wait_for' = [wait_for EXCEPT ![x] = h]
             /\ waiters' = [waiters EXCEPT ![h] = @ \cup {x}]
             /\ permit' = [permit EXCEPT ![x] = FALSE]
             /\ pc' = [pc EXCEPT ![x] = "waiting"]
    BY <1>3 DEF TryAcquire
  <2>2. UNCHANGED <<holders, mode>>
    BY <1>3 DEF TryAcquire
  <2>3. h \in AnyXid
    BY DEF TypeOK
  <2>4. CASE /\ wait_for' = [wait_for EXCEPT ![x] = None]
             /\ pc' = [pc EXCEPT ![x] = "deadlock"]
             /\ UNCHANGED <<waiters, permit>>
    BY <2>2, <2>4 DEF TypeOK, PC
  <2>5. CASE /\ wait_for' = [wait_for EXCEPT ![x] = h]
             /\ waiters' = [waiters EXCEPT ![h] = @ \cup {x}]
             /\ permit' = [permit EXCEPT ![x] = FALSE]
             /\ pc' = [pc EXCEPT ![x] = "waiting"]
    <3>1. waiters' \in [AnyXid -> SUBSET AnyXid]
      BY <2>3, <2>5 DEF TypeOK
    <3>2. permit' \in [AnyXid -> BOOLEAN]
      BY <2>5 DEF TypeOK
    <3>3. wait_for' \in [AnyXid -> AnyXid \cup {None}] /\ pc' \in [AnyXid -> PC]
      BY <2>3, <2>5 DEF TypeOK, PC
    <3>. QED  BY <2>2, <3>1, <3>2, <3>3 DEF TypeOK
  <2>. QED  BY <2>1, <2>4, <2>5
<1>. QED  BY <1>2, <1>3

(* What release_all writes has the right type (lockmgr.rs:155).            *)
LEMMA DropLocksType ==
  ASSUME TypeOK, NEW x \in AnyXid, DropLocks(x)
  PROVE  /\ holders' \in [Row -> SUBSET AnyXid]
         /\ waiters' \in [AnyXid -> SUBSET AnyXid]
         /\ wait_for' \in [AnyXid -> AnyXid \cup {None}]
         /\ to_wake' \in [AnyXid -> SUBSET AnyXid]
  BY DEF DropLocks, TypeOK

-----------------------------------------------------------------------------
(* Clearing an outgoing edge (Acquired, Deadlock, release_all) closes no   *)
(* cycle.                                                                  *)
LEMMA RemoveEdgeAcyclic ==
  ASSUME TypeOK, WaitForAcyclic, NEW x \in AnyXid,
         wait_for' = [wait_for EXCEPT ![x] = None]
  PROVE  WaitForAcyclic'
<1> SUFFICES ASSUME NEW S \in SUBSET AnyXid, S # {},
                    \A y \in S : wait_for'[y] \in S
             PROVE  FALSE
  BY DEF WaitForAcyclic
<1>1. None \notin S
  BY RowLocksAssumption DEF AnyXid
<1>2. x \notin S
  BY <1>1 DEF TypeOK
<1>3. \A y \in S : wait_for[y] \in S
  BY <1>2 DEF TypeOK
<1>. QED  BY <1>3 DEF WaitForAcyclic

(* Parking on h after check_cycle answered Ok closes no cycle: the walk    *)
(* from h stays in a closed set C without x, so a cycle through the new    *)
(* edge would leave a cycle inside C before it.                            *)
LEMMA AddEdgeAcyclic ==
  ASSUME TypeOK, WaitForAcyclic, NEW x \in AnyXid, NEW h \in AnyXid,
         ~CycleThrough(h, x), wait_for' = [wait_for EXCEPT ![x] = h]
  PROVE  WaitForAcyclic'
<1> SUFFICES ASSUME NEW S \in SUBSET AnyXid, S # {},
                    \A y \in S : wait_for'[y] \in S
             PROVE  FALSE
  BY DEF WaitForAcyclic
<1>1. PICK C \in SUBSET AnyXid :
        /\ h \in C /\ x \notin C
        /\ \A y \in C : wait_for[y] # None => wait_for[y] \in C
  BY DEF CycleThrough
<1>2. CASE x \notin S
  <2>1. \A y \in S : wait_for[y] \in S
    BY <1>2 DEF TypeOK
  <2>. QED  BY <2>1 DEF WaitForAcyclic
<1>3. CASE x \in S
  <2>1. h \in S
    BY <1>3 DEF TypeOK
  <2>2. \A y \in S \cap C : wait_for[y] \in S
    BY <1>1 DEF TypeOK
  <2>3. \A y \in S \cap C : wait_for[y] \in C
    BY <1>1, <2>2, RowLocksAssumption DEF AnyXid
  <2>4. S \cap C \in SUBSET AnyXid /\ S \cap C # {}
    BY <1>1, <2>1
  <2>. QED  BY <2>2, <2>3, <2>4 DEF WaitForAcyclic
<1>. QED  BY <1>2, <1>3

-----------------------------------------------------------------------------
(* A pass of the acquire loop keeps the invariant: a waiter it parks is    *)
(* registered, under the same guard, on a holder that has the row.         *)
LEMMA TryAcquireInv ==
  ASSUME LockInv, NEW x \in AnyXid, NEW r \in Row, NEW m \in LockMode,
         TryAcquire(x, r, m), to_wake' = to_wake,
         req' \in [AnyXid -> [row : Row, mode : LockMode] \cup {None}],
         req'[x] = [row |-> r, mode |-> m],
         \A y \in AnyXid \ {x} : req'[y] = req[y]
  PROVE  LockInv'
<1>1. TypeOK'
  BY TryAcquireType DEF LockInv, TypeOK
<1>2. WaitingHasRequest'
  <2>1. req'[x] # None
    BY RowLocksAssumption DEF LockMode
  <2>2. \A y \in AnyXid \ {x} : pc'[y] = pc[y]
    BY DEF TryAcquire, LockInv, TypeOK
  <2>. QED  BY <2>1, <2>2 DEF WaitingHasRequest, LockInv
<1>3. CASE CanAcquire(x, r, m)
  <2>1. /\ holders' = [holders EXCEPT ![r] = @ \cup {x}]
        /\ wait_for' = [wait_for EXCEPT ![x] = None]
        /\ pc' = [pc EXCEPT ![x] = "running"]
        /\ waiters' = waiters /\ permit' = permit
    BY <1>3 DEF TryAcquire
  <2>2. WaitForAcyclic'
    BY <2>1, RemoveEdgeAcyclic DEF LockInv
  <2>3. NoLostWakeup'
    BY <2>1 DEF NoLostWakeup, LockInv, TypeOK
  <2>. QED  BY <1>1, <1>2, <2>2, <2>3 DEF LockInv
<1>4. CASE ~CanAcquire(x, r, m)
  <2>1. PICK h \in holders[r] \ {x} :
          \/ /\ wait_for' = [wait_for EXCEPT ![x] = None]
             /\ pc' = [pc EXCEPT ![x] = "deadlock"]
             /\ UNCHANGED <<waiters, permit>>
          \/ /\ ~CycleThrough(h, x)
             /\ wait_for' = [wait_for EXCEPT ![x] = h]
             /\ waiters' = [waiters EXCEPT ![h] = @ \cup {x}]
             /\ permit' = [permit EXCEPT ![x] = FALSE]
             /\ pc' = [pc EXCEPT ![x] = "waiting"]
    BY <1>4 DEF TryAcquire
  <2>2. UNCHANGED <<holders, mode>>
    BY <1>4 DEF TryAcquire
  <2>3. h \in AnyXid
    BY DEF LockInv, TypeOK
  <2>4. CASE /\ wait_for' = [wait_for EXCEPT ![x] = None]
             /\ pc' = [pc EXCEPT ![x] = "deadlock"]
             /\ UNCHANGED <<waiters, permit>>
    <3>1. WaitForAcyclic'
      BY <2>4, RemoveEdgeAcyclic DEF LockInv
    <3>2. NoLostWakeup'
      BY <2>2, <2>4 DEF NoLostWakeup, LockInv, TypeOK
    <3>. QED  BY <1>1, <1>2, <3>1, <3>2 DEF LockInv
  <2>5. CASE /\ ~CycleThrough(h, x)
             /\ wait_for' = [wait_for EXCEPT ![x] = h]
             /\ waiters' = [waiters EXCEPT ![h] = @ \cup {x}]
             /\ permit' = [permit EXCEPT ![x] = FALSE]
             /\ pc' = [pc EXCEPT ![x] = "waiting"]
    <3>1. WaitForAcyclic'
      BY <2>3, <2>5, AddEdgeAcyclic DEF LockInv
    <3>2. /\ wait_for'[x] = h /\ x \in waiters'[h]
          /\ h \in holders'[req'[x].row]
      BY <2>2, <2>3, <2>5 DEF LockInv, TypeOK
    <3>3. ASSUME NEW y \in AnyXid, y # x, pc'[y] = "waiting", ~permit'[y]
          PROVE  \E k \in AnyXid :
                   /\ wait_for'[y] = k
                   /\ \/ y \in waiters'[k] /\ k \in holders'[req'[y].row]
                      \/ y \in to_wake'[k]
      <4>1. pc[y] = "waiting" /\ ~permit[y] /\ wait_for'[y] = wait_for[y]
        BY <2>5, <3>3 DEF LockInv, TypeOK
      <4>2. \A k \in AnyXid : waiters[k] \subseteq waiters'[k]
        BY <2>5 DEF LockInv, TypeOK
      <4>. QED  BY <2>2, <3>3, <4>1, <4>2 DEF LockInv, NoLostWakeup
    <3>4. NoLostWakeup'
      BY <2>3, <3>2, <3>3 DEF NoLostWakeup
    <3>. QED  BY <1>1, <1>2, <3>1, <3>4 DEF LockInv
  <2>. QED  BY <2>1, <2>4, <2>5
<1>. QED  BY <1>3, <1>4

(* release_all under the guard keeps the invariant: the waiters it takes   *)
(* from the holder are the ones it is going to notify.                     *)
LEMMA DropLocksInv ==
  ASSUME LockInv, NEW x \in AnyXid, DropLocks(x), pc[x] # "waiting",
         NEW s \in PC \ {"waiting"}, pc' = [pc EXCEPT ![x] = s],
         UNCHANGED <<mode, permit, req>>
  PROVE  LockInv'
<1>1. TypeOK'
  BY DropLocksType DEF LockInv, TypeOK
<1>2. WaitingHasRequest'
  BY DEF WaitingHasRequest, LockInv, TypeOK
<1>3. WaitForAcyclic'
  BY RemoveEdgeAcyclic DEF LockInv, DropLocks
<1>4. ASSUME NEW y \in AnyXid, pc'[y] = "waiting", ~permit'[y]
      PROVE  \E k \in AnyXid :
               /\ wait_for'[y] = k
               /\ \/ y \in waiters'[k] /\ k \in holders'[req'[y].row]
                  \/ y \in to_wake'[k]
  <2>1. y # x /\ pc[y] = "waiting" /\ ~permit[y]
    BY <1>4 DEF LockInv, TypeOK
  <2>2. req[y].row \in Row
    BY <2>1 DEF LockInv, WaitingHasRequest, TypeOK
  <2>3. PICK k \in AnyXid :
          /\ wait_for[y] = k
          /\ \/ y \in waiters[k] /\ k \in holders[req[y].row]
             \/ y \in to_wake[k]
    BY <2>1 DEF LockInv, NoLostWakeup
  <2>4. wait_for'[y] = k
    BY <2>1, <2>3 DEF DropLocks, LockInv, TypeOK
  <2>5. CASE k = x
    BY <2>3, <2>4, <2>5 DEF DropLocks, LockInv, TypeOK
  <2>6. CASE k # x
    BY <2>2, <2>3, <2>4, <2>6 DEF DropLocks, LockInv, TypeOK
  <2>. QED  BY <2>5, <2>6
<1>5. NoLostWakeup'
  BY <1>4 DEF NoLostWakeup
<1>. QED  BY <1>1, <1>2, <1>3, <1>5 DEF LockInv

(* One notify_one gives its waiter the permit.                             *)
LEMMA NotifyOneInv ==
  ASSUME LockInv, NEW x \in AnyXid, NEW w \in AnyXid, NotifyOne(x, w)
  PROVE  LockInv'
<1>1. permit' \in [AnyXid -> BOOLEAN] /\ to_wake' \in [AnyXid -> SUBSET AnyXid]
  BY DEF NotifyOne, LockInv, TypeOK
<1>2. TypeOK' /\ WaitingHasRequest' /\ WaitForAcyclic'
  BY <1>1 DEF NotifyOne, LockInv, TypeOK, WaitingHasRequest, WaitForAcyclic
<1>3. \A y \in AnyXid : ~permit'[y] => y # w /\ ~permit[y]
  BY DEF NotifyOne, LockInv, TypeOK
<1>4. \A k \in AnyXid : \A y \in to_wake[k] \ {w} : y \in to_wake'[k]
  BY DEF NotifyOne, LockInv, TypeOK
<1>5. NoLostWakeup'
  BY <1>3, <1>4 DEF NotifyOne, LockInv, NoLostWakeup
<1>. QED  BY <1>2, <1>5 DEF LockInv

(* release_all returning disturbs nothing but pc.                          *)
LEMMA ReleasedInv ==
  ASSUME LockInv, NEW x \in AnyXid, Released(x)
  PROVE  LockInv'
<1>1. \A y \in AnyXid : pc'[y] = "waiting" => pc[y] = "waiting"
  BY DEF Released, LockInv, TypeOK
<1>2. pc' \in [AnyXid -> PC]
  BY DEF Released, LockInv, TypeOK, PC
<1>3. TypeOK' /\ WaitForAcyclic'
  BY <1>2 DEF Released, LockInv, TypeOK, WaitForAcyclic
<1>4. WaitingHasRequest' /\ NoLostWakeup'
  BY <1>1 DEF Released, LockInv, WaitingHasRequest, NoLostWakeup
<1>. QED  BY <1>3, <1>4 DEF LockInv

(* reacquire_exclusive only adds a holder: nobody's wakeup is disturbed.   *)
LEMMA ReacquireInv ==
  ASSUME LockInv, NEW x \in AnyXid, NEW r \in Row, ReacquireExclusive(x, r)
  PROVE  LockInv'
<1>1. /\ mode' \in [Row -> LockMode] /\ holders' \in [Row -> SUBSET AnyXid]
      /\ pc' \in [AnyXid -> PC]
  BY DEF ReacquireExclusive, LockInv, TypeOK, PC, LockMode
<1>2. \A y \in AnyXid : pc'[y] = "waiting" => pc[y] = "waiting"
  BY DEF ReacquireExclusive, LockInv, TypeOK
<1>3. \A q \in Row : holders[q] \subseteq holders'[q]
  BY DEF ReacquireExclusive, LockInv, TypeOK
<1>4. TypeOK' /\ WaitForAcyclic'
  BY <1>1 DEF ReacquireExclusive, LockInv, TypeOK, WaitForAcyclic
<1>5. WaitingHasRequest'
  BY <1>2 DEF ReacquireExclusive, LockInv, WaitingHasRequest
<1>6. \A y \in AnyXid : pc[y] = "waiting" => req[y].row \in Row
  BY DEF LockInv, WaitingHasRequest, TypeOK
<1>7. NoLostWakeup'
  BY <1>2, <1>3, <1>6 DEF ReacquireExclusive, LockInv, NoLostWakeup
<1>. QED  BY <1>4, <1>5, <1>7 DEF LockInv

-----------------------------------------------------------------------------
(* A new lock manager (lockmgr.rs:64) satisfies the inductive invariant.   *)
LEMMA InitInv == Init => LockInv
<1> SUFFICES ASSUME Init PROVE LockInv
  OBVIOUS
<1>1. TypeOK
  BY DEF Init, TypeOK, PC, LockMode
<1>2. WaitingHasRequest /\ NoLostWakeup
  BY DEF Init, WaitingHasRequest, NoLostWakeup
<1>3. WaitForAcyclic
  BY RowLocksAssumption DEF Init, WaitForAcyclic, AnyXid
<1>. QED  BY <1>1, <1>2, <1>3 DEF LockInv

(* Every step of a session, of release_all's notifications and of the      *)
(* recovery sweep preserves the inductive invariant.                       *)
LEMMA NextInv == LockInv /\ [Next]_vars => LockInv'
<1> SUFFICES ASSUME LockInv, [Next]_vars PROVE LockInv'
  OBVIOUS
<1> Xid \subseteq AnyXid /\ InDoubtXid \subseteq AnyXid
  BY DEF AnyXid
<1>1. ASSUME NEW x \in Xid, NEW r \in Row, NEW m \in LockMode, Acquire(x, r, m)
      PROVE  LockInv'
  <2>1. /\ req' \in [AnyXid -> [row : Row, mode : LockMode] \cup {None}]
        /\ req'[x] = [row |-> r, mode |-> m]
        /\ \A y \in AnyXid \ {x} : req'[y] = req[y]
    BY <1>1 DEF Acquire, LockInv, TypeOK
  <2>. QED  BY <1>1, <2>1, TryAcquireInv DEF Acquire
<1>2. ASSUME NEW x \in Xid, Retry(x)
      PROVE  LockInv'
  <2>1. req[x] \in [row : Row, mode : LockMode]
    BY <1>2 DEF Retry, LockInv, TypeOK, WaitingHasRequest
  <2>2. /\ req[x].row \in Row /\ req[x].mode \in LockMode
        /\ req[x] = [row |-> req[x].row, mode |-> req[x].mode]
    BY <2>1
  <2>3. req' = req /\ to_wake' = to_wake /\ TryAcquire(x, req[x].row, req[x].mode)
    BY <1>2 DEF Retry
  <2>4. req' \in [AnyXid -> [row : Row, mode : LockMode] \cup {None}]
    BY <2>3 DEF LockInv, TypeOK
  <2>. QED  BY <2>2, <2>3, <2>4, TryAcquireInv
<1>3. ASSUME NEW x \in Xid, ReleaseAll(x)
      PROVE  LockInv'
  BY <1>3, DropLocksInv DEF ReleaseAll, PC
<1>4. ASSUME NEW x \in AnyXid, NEW w \in AnyXid, NotifyOne(x, w)
      PROVE  LockInv'
  BY <1>4, NotifyOneInv
<1>5. ASSUME NEW x \in AnyXid, Released(x)
      PROVE  LockInv'
  BY <1>5, ReleasedInv
<1>6. ASSUME NEW x \in InDoubtXid, NEW r \in Claim[x], ReacquireExclusive(x, r)
      PROVE  LockInv'
  <2>1. r \in Row
    BY RowLocksAssumption
  <2>. QED  BY <1>6, <2>1, ReacquireInv
<1>7. ASSUME NEW x \in InDoubtXid, NEW decided \in BOOLEAN,
             ReleaseInDoubtLock(x, decided)
      PROVE  LockInv'
  <2>1. (IF decided THEN "releasing" ELSE "indoubt") \in PC \ {"waiting"}
    BY DEF PC
  <2>2. /\ DropLocks(x) /\ pc[x] # "waiting" /\ UNCHANGED <<mode, permit, req>>
        /\ pc' = [pc EXCEPT ![x] = IF decided THEN "releasing" ELSE "indoubt"]
    BY <1>7 DEF ReleaseInDoubtLock
  <2>. QED  BY <2>1, <2>2, DropLocksInv
<1>8. CASE UNCHANGED vars
  BY <1>8 DEF vars, LockInv, TypeOK, WaitingHasRequest, NoLostWakeup, WaitForAcyclic
<1>. QED
  BY <1>1, <1>2, <1>3, <1>4, <1>5, <1>6, <1>7, <1>8
     DEF Next, Session, Sweep, Terminated

(* The lock table, the wait-for graph and the wakeup lists keep their      *)
(* types (lockmgr.rs:41).                                                  *)
THEOREM TypeCorrect == Spec => []TypeOK
<1>1. LockInv => TypeOK
  BY DEF LockInv
<1>. QED  BY <1>1, InitInv, NextInv, PTL DEF Spec

(* No wakeup is lost, whatever the number of transactions and rows and     *)
(* with the recovery sweep running: "no lost-wakeup window and no chance   *)
(* of registering on a holder that already released" (lockmgr.rs:115).     *)
THEOREM NoWakeupLost == Spec => []NoLostWakeup
<1>1. LockInv => NoLostWakeup
  BY DEF LockInv
<1>. QED  BY <1>1, InitInv, NextInv, PTL DEF Spec

(* The wait-for graph never has a cycle: check_cycle (lockmgr.rs:238)      *)
(* refuses the edge that would close one.                                  *)
THEOREM NoWaitCycle == Spec => []WaitForAcyclic
<1>1. LockInv => WaitForAcyclic
  BY DEF LockInv
<1>. QED  BY <1>1, InitInv, NextInv, PTL DEF Spec

-----------------------------------------------------------------------------
(* A granted pass of the acquire loop keeps exclusive locks exclusive      *)
(* (try_acquire_locked, lockmgr.rs:193).                                   *)
LEMMA TryAcquireMutex ==
  ASSUME TypeOK, MutualExclusion, NEW x \in AnyXid, NEW r \in Row,
         NEW m \in LockMode, TryAcquire(x, r, m)
  PROVE  MutualExclusion'
<1>1. CASE CanAcquire(x, r, m)
  <2>1. /\ holders' = [holders EXCEPT ![r] = @ \cup {x}]
        /\ mode' = [mode EXCEPT ![r] = NewMode(r, m)]
    BY <1>1 DEF TryAcquire
  <2>2. NewMode(r, m) = "Exclusive" => holders[r] \subseteq {x}
    BY <1>1 DEF CanAcquire, NewMode, MutualExclusion, TypeOK, LockMode
  <2>. QED  BY <2>1, <2>2 DEF MutualExclusion, TypeOK
<1>2. CASE ~CanAcquire(x, r, m)
  BY <1>2 DEF TryAcquire, MutualExclusion
<1>. QED  BY <1>1, <1>2

(* With no inherited in-doubt marker to re-lock, an exclusive row lock has *)
(* at most one holder, for every set of transactions and rows.             *)
THEOREM ExclusiveIsExclusive ==
  ASSUME InDoubtXid = {}
  PROVE  Spec => []MutualExclusion
<1>1. Init => MutualExclusion
  BY DEF Init, MutualExclusion
<1>2. LockInv /\ MutualExclusion /\ [Next]_vars => MutualExclusion'
  <2> SUFFICES ASSUME LockInv, MutualExclusion, [Next]_vars PROVE MutualExclusion'
    OBVIOUS
  <2> Xid = AnyXid
    BY DEF AnyXid
  <2>1. ASSUME NEW x \in Xid, NEW r \in Row, NEW m \in LockMode, Acquire(x, r, m)
        PROVE  MutualExclusion'
    BY <2>1, TryAcquireMutex DEF Acquire, LockInv
  <2>2. ASSUME NEW x \in Xid, Retry(x)
        PROVE  MutualExclusion'
    <3>1. req[x].row \in Row /\ req[x].mode \in LockMode
      BY <2>2 DEF Retry, LockInv, TypeOK, WaitingHasRequest
    <3>. QED  BY <2>2, <3>1, TryAcquireMutex DEF Retry, LockInv
  <2>3. ASSUME NEW x \in Xid, ReleaseAll(x)
        PROVE  MutualExclusion'
    BY <2>3 DEF ReleaseAll, DropLocks, MutualExclusion
  <2>4. ASSUME NEW x \in Xid, NEW w \in AnyXid, NotifyOne(x, w)
        PROVE  MutualExclusion'
    BY <2>4 DEF NotifyOne, MutualExclusion
  <2>5. ASSUME NEW x \in Xid, Released(x)
        PROVE  MutualExclusion'
    BY <2>5 DEF Released, MutualExclusion
  <2>6. CASE UNCHANGED vars
    BY <2>6 DEF vars, MutualExclusion
  <2>. QED
    BY <2>1, <2>2, <2>3, <2>4, <2>5, <2>6 DEF Next, Session, Terminated
<1>. QED  BY <1>1, <1>2, InitInv, NextInv, PTL DEF Spec
=============================================================================
