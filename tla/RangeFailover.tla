--------------------------- MODULE RangeFailover ---------------------------
(***************************************************************************)
(* A data range as a participant of cross-range transactions, across       *)
(* leader changes and crashes: the sessions TxnService holds and the local *)
(* ones (twopc.rs, session.rs), the lock of a row, the versions and the    *)
(* clog of the range, the one decision per global transaction in range 0,  *)
(* the settle sweep of a new leader (server_node.rs,                       *)
(* resolve_in_doubt_on_leadership) and the recovery gate it opens.         *)
(*                                                                         *)
(* One row stands for the range: what the sweep, the gate and the locks    *)
(* have to keep apart are two writers of the same row.  The range's store  *)
(* is the state its Raft group has committed: a batch is applied when it   *)
(* is proposed by the leader and refused otherwise.  A global transaction  *)
(* and its global xid are the same value; its other participants are taken *)
(* to have staged.  Xids are never issued twice: see Counters for when     *)
(* that holds.                                                             *)
(***************************************************************************)
EXTENDS Integers, FiniteSets, FiniteSetsExt

CONSTANTS
  Node, Txn,
  Scenario,  \* [work, faults]: kinds of transaction and faults that occur together
  MaxMove,   \* bound: elections that depose a live leader
  MaxCrash,  \* bound: node crashes
  None

(*   auto      autocommit UPDATE                                           *)
(*   global    UPDATE staged by Stage(g) in a session TxnService holds     *)
(*   lock      BEGIN; SELECT FOR UPDATE; COMMIT                            *)
(*   lockjoin  BEGIN; SELECT FOR UPDATE; a statement on another range;     *)
(*             UPDATE: in a session of the client's own gateway            *)
Kind == {"auto", "global", "lock", "lockjoin"}

(*   lag      a node's replica of range 0 may be behind                    *)
(*   refused  the abort race is answered, but not by a decision            *)
(*   drop     a client disconnects from a gateway that is the participant  *)
(*   regain   a deposed node leads again, with the sessions of its earlier *)
(*            term still there                                             *)
(*   crash    a node loses its locks, sessions and sweep                   *)
FaultKind == {"lag", "refused", "drop", "regain", "crash"}

MaxXid == 2 * Cardinality(Txn)
Xid == 1..MaxXid

ASSUME RangeFailoverAssumption ==
  /\ Scenario \subseteq [work : SUBSET Kind, faults : SUBSET FaultKind]
  /\ MaxMove \in Nat /\ MaxCrash \in Nat
  /\ Txn \subseteq Nat  \* as global xids: ordered
  /\ None \notin Node \cup Txn

VARIABLES
  term, leader,  \* of the data range's Raft group
  moves, crashes,
  led,           \* the nodes that have led since they started
  versions,      \* of the row: [xmin, xmax, by, val]; xmax = 0: not superseded
  clog,          \* the range's clog: Running, Committed or a Prepared record
  scan_lo,       \* the recovery watermark in the range's store
  next_xid,
  decision,      \* range 0's clog
  replica,       \* the decisions each node's replica of range 0 has applied
  locks,         \* each node's holders of the row's exclusive lock
  sess,          \* each node's session of each transaction
  served,        \* RecoveryGate: the term each node last settled
  sweep,         \* each node's resolve_in_doubt_on_leadership
  faults,        \* what may go wrong
  kind, co       \* each transaction's kind and its coordinator or client

vars == <<term, leader, moves, crashes, led, versions, clog, scan_lo, next_xid, decision,
          replica, locks, sess, served, sweep, faults, kind, co>>
raft  == <<term, leader, moves, crashes, led>>
store == <<versions, clog, scan_lo, next_xid>>
range0 == <<decision, replica>>
gate  == <<served, sweep>>
setting == <<faults, kind>>

Running   == [status |-> "InProgress", g |-> None]
Committed == [status |-> "Committed", g |-> None]
Prepared(g) == [status |-> "Prepared", g |-> g]

NoSession == [pc |-> "none", xid |-> 0, base |-> 0, g |-> None, swept |-> FALSE]
NoSweep   == [pc |-> "idle", term |-> 0, pairs |-> {}, todo |-> {}, resolved |-> {}]

Init ==
  /\ term = 0 /\ leader = None /\ moves = 0 /\ crashes = 0 /\ led = {}
  /\ versions = {[xmin |-> 0, xmax |-> 0, by |-> None, val |-> {}]}
  /\ clog = [x \in Xid |-> Running]
  /\ scan_lo = 0 /\ next_xid = 1
  /\ decision = [t \in Txn |-> "InProgress"]
  /\ replica = [n \in Node |-> {}]
  /\ locks = [n \in Node |-> {}]
  /\ sess = [n \in Node |-> [t \in Txn |-> NoSession]]
  /\ served = [n \in Node |-> 0]
  /\ sweep = [n \in Node |-> NoSweep]
  /\ \E sc \in Scenario : faults = sc.faults /\ kind \in [Txn -> sc.work]
  /\ co = [t \in Txn |-> [pc |-> "idle", tries |-> 0, told |-> "none"]]

-----------------------------------------------------------------------------
Decided == {g \in Txn : decision[g] # "InProgress"}

(* What node n reads in its replica of range 0.                            *)
DecisionAt(n, g) ==
  IF "lag" \in faults /\ g \notin replica[n] THEN "InProgress" ELSE decision[g]

(* Mutant of CommittedAt: a marker is not followed to range 0.             *)
CommittedAtLocally(n, x) == x = 0 \/ clog[x].status = "Committed"

(* global_status with the settled global snapshot of eval_plan_qual: the   *)
(* status of xid x as node n resolves it.  Xid 0 made the first version.   *)
CommittedAt(n, x) ==
  \/ x = 0
  \/ clog[x].status = "Committed"
  \/ clog[x].status = "Prepared" /\ DecisionAt(n, clog[x].g) = "Committed"

(* The version eval_plan_qual gives the holder of the row lock: the live   *)
(* one of greatest xmin.                                                   *)
EvalPlanQual(n, own) ==
  LET live == {v \in versions : /\ v.xmin = own \/ CommittedAt(n, v.xmin)
                                /\ v.xmax # own
                                /\ v.xmax = 0 \/ ~CommittedAt(n, v.xmax)}
  IN  Max({v.xmin : v \in live})

(* effective_global_xid: a sibling version under an in-doubt marker makes  *)
(* the write adopt that marker's g, the smallest of several.               *)
EffectiveGlobalXid(n, x, g) ==
  LET markers == {clog[v.xmin] : v \in {w \in versions : w.xmin \notin {0, x}}}
      adopted == {m.g : m \in {p \in markers : /\ p.status = "Prepared" /\ p.g # g
                                               /\ DecisionAt(n, p.g) = "InProgress"}}
  IN  IF adopted = {} THEN g ELSE Min(adopted)

IsServing(n) == leader = n /\ served[n] = term

(* Mutant of InDoubt: a decided marker is reported too.                    *)
InDoubtAny(n) == {x \in Xid : x >= scan_lo /\ clog[x].status = "Prepared"}

(* in_doubt_globals_from and reacquire_in_doubt_locks: the markers from    *)
(* the watermark on whose g the node's replica of range 0 has undecided.   *)
InDoubt(n) ==
  {x \in Xid : x >= scan_lo /\ clog[x].status = "Prepared"
                            /\ DecisionAt(n, clog[x].g) = "InProgress"}

(* Mutant of Decide: the last decision wins.                               *)
DecideLast(g, outcome) == decision' = [decision EXCEPT ![g] = outcome]

(* CommitGlobal in range 0: the decision is write-once.                    *)
Decide(g, outcome) ==
  decision' = [decision EXCEPT ![g] = IF @ = "InProgress" THEN outcome ELSE @]

(* finish_current_txn: the session's lock goes, and the session with it.   *)
FinishCurrentTxn(n, t) ==
  /\ sess' = [sess EXCEPT ![n][t] = NoSession]
  /\ locks' = [locks EXCEPT ![n] = @ \ {sess[n][t].xid}]

-----------------------------------------------------------------------------
(* A statement arrives at node n.                                          *)

Begin(n, t, pc) ==
  /\ next_xid \in Xid
  /\ next_xid' = next_xid + 1
  /\ sess' = [sess EXCEPT ![n][t] = [NoSession EXCEPT !.pc = pc, !.xid = next_xid]]
  /\ replica' = [replica EXCEPT ![n] = Decided]   \* ensure_global_readable

(* dispatch and TxnService::stage check the gate before a write.           *)
MayWrite(n) == IsServing(n)

(* staged_local_for                                                        *)
StagedLocalFor(g) == \E x \in Xid : x >= scan_lo /\ clog[x] = Prepared(g)

(* Autocommit UPDATE.                                                      *)
RunWrite(n, t) ==
  /\ kind[t] = "auto" /\ co[t].pc = "idle" /\ MayWrite(n)
  /\ Begin(n, t, "acquire")
  /\ co' = [co EXCEPT ![t].pc = "staging"]
  /\ UNCHANGED <<raft, versions, clog, scan_lo, decision, locks, gate, setting>>

(* TxnService::stage, first attempt or the retry of TwoPcClient::call.     *)
Stage(n, t) ==
  /\ kind[t] = "global" /\ co[t].pc \in {"idle", "retry"} /\ MayWrite(n)
  /\ sess[n][t].pc = "none"
  /\ IF StagedLocalFor(t)
       THEN /\ co' = [co EXCEPT ![t].pc = "staged"]
            /\ UNCHANGED <<next_xid, sess, replica>>
       ELSE /\ Begin(n, t, "acquire")
            /\ co' = [co EXCEPT ![t].pc = "staging", ![t].tries = @ + 1]
  /\ UNCHANGED <<raft, versions, clog, scan_lo, decision, locks, gate, setting>>

(* SELECT FOR UPDATE in a block: not gated.                                *)
SelectForUpdate(n, t) ==
  /\ kind[t] \in {"lock", "lockjoin"} /\ co[t].pc = "idle" /\ leader = n
  /\ Begin(n, t, "lock")
  /\ co' = [co EXCEPT ![t].pc = "staging"]
  /\ UNCHANGED <<raft, versions, clog, scan_lo, decision, locks, gate, setting>>

(* RowLockManager::acquire; the holder passes.                             *)
Acquire(n, t) ==
  /\ sess[n][t].pc \in {"lock", "acquire"} /\ locks[n] \subseteq {sess[n][t].xid}
  /\ locks' = [locks EXCEPT ![n] = {sess[n][t].xid}]
  /\ sess' = [sess EXCEPT ![n][t].pc = IF @ = "lock" THEN "held" ELSE "eval"]
  /\ UNCHANGED <<raft, store, range0, gate, setting, co>>

(* COMMIT of the block that only locked.                                   *)
CommitLock(n, t) ==
  /\ kind[t] = "lock" /\ sess[n][t].pc = "held"
  /\ clog' = IF leader = n THEN [clog EXCEPT ![sess[n][t].xid] = Committed] ELSE clog
  /\ FinishCurrentTxn(n, t)
  /\ co' = [co EXCEPT ![t].pc = "done"]
  /\ UNCHANGED <<raft, versions, scan_lo, next_xid, range0, gate, setting>>

(* join_global of a block that has an xid, then its UPDATE.                *)
JoinGlobal(n, t) ==
  /\ kind[t] = "lockjoin" /\ sess[n][t].pc = "held"
  /\ leader = n
  /\ clog' = [clog EXCEPT ![sess[n][t].xid] = Prepared(t)]
  /\ sess' = [sess EXCEPT ![n][t].pc = "joined"]
  /\ UNCHANGED <<raft, versions, scan_lo, next_xid, range0, locks, gate, setting, co>>

StageJoined(n, t) ==
  /\ sess[n][t].pc = "joined" /\ MayWrite(n)
  /\ sess' = [sess EXCEPT ![n][t].pc = "acquire"]
  /\ replica' = [replica EXCEPT ![n] = Decided]
  /\ UNCHANGED <<raft, store, decision, locks, gate, setting, co>>

(* Under the row lock: pick the version, build the batch.                  *)
Eval(n, t) ==
  LET s == sess[n][t]
  IN  /\ s.pc = "eval"
      /\ sess' = [sess EXCEPT ![n][t].pc = "propose",
                              ![n][t].base = EvalPlanQual(n, s.xid),
                              ![n][t].g = IF kind[t] = "auto" THEN None
                                          ELSE EffectiveGlobalXid(n, s.xid, t)]
      /\ UNCHANGED <<raft, store, range0, locks, gate, setting, co>>

(* The batch: the old version stamped, the new one, the clog record.       *)
ApplyBatch(s, t) ==
  LET old == CHOOSE v \in versions : v.xmin = s.base
      new == [xmin |-> s.xid, xmax |-> 0, by |-> t, val |-> old.val \cup {t}]
  IN  /\ versions' = (versions \ {old}) \cup {[old EXCEPT !.xmax = s.xid], new}
      /\ clog' = [clog EXCEPT ![s.xid] = IF kind[t] = "auto" THEN Committed ELSE Prepared(s.g)]
      /\ UNCHANGED <<scan_lo, next_xid>>

Propose(n, t) ==
  /\ sess[n][t].pc = "propose" /\ leader = n
  /\ ApplyBatch(sess[n][t], t)
  /\ IF kind[t] = "auto"
       THEN FinishCurrentTxn(n, t) /\ co' = [co EXCEPT ![t].pc = "done", ![t].told = "Committed"]
       ELSE /\ sess' = [sess EXCEPT ![n][t].pc = "staged"]
            /\ co' = IF co[t].pc = "staging" THEN [co EXCEPT ![t].pc = "staged"] ELSE co
            /\ UNCHANGED locks
  /\ UNCHANGED <<raft, range0, gate, setting>>

(* The commit failed: an autocommit statement is over, a held session      *)
(* keeps its lock; TwoPcClient::call tries a Stage twice.                  *)
CommitFailed(n, t) ==
  /\ IF kind[t] = "auto" THEN FinishCurrentTxn(n, t)
     ELSE sess' = [sess EXCEPT ![n][t].pc = "failed"] /\ UNCHANGED locks
  /\ co' = IF co[t].pc # "staging" THEN co
           ELSE [co EXCEPT ![t].pc = IF kind[t] = "global" /\ co[t].tries < 2
                                       THEN "retry" ELSE "failed"]

(* NotLeader: the node was deposed before it could propose.                *)
ProposeRefused(n, t) ==
  /\ sess[n][t].pc = "propose" /\ leader # n
  /\ CommitFailed(n, t)
  /\ UNCHANGED <<raft, store, range0, gate, setting>>

(* Deposed with the entry in the log: it commits, the proposer is told     *)
(* ForwardToLeader.                                                        *)
ProposeDeposed(n, t) ==
  /\ sess[n][t].pc = "propose" /\ leader = n /\ moves < MaxMove
  /\ moves' = moves + 1 /\ leader' = None
  /\ ApplyBatch(sess[n][t], t)
  /\ CommitFailed(n, t)
  /\ UNCHANGED <<term, crashes, led, range0, gate, setting>>

-----------------------------------------------------------------------------
(* The coordinator, the participants and the silence sweep.                *)

(* finish_txn: commit once staged, or roll back.                           *)
CommitGlobal(t) ==
  \E outcome \in {"Committed", "Aborted"} :
    /\ kind[t] \in {"global", "lockjoin"}
    /\ co[t].pc \in {"staging", "retry", "staged", "failed"}
    /\ outcome = "Committed" => co[t].pc = "staged"
    /\ Decide(t, outcome)
    /\ co' = [co EXCEPT ![t].pc = "decided", ![t].told = decision'[t]]
    /\ UNCHANGED <<raft, store, replica, locks, sess, gate, setting>>

AtRest(n, t) == sess[n][t].pc \in {"held", "joined", "staged", "failed"}

(* Release(g) reaches the leader, which may not be where the session is; a *)
(* gateway releases its own session itself.                                *)
Release(n, t) ==
  /\ co[t].pc = "decided" /\ AtRest(n, t)
  /\ kind[t] = "global" => leader = n
  /\ FinishCurrentTxn(n, t)
  /\ UNCHANGED <<raft, store, range0, gate, setting, co>>

(* Mutant of ResolveInDoubt: the session is dropped as if aborted, without *)
(* asking range 0 (release_all_for_range).                                 *)
ResolveInDoubtBlind(n, t) ==
  /\ kind[t] = "global" /\ sess[n][t].pc # "none" /\ ~sess[n][t].swept
  /\ sess' = [sess EXCEPT ![n][t].swept = TRUE]
  /\ UNCHANGED <<raft, store, range0, locks, gate, setting, co>>

(* Mutant of ResolveInDoubt: blind on the loss of leadership only.         *)
ResolveInDoubtBlindOnLoss(n, t) ==
  /\ kind[t] = "global" /\ sess[n][t].pc # "none" /\ ~sess[n][t].swept
  /\ IF leader = n THEN Decide(t, "Aborted") ELSE UNCHANGED decision
  /\ sess' = [sess EXCEPT ![n][t].swept = TRUE]
  /\ UNCHANGED <<raft, store, replica, locks, gate, setting, co>>

(* resolve_in_doubt, from sweep_stale or on the loss of leadership: the    *)
(* decision first, then the release, when the session is not in use.       *)
ResolveInDoubt(n, t) ==
  /\ kind[t] = "global" /\ sess[n][t].pc # "none" /\ ~sess[n][t].swept
  /\ Decide(t, "Aborted")
  /\ sess' = [sess EXCEPT ![n][t].swept = TRUE]
  /\ UNCHANGED <<raft, store, replica, locks, gate, setting, co>>

ReleaseSwept(n, t) ==
  /\ sess[n][t].swept /\ AtRest(n, t)
  /\ FinishCurrentTxn(n, t)
  /\ UNCHANGED <<raft, store, range0, gate, setting, co>>

(* SqlSession::drop of a local participant, with its coordinator.          *)
Drop(n, t) ==
  /\ "drop" \in faults /\ kind[t] = "lockjoin"
  /\ AtRest(n, t) /\ co[t].pc # "decided"
  /\ FinishCurrentTxn(n, t)
  /\ co' = [co EXCEPT ![t].pc = "gone"]
  /\ UNCHANGED <<raft, store, range0, gate, setting>>

(* A replica of range 0 catches up.                                        *)
Replicate(n) ==
  /\ "lag" \in faults /\ replica[n] # Decided
  /\ replica' = [replica EXCEPT ![n] = Decided]
  /\ UNCHANGED <<raft, store, decision, locks, sess, gate, setting, co>>

-----------------------------------------------------------------------------
(* Elections, crashes, and the settle sweep of the leader.                 *)

Elect(n) ==
  /\ leader # n
  /\ n \in led => "regain" \in faults
  /\ leader # None => moves < MaxMove
  /\ moves' = IF leader # None THEN moves + 1 ELSE moves
  /\ term' = term + 1 /\ leader' = n /\ led' = led \cup {n}
  /\ UNCHANGED <<crashes, store, range0, locks, sess, gate, setting, co>>

(* Mutant of AfterCrash: a Stage is retried for ever.                      *)
AfterCrashRetries(n, t) ==
  IF sess[n][t].pc = "none" \/ co[t].pc # "staging" THEN co[t].pc ELSE "retry"

(* A crash takes the locks, the sessions, the gate and a running sweep.  A *)
(* Stage running there ends in a wire error; a local session's client and  *)
(* coordinator go with the node.                                           *)
AfterCrash(n, t) ==
  IF sess[n][t].pc = "none" \/ co[t].pc \in {"done", "decided"} THEN co[t].pc
  ELSE IF kind[t] # "global" THEN "gone"
  ELSE IF co[t].pc # "staging" THEN co[t].pc
  ELSE IF co[t].tries < 2 THEN "retry" ELSE "failed"

Crash(n) ==
  /\ "crash" \in faults /\ crashes < MaxCrash
  /\ crashes' = crashes + 1
  /\ leader' = IF leader = n THEN None ELSE leader
  /\ led' = led \ {n}
  /\ locks' = [locks EXCEPT ![n] = {}]
  /\ sess' = [sess EXCEPT ![n] = [t \in Txn |-> NoSession]]
  /\ served' = [served EXCEPT ![n] = 0]
  /\ sweep' = [sweep EXCEPT ![n] = NoSweep]
  /\ co' = [t \in Txn |-> [co[t] EXCEPT !.pc = AfterCrash(n, t)]]
  /\ UNCHANGED <<term, moves, store, range0, setting>>

(* reacquire_in_doubt_locks: the versions are found by xmin.               *)
ReacquireInDoubtLocks(n) ==
  locks[n] \cup {x \in InDoubt(n) : \E v \in versions : v.xmin = x}

SettleStart(n) ==
  /\ leader = n /\ ~IsServing(n) /\ sweep[n].pc = "idle"
  /\ locks' = [locks EXCEPT ![n] = ReacquireInDoubtLocks(n)]
  /\ sweep' = [sweep EXCEPT ![n] = [pc |-> "racing", term |-> term, pairs |-> InDoubt(n),
                                    todo |-> {clog[x].g : x \in InDoubt(n)}, resolved |-> {}]]
  /\ UNCHANGED <<raft, store, range0, sess, served, setting, co>>

(* The abort race for g: decided; answered otherwise (NotLeader or Err     *)
(* inside Ok), which counts as resolved too; or an error.                  *)
SettleRace(n, g) ==
  /\ g \in sweep[n].todo
  /\ Decide(g, "Aborted")
  /\ sweep' = [sweep EXCEPT ![n].todo = @ \ {g}, ![n].resolved = @ \cup {g}]
  /\ UNCHANGED <<raft, store, replica, locks, sess, served, setting, co>>

SettleRaceRefused(n, g) ==
  /\ "refused" \in faults /\ g \in sweep[n].todo
  /\ sweep' = [sweep EXCEPT ![n].todo = @ \ {g}, ![n].resolved = @ \cup {g}]
  /\ UNCHANGED <<raft, store, range0, locks, sess, served, setting, co>>

SettleRaceError(n, g) ==
  /\ g \in sweep[n].todo
  /\ sweep' = [sweep EXCEPT ![n].todo = @ \ {g}]
  /\ UNCHANGED <<raft, store, range0, locks, sess, served, setting, co>>

(* Mutant of SettleClean: the gate opens after the races, whatever became  *)
(* of them.                                                                *)
SettleCleanAlways(n) == TRUE

(* The re-scan after the races finds nothing in doubt.                     *)
SettleClean(n) == InDoubt(n) = {}

(* Mutant of NewScanLo: one past the largest marker, decided or not.       *)
NewScanLoOff(n) == Max({scan_lo} \cup {x + 1 : x \in {y \in Xid : clog[y] # Running}}) + 1

(* in_doubt_globals_from's new_scan_lo when every marker is terminal.      *)
NewScanLo(n) == Max({scan_lo} \cup {x + 1 : x \in {y \in Xid : clog[y] # Running}})

(* Free what was resolved, scan again, advance the watermark, open the     *)
(* gate for the term read at the start; or leave it closed and retry.      *)
SettleFinish(n) ==
  /\ sweep[n].pc = "racing" /\ sweep[n].todo = {}
  /\ locks' = [locks EXCEPT ![n] = @ \ {x \in sweep[n].pairs : clog[x].g \in sweep[n].resolved}]
  /\ scan_lo' = IF SettleClean(n) /\ leader = n THEN NewScanLo(n) ELSE scan_lo
  /\ served' = IF SettleClean(n) THEN [served EXCEPT ![n] = sweep[n].term] ELSE served
  /\ sweep' = [sweep EXCEPT ![n] = NoSweep]
  /\ UNCHANGED <<raft, versions, clog, next_xid, range0, sess, setting, co>>

-----------------------------------------------------------------------------
Statement(n, t) ==
  \/ RunWrite(n, t) \/ Stage(n, t) \/ SelectForUpdate(n, t) \/ Acquire(n, t)
  \/ CommitLock(n, t) \/ JoinGlobal(n, t) \/ StageJoined(n, t)
  \/ Eval(n, t) \/ Propose(n, t) \/ ProposeRefused(n, t) \/ ProposeDeposed(n, t)

Resolve(n, t) ==
  Release(n, t) \/ ResolveInDoubt(n, t) \/ ReleaseSwept(n, t) \/ Drop(n, t)

Settle(n) ==
  \/ SettleStart(n) \/ SettleFinish(n)
  \/ \E g \in Txn : SettleRace(n, g) \/ SettleRaceRefused(n, g) \/ SettleRaceError(n, g)

Next ==
  \/ \E n \in Node, t \in Txn : Statement(n, t) \/ Resolve(n, t)
  \/ \E t \in Txn : CommitGlobal(t)
  \/ \E n \in Node : Elect(n) \/ Crash(n) \/ Settle(n) \/ Replicate(n)

Spec == Init /\ [][Next]_vars

(* Tasks run on: a statement takes its next step, the sweepers tick, a     *)
(* range without a leader elects one, and the abort race, tried again and  *)
(* again, gets through to range 0 in the end.                              *)
Fairness ==
  /\ \A n \in Node, t \in Txn :
       /\ WF_vars(Acquire(n, t) \/ Eval(n, t) \/ Propose(n, t) \/ ProposeRefused(n, t))
       /\ WF_vars(ResolveInDoubt(n, t)) /\ WF_vars(ReleaseSwept(n, t))
  /\ \A n \in Node :
       /\ WF_vars(SettleStart(n)) /\ WF_vars(SettleFinish(n))
       /\ \A g \in Txn : SF_vars(SettleRace(n, g))
  /\ WF_vars(leader = None /\ \E n \in Node : Elect(n))

FairSpec == Spec /\ Fairness

-----------------------------------------------------------------------------
TypeOK ==
  /\ term \in 0..(MaxMove + MaxCrash + 1) /\ leader \in Node \cup {None} /\ led \subseteq Node
  /\ moves \in 0..MaxMove /\ crashes \in 0..MaxCrash
  /\ versions \subseteq [xmin : Xid \cup {0}, xmax : Xid \cup {0},
                         by : Txn \cup {None}, val : SUBSET Txn]
  /\ clog \in [Xid -> {Running, Committed} \cup {Prepared(g) : g \in Txn}]
  /\ scan_lo \in 0..(MaxXid + 1) /\ next_xid \in 1..(MaxXid + 1)
  /\ decision \in [Txn -> {"InProgress", "Committed", "Aborted"}]
  /\ replica \in [Node -> SUBSET Txn] /\ locks \in [Node -> SUBSET Xid]
  /\ \A n \in Node : served[n] <= term /\ sweep[n].term <= term
  /\ \A t \in Txn : co[t].tries \in 0..2

Effective(x) ==
  \/ x = 0 \/ clog[x].status = "Committed"
  \/ clog[x].status = "Prepared" /\ decision[clog[x].g] = "Committed"

Live == {v \in versions : Effective(v.xmin) /\ (v.xmax = 0 \/ ~Effective(v.xmax))}

(* None of these faults happens.                                           *)
Without(set) == faults \cap set = {}

(* Every participant is a session TxnService holds.                        *)
AllHeld == \A t \in Txn : kind[t] # "lockjoin"

(* The at-most-one-live invariant find_visible_one asserts, and no lost    *)
(* update: the row has one live version, and it holds the effect of every  *)
(* transaction that committed, if replicas of range 0 do not lag.          *)
LiveIsComplete ==
  Without({"lag", "regain"}) =>
    \E v \in versions :
      Live = {v} /\ v.val = {u.by : u \in {w \in versions : Effective(w.xmin)}} \ {None}

(* What eval_plan_qual relies on: while a leader admits writes, the row of *)
(* every version whose global transaction is undecided is locked by the    *)
(* xid that wrote it.                                                      *)
InDoubtLocked ==
  AllHeld => \A n \in Node : IsServing(n) =>
    \A v \in versions :
      /\ v.xmin # 0 /\ clog[v.xmin].status = "Prepared"
      /\ decision[clog[v.xmin].g] = "InProgress"
      => v.xmin \in locks[n]

(* The watermark never passes a marker whose global transaction is         *)
(* undecided (in_doubt_globals_from, staged_local_for).                    *)
MarkerAboveWatermark ==
  AllHeld => \A x \in Xid :
    clog[x].status = "Prepared" /\ decision[clog[x].g] = "InProgress" => x >= scan_lo

(* A transaction its client was told is committed has its write in effect. *)
CommitIsEffective ==
  AllHeld /\ Without({"lag"}) => \A t \in Txn : co[t].told = "Committed" =>
    \E v \in versions : v.by = t /\ Effective(v.xmin)

(* "The lock is never freed while its g is in doubt" (release_in_doubt_    *)
(* lock): but for a crash, an xid leaves the lock table only when the      *)
(* global transaction of its marker is decided, if no abort race is        *)
(* answered without a decision.                                            *)
LockOutlivesDoubt ==
  [][AllHeld /\ Without({"refused"}) /\ crashes' = crashes =>
       \A n \in Node : \A x \in locks[n] \ locks'[n] :
         clog'[x].status = "Prepared" => decision'[clog'[x].g] # "InProgress"]_vars

(* A leader that stays comes to serve: a failed settle is retried until    *)
(* the gate opens (resolve_in_doubt_on_leadership).                        *)
GateOpens == \A n \in Node : leader = n ~> leader # n \/ IsServing(n)

(* No participant stays in doubt: once a marker is durable, its global     *)
(* transaction is decided, by the coordinator, the silence sweep or the    *)
(* next leader.                                                            *)
InDoubtResolved ==
  \A g \in Txn : (\E x \in Xid : clog[x] = Prepared(g)) ~> decision[g] # "InProgress"
=============================================================================
