------------------------------ MODULE PgCancel ------------------------------
(***************************************************************************)
(* Query cancellation: the message loop of a wire session                  *)
(* (crates/pgwire/src/session.rs), the cancel registry                     *)
(* (crates/pgwire/src/server.rs) and what the engine's session             *)
(* (crates/executor/src/session.rs) leaves behind when the loop drops the  *)
(* future of a statement.                                                  *)
(*                                                                         *)
(* An engine call is polled by a biased select!: each poll first looks at  *)
(* the call's token and then lets the statement run to its next await.     *)
(* The statement awaits in two places: for the lock of the one row all     *)
(* sessions update, and, in Replicated mode, for its batch to be           *)
(* committed.  The call number in which a transaction took its xid, with   *)
(* the session, stands for the xid.                                        *)
(***************************************************************************)
EXTENDS Naturals, FiniteSets

CONSTANTS
  Session,
  Canceller,   \* cancel requests, each sent at most once
  MaxCall,     \* bound: engine calls of a session in Blocks; others make one
  Mode,        \* PersistMode: "Durable" commits without an await
  Blocks,      \* sessions whose clients send BEGIN, COMMIT and ROLLBACK
  Autos,       \* sessions whose clients update outside of a block
  None

ASSUME PgCancelAssumption ==
  /\ MaxCall \in Nat \ {0}
  /\ Mode \in {"Durable", "Replicated"}
  /\ Blocks \subseteq Session /\ Autos \subseteq Session
  /\ None \notin Session
  /\ None \notin Session \X (1 .. MaxCall)

Call == 1 .. MaxCall
Stmt == {"begin", "update", "commit", "rollback"}
NoXid == 0
Xid == Session \X Call

VARIABLES
  pc,         \* where the session's loop, or the statement it polls, is
  poll,       \* the token was looked at and the statement is being polled
  call,       \* engine calls begun; the current slot holds this call's token
  stmt,       \* the statement of the current call
  fired,      \* the token in the slot is cancelled
  pending,    \* CancelTarget::pending
  creq,       \* the cancel requests
  state,      \* TxnState
  ctx,        \* xid of TxnState's TxnCtx
  local,      \* xid that only the statement's future knows
  batch,      \* clog status the future's batch carries
  holder,     \* holder of the row's lock
  running,    \* ProcArray's running set
  inflight,   \* batches handed to the committer and not applied
  committed,  \* xids with a Committed clog entry
  answer      \* answer[s][n]: what the client was told of call n

loopVars == <<call, stmt>>
cancelVars == <<fired, pending, creq>>
txnVars == <<state, ctx, local, batch>>
storeVars == <<holder, running, inflight, committed>>
vars == <<pc, poll, loopVars, cancelVars, txnVars, storeVars, answer>>

PC == {"idle", "installed", "select", "lock", "batch", "gone"}
Batch == Xid \X {"rows", "Committed", "Aborted"}
Request == [at : {"new"}] \cup
           [at : {"flagged", "done"}, target : Session, from : 1 .. MaxCall + 1]

TypeOK ==
  /\ pc \in [Session -> PC]
  /\ poll \in [Session -> BOOLEAN]
  /\ call \in [Session -> 0 .. MaxCall]
  /\ stmt \in [Session -> Stmt]
  /\ fired \in [Session -> BOOLEAN]
  /\ pending \in [Session -> BOOLEAN]
  /\ creq \in [Canceller -> Request]
  /\ state \in [Session -> {"Idle", "InTransaction", "Failed"}]
  /\ ctx \in [Session -> Call \cup {NoXid}]
  /\ \A s \in Session : ctx[s] # NoXid => state[s] # "Idle"
  /\ local \in [Session -> Call \cup {NoXid}]
  /\ batch \in [Session -> {"rows", "Committed", "Aborted"}]
  /\ holder \in Xid \cup {None}
  /\ running \subseteq Xid
  /\ inflight \subseteq Batch
  /\ committed \subseteq Xid
  /\ answer \in [Session -> [Call -> {"none", "ok", "error", "cancelled"}]]

Init ==
  /\ pc = [s \in Session |-> "idle"]
  /\ poll = [s \in Session |-> FALSE]
  /\ call = [s \in Session |-> 0]
  /\ stmt = [s \in Session |-> "begin"]
  /\ fired = [s \in Session |-> FALSE]
  /\ pending = [s \in Session |-> FALSE]
  /\ creq = [c \in Canceller |-> [at |-> "new"]]
  /\ state = [s \in Session |-> "Idle"]
  /\ ctx = [s \in Session |-> NoXid]
  /\ local = [s \in Session |-> NoXid]
  /\ batch = [s \in Session |-> "rows"]
  /\ holder = None
  /\ running = {}
  /\ inflight = {}
  /\ committed = {}
  /\ answer = [s \in Session |-> [n \in Call |-> "none"]]

-----------------------------------------------------------------------------
(* The cancel registry.                                                    *)

\* CancelRegistry::cancel, first half: the sticky flag.  The registry's mutex
\* is held to the end of the second half, so no two requests are between them.
CancelFlag(c, s) ==
  /\ creq[c].at = "new"
  /\ \A d \in Canceller : creq[d].at # "flagged"
  /\ pc[s] # "gone"
  /\ pending' = [pending EXCEPT ![s] = TRUE]
  /\ creq' = [creq EXCEPT ![c] =
       [at |-> "flagged", target |-> s,
        from |-> IF pc[s] = "idle" THEN call[s] + 1 ELSE call[s]]]
  /\ UNCHANGED <<pc, poll, loopVars, fired, txnVars, storeVars, answer>>

\* CancelRegistry::cancel, second half: cancel the token in the slot.
CancelFire(c) ==
  /\ creq[c].at = "flagged"
  /\ fired' = [fired EXCEPT ![creq[c].target] = TRUE]
  /\ creq' = [creq EXCEPT ![c].at = "done"]
  /\ UNCHANGED <<pc, poll, loopVars, pending, txnVars, storeVars, answer>>

\* A Query or an Execute arrives and begin_query puts a fresh token into the
\* slot.
BeginQuery(s, st) ==
  /\ pc[s] = "idle"
  /\ call[s] < (IF s \in Blocks THEN MaxCall ELSE 1)
  /\ st # "update" => s \in Blocks
  /\ st = "update" /\ state[s] = "Idle" => s \in Autos
  /\ call' = [call EXCEPT ![s] = @ + 1]
  /\ stmt' = [stmt EXCEPT ![s] = st]
  /\ fired' = [fired EXCEPT ![s] = FALSE]
  /\ pc' = [pc EXCEPT ![s] = "installed"]
  /\ UNCHANGED <<poll, pending, creq, txnVars, storeVars, answer>>

\* A bug: the flag is reset and the fresh token left alone.
ConsumePendingForgets(s) ==
  /\ pc[s] = "installed"
  /\ pending' = [pending EXCEPT ![s] = FALSE]
  /\ pc' = [pc EXCEPT ![s] = "select"]
  /\ UNCHANGED <<poll, loopVars, fired, creq, txnVars, storeVars, answer>>

\* begin_query, second half: consume the flag and cancel the fresh token.
ConsumePending(s) ==
  /\ pc[s] = "installed"
  /\ pending' = [pending EXCEPT ![s] = FALSE]
  /\ fired' = [fired EXCEPT ![s] = @ \/ pending[s]]
  /\ pc' = [pc EXCEPT ![s] = "select"]
  /\ UNCHANGED <<poll, loopVars, creq, txnVars, storeVars, answer>>

-----------------------------------------------------------------------------
(* The select! around an engine call.                                      *)

InCall(s) == pc[s] \in {"select", "lock", "batch"}

\* The loop answers the current call and goes back to reading messages.
Answer(s, a) ==
  /\ pc' = [pc EXCEPT ![s] = "idle"]
  /\ poll' = [poll EXCEPT ![s] = FALSE]
  /\ answer' = [answer EXCEPT ![s][call[s]] = a]
  /\ UNCHANGED <<loopVars, cancelVars>>

\* The token is not cancelled: poll the statement.
Poll(s) ==
  /\ InCall(s)
  /\ ~poll[s]
  /\ ~fired[s]
  /\ poll' = [poll EXCEPT ![s] = TRUE]
  /\ UNCHANGED <<pc, loopVars, cancelVars, txnVars, storeVars, answer>>

\* A bug: the select! lets a statement that waits for a row lock go on.
CancelledNotWaiting(s) ==
  /\ InCall(s)
  /\ pc[s] # "lock"
  /\ ~poll[s]
  /\ fired[s]
  /\ local' = [local EXCEPT ![s] = NoXid]
  /\ Answer(s, "cancelled")
  /\ UNCHANGED <<state, ctx, batch, storeVars>>

\* The token is cancelled: the statement's future is dropped, and with it the
\* xid only the future knew.  Nothing else of the engine's session changes.
Cancelled(s) ==
  /\ InCall(s)
  /\ ~poll[s]
  /\ fired[s]
  /\ local' = [local EXCEPT ![s] = NoXid]
  /\ Answer(s, "cancelled")
  /\ UNCHANGED <<state, ctx, batch, storeVars>>

OwnXid(s) == <<s, IF local[s] # NoXid THEN local[s] ELSE ctx[s]>>
LockFree(s) == holder \in {None, OwnXid(s)}
OwnBatch(s) == <<OwnXid(s), batch[s]>>

\* The statement returns Pending.
Pending(s) ==
  /\ poll[s]
  /\ \/ pc[s] = "lock" /\ ~LockFree(s)
     \/ pc[s] = "batch" /\ OwnBatch(s) \in inflight /\ Mode = "Replicated"
  /\ poll' = [poll EXCEPT ![s] = FALSE]
  /\ UNCHANGED <<pc, loopVars, cancelVars, txnVars, storeVars, answer>>

-----------------------------------------------------------------------------
(* The statements.                                                         *)

\* Hand a batch with clog status b to the committer, and await it.
Propose(s, x, b) ==
  /\ batch' = [batch EXCEPT ![s] = b]
  /\ inflight' = inflight \cup {<<x, b>>}
  /\ pc' = [pc EXCEPT ![s] = "batch"]

\* procarray.finish and lockmgr.release_all of xid x.
FinishXid(x) ==
  /\ running' = running \ {x}
  /\ holder' = IF holder = x THEN None ELSE holder

\* run_one in a failed block: everything but COMMIT and ROLLBACK is refused.
RunRefused(s) ==
  /\ poll[s] /\ pc[s] = "select"
  /\ state[s] = "Failed" /\ stmt[s] \in {"begin", "update"}
  /\ Answer(s, "error")
  /\ UNCHANGED <<txnVars, storeVars>>

\* begin: a no-op inside a block.
Begin(s) ==
  /\ poll[s] /\ pc[s] = "select"
  /\ stmt[s] = "begin" /\ state[s] # "Failed"
  /\ state' = [state EXCEPT ![s] = "InTransaction"]
  /\ Answer(s, "ok")
  /\ UNCHANGED <<ctx, local, batch, storeVars>>

\* run_write up to its first row lock: the block's xid, or one of its own.
RunWrite(s) ==
  /\ poll[s] /\ pc[s] = "select"
  /\ stmt[s] = "update" /\ state[s] # "Failed"
  /\ IF state[s] = "InTransaction"
     THEN /\ ctx' = [ctx EXCEPT ![s] = IF @ = NoXid THEN call[s] ELSE @]
          /\ UNCHANGED local
          /\ running' = running \cup {<<s, ctx'[s]>>}
     ELSE /\ local' = [local EXCEPT ![s] = call[s]]
          /\ UNCHANGED ctx
          /\ running' = running \cup {<<s, call[s]>>}
  /\ pc' = [pc EXCEPT ![s] = "lock"]
  /\ UNCHANGED <<poll, loopVars, cancelVars, state, batch, holder, inflight,
                 committed, answer>>

\* The row's lock is granted and the rest of execute_write succeeds.
WriteRows(s) ==
  /\ poll[s] /\ pc[s] = "lock" /\ LockFree(s)
  /\ holder' = OwnXid(s)
  /\ Propose(s, OwnXid(s), IF local[s] # NoXid THEN "Committed" ELSE "rows")
  /\ UNCHANGED <<poll, loopVars, cancelVars, state, ctx, local, running,
                 committed, answer>>

\* execute_write fails under the lock: a block becomes Failed and keeps its
\* xid and locks, an autocommit statement records the abort.
WriteFails(s) ==
  /\ poll[s] /\ pc[s] = "lock" /\ LockFree(s)
  /\ holder' = OwnXid(s)
  /\ IF local[s] # NoXid
     THEN /\ Propose(s, OwnXid(s), "Aborted")
          /\ UNCHANGED <<poll, loopVars, cancelVars, state, answer>>
     ELSE /\ state' = [state EXCEPT ![s] = "Failed"]
          /\ Answer(s, "error")
          /\ UNCHANGED <<batch, inflight>>
  /\ UNCHANGED <<ctx, local, running, committed>>

\* A bug: the block's context stays behind in the session.
EndBlockKeepsCtx(s) ==
  /\ poll[s] /\ pc[s] = "select"
  /\ stmt[s] \in {"commit", "rollback"}
  /\ state' = [state EXCEPT ![s] = "Idle"]
  /\ Answer(s, "ok")
  /\ UNCHANGED <<ctx, local, batch, storeVars>>

\* commit_cmd and rollback_cmd: TxnState is Idle from the first poll on, and
\* the context is the future's.
EndBlock(s) ==
  /\ poll[s] /\ pc[s] = "select"
  /\ stmt[s] \in {"commit", "rollback"}
  /\ state' = [state EXCEPT ![s] = "Idle"]
  /\ ctx' = [ctx EXCEPT ![s] = NoXid]
  /\ local' = [local EXCEPT ![s] = ctx[s]]
  /\ IF ctx[s] = NoXid
     THEN /\ Answer(s, "ok")
          /\ UNCHANGED <<batch, inflight>>
     ELSE /\ Propose(s, <<s, ctx[s]>>,
               IF stmt[s] = "commit" /\ state[s] = "InTransaction"
               THEN "Committed" ELSE "Aborted")
          /\ UNCHANGED <<poll, loopVars, cancelVars, answer>>
  /\ UNCHANGED <<holder, running, committed>>

\* The committer applies a batch.
Apply(b) ==
  /\ b \in inflight
  /\ inflight' = inflight \ {b}
  /\ committed' = IF b[2] = "Committed" THEN committed \cup {b[1]}
                                        ELSE committed
  /\ UNCHANGED <<pc, poll, loopVars, cancelVars, txnVars, holder, running,
                 answer>>

\* What follows the await of a batch, with the committer's result.
AfterBatch(s, ok) ==
  /\ local' = [local EXCEPT ![s] = NoXid]
  /\ IF local[s] # NoXid
     THEN /\ FinishXid(OwnXid(s))
          /\ UNCHANGED state
     ELSE /\ state' = [state EXCEPT ![s] = IF ok THEN @ ELSE "Failed"]
          /\ UNCHANGED <<holder, running>>
  /\ Answer(s, IF ok /\ ~(stmt[s] = "update" /\ batch[s] = "Aborted")
               THEN "ok" ELSE "error")
  /\ UNCHANGED <<ctx, batch, committed>>

Committed(s) ==
  /\ poll[s] /\ pc[s] = "batch"
  /\ OwnBatch(s) \notin inflight
  /\ AfterBatch(s, TRUE)
  /\ UNCHANGED inflight

\* The committer gives up on a batch: it is lost, or still on its way.
CommitFails(s) ==
  /\ poll[s] /\ pc[s] = "batch"
  /\ Mode = "Replicated"
  /\ OwnBatch(s) \in inflight
  /\ inflight' \in {inflight, inflight \ {OwnBatch(s)}}
  /\ AfterBatch(s, FALSE)

\* A bug: dropping the session leaves its transaction as it is.
DisconnectLeaks(s) ==
  /\ pc[s] = "idle"
  /\ \A c \in Canceller : creq[c].at # "flagged"
  /\ pc' = [pc EXCEPT ![s] = "gone"]
  /\ ctx' = [ctx EXCEPT ![s] = NoXid]
  /\ state' = [state EXCEPT ![s] = "Idle"]
  /\ UNCHANGED <<poll, loopVars, cancelVars, local, batch, storeVars, answer>>

\* The loop ends and drops the session: presumed abort.  SessionCancel's drop
\* needs the registry's mutex.
Disconnect(s) ==
  /\ pc[s] = "idle"
  /\ \A c \in Canceller : creq[c].at # "flagged"
  /\ pc' = [pc EXCEPT ![s] = "gone"]
  /\ FinishXid(<<s, ctx[s]>>)
  /\ ctx' = [ctx EXCEPT ![s] = NoXid]
  /\ state' = [state EXCEPT ![s] = "Idle"]
  /\ UNCHANGED <<poll, loopVars, cancelVars, local, batch, inflight,
                 committed, answer>>

-----------------------------------------------------------------------------
Statement(s) ==
  \/ RunRefused(s) \/ Begin(s) \/ RunWrite(s) \/ WriteRows(s) \/ WriteFails(s)
  \/ EndBlock(s) \/ Committed(s) \/ CommitFails(s)

Select(s) == Poll(s) \/ Cancelled(s) \/ Pending(s) \/ Statement(s)

Next ==
  \/ \E c \in Canceller : CancelFire(c) \/ \E s \in Session : CancelFlag(c, s)
  \/ \E s \in Session :
       \/ \E st \in Stmt : BeginQuery(s, st)
       \/ ConsumePending(s) \/ Disconnect(s) \/ Select(s)
  \/ \E b \in inflight : Apply(b)

Spec == Init /\ [][Next]_vars

\* The runtime polls a task that is ready; clients owe nothing.
Fairness ==
  /\ \A s \in Session : WF_vars(ConsumePending(s)) /\ WF_vars(Select(s))
  /\ \A c \in Canceller : WF_vars(CancelFire(c))

FairSpec == Spec /\ Fairness

-----------------------------------------------------------------------------
\* No cancel request is lost, wherever in begin_query it falls (server.rs,
\* the pending flag): the call it met, or the next one, is cancelled, has its
\* token cancelled, or will find the flag.
NoCancelLost ==
  \A c \in Canceller : creq[c].at = "done" =>
    LET s == creq[c].target
    IN  \/ pc[s] = "gone"
        \/ pending[s]
        \/ fired[s] /\ pc[s] # "idle"
        \/ \E n \in creq[c].from .. call[s] : answer[s][n] = "cancelled"

\* "One cancel fires exactly one engine call" (the doc of CancelTarget): no
\* session has more cancelled calls than it was sent cancel requests.
OneCancelOneCall ==
  \A s \in Session :
    Cardinality({n \in Call : answer[s][n] = "cancelled"}) <=
      Cardinality({c \in Canceller : creq[c].at # "new" /\ creq[c].target = s})

\* Sessions are "drop-safe mid-execution" (the doc of the Session trait): a
\* running xid, and one that holds the row's lock, belongs to an open block or
\* to a statement that is still being polled.
DropSafe ==
  LET live == {<<s, n>> \in Xid : n \in {ctx[s], local[s]}}
  IN  running \subseteq live /\ holder \in live \cup {None}

\* "Any error inside a transaction block aborts it" (run_one): no COMMIT hands
\* the committer a Committed entry for a block one of whose calls, after the
\* block took its xid, was answered with an error.
ErrorAbortsBlock ==
  \A s \in Session :
    (pc[s] = "batch" /\ stmt[s] = "commit" /\ batch[s] = "Committed") =>
      \A n \in local[s] .. call[s] : answer[s][n] \notin {"error", "cancelled"}

\* A cancelled call ends, even while its row lock is never granted and its
\* batch never committed (the biased select! of session.rs).
CancelledEnds ==
  \A s \in Session : (fired[s] /\ InCall(s)) ~> (pc[s] = "idle")

=============================================================================
