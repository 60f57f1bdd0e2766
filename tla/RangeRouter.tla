---------------------------- MODULE RangeRouter ----------------------------
(***************************************************************************)
(* Where the statements of a client connection run (range/router.rs): the  *)
(* Pin of the connection, its per-range sessions (executor session.rs),    *)
(* the forward pool that carries statements to the node leading a range    *)
(* (forward.rs), and the participants a cross-range transaction stages on  *)
(* that node (twopc.rs).                                                   *)
(*                                                                         *)
(* Two nodes: the gateway the clients are connected to, which leads the    *)
(* ranges in led, and a peer that leads the others.  A forwarded statement *)
(* is dispatched by the peer's own RangeRouter for the pooled connection,  *)
(* router[Pool]: the pool belongs to the node, so all clients share it.    *)
(*                                                                         *)
(* A statement is one step: a router serves one statement at a time, and   *)
(* what it shares with the others (the pool, the clog) is serialised by a  *)
(* mutex or by Raft.  Rows and versions are in TxnEngine; here a write is  *)
(* a number, effective once its local xid is Committed or is Prepared for  *)
(* a global xid that is.  Writes touch distinct rows, so                   *)
(* effective_global_xid returns its argument.                              *)
(***************************************************************************)
EXTENDS Naturals

CONSTANTS
  Client,
  Range,     \* range ids; 0 is the catalog and GTM range, and holds tables
  Scenario,  \* the sets of faults that may happen together
  MaxWrite,  \* bound: write statements
  MaxGid,    \* bound: global transactions
  Pool, None

(*   gate     the recovery gate of a range is closed                       *)
(*   begin    begin_global returns an error                                *)
(*   join     the proposal in join_global returns an error                 *)
(*   run      the statement fails in its session                           *)
(*   refused  commit_global returns an error, nothing decided              *)
(*   lost     commit_global decides and its answer is lost                 *)
(*   release  release_remote does not reach the participant                *)
(*   move     the peer becomes leader of a range of the gateway            *)
FaultKind == {"gate", "begin", "join", "run", "refused", "lost", "release", "move"}

Write == 1..MaxWrite
Gid   == 1..(MaxGid + 1)  \* a step that would take the last one is cut
Conn  == Client \cup {Pool}

ASSUME RangeRouterAssumption ==
  /\ Range \subseteq Nat /\ 0 \in Range
  /\ Scenario \subseteq SUBSET FaultKind
  /\ MaxWrite \in Nat /\ MaxGid \in Nat
  /\ Pool \notin Client /\ None \notin Gid

VARIABLES
  router,     \* each connection's pin and sessions
  held,       \* TxnService of the peer: the session of (g, range) or None
  committed,  \* writes whose local xid has a Committed clog record
  marker,     \* the g in the Prepared record of a write's xid, or None
  decision,   \* range 0's clog for the global xids
  nextg,      \* Gtm: the next global xid
  led,        \* the ranges the gateway leads
  faults,     \* what may go wrong
  at, owner,  \* the range and the client of each write; None: not submitted
  told,       \* what the client was last told about each write
  broken      \* clients in a block of which a statement failed

vars == <<router, held, committed, marker, decision, nextg, led, faults, at, owner,
          told, broken>>

PinNone == [kind |-> "None"]
PinOpen == [kind |-> "Open"]
PinRange(r) == [kind |-> "Range", range |-> r]
PinGlobal(rs, g) == [kind |-> "Global", ranges |-> rs, g |-> g]

NewSession == [state |-> "Idle", g |-> None, writes |-> {}]
NewRouter  == [pin |-> PinNone, sess |-> [r \in Range |-> NewSession]]

Init ==
  /\ router = [c \in Conn |-> NewRouter]
  /\ held = [g \in Gid |-> [r \in Range |-> None]]
  /\ committed = {} /\ broken = {}
  /\ marker = [w \in Write |-> None]
  /\ decision = [g \in Gid |-> "InProgress"]
  /\ nextg = 1
  /\ led \in SUBSET Range /\ faults \in Scenario
  /\ at = [w \in Write |-> None] /\ owner = [w \in Write |-> None]
  /\ told = [w \in Write |-> "none"]

(* The operations below take and return the part of the state a statement  *)
(* can change, with the reply to it.                                       *)
World == [router |-> router, held |-> held, committed |-> committed,
          marker |-> marker, decision |-> decision, nextg |-> nextg, reply |-> "none"]

Reply(W, reply) == [W EXCEPT !.reply = reply]

(* NodeLeadership::leads, on the node of connection c.                     *)
Leads(c, r) == (r \in led) = (c # Pool)

-----------------------------------------------------------------------------
(* SqlSession.  An operation on session s gives <<world, session>>.        *)

(* Mutant of EnsureBegan: the participant's session is left as it is.      *)
EnsureBeganNot(s) == s

EnsureBegan(s) == IF s.state = "Idle" THEN [s EXCEPT !.state = "InTransaction"] ELSE s

(* commit_cmd and rollback_cmd leave global_xid as it is.                  *)
Finish(W, s, op) ==
  LET commits == op = "commit" /\ s.state # "Failed"
      done    == IF commits
                   THEN [W EXCEPT !.committed = @ \cup s.writes]
                   ELSE [W EXCEPT !.marker = [w \in Write |-> IF w \in s.writes THEN None ELSE @[w]]]
  IN  <<Reply(done, IF commits THEN "COMMIT" ELSE "ROLLBACK"),
        [s EXCEPT !.state = "Idle", !.writes = {}]>>

(* The statements run_one admits unless the block has failed; stmt.w is    *)
(* the number of a write.                                                  *)
Execute(W, s, stmt, f) ==
  CASE stmt.op = "begin" -> <<Reply(W, "BEGIN"), EnsureBegan(s)>>
    [] stmt.op # "begin" /\ f = "run" ->
         <<Reply(W, "error"), IF s.state = "Idle" THEN s ELSE [s EXCEPT !.state = "Failed"]>>
    [] stmt.op \in {"read", "other"} /\ f # "run" -> <<Reply(W, "ok"), s>>
    [] stmt.op = "write" /\ f # "run" ->
         IF s.state = "Idle"
           THEN <<[W EXCEPT !.committed = @ \cup {stmt.w}, !.reply = "ok"], s>>
           ELSE <<[W EXCEPT !.marker[stmt.w] = s.g, !.reply = "ok"],
                  [s EXCEPT !.writes = @ \cup {stmt.w}]>>

RunOne(W, s, stmt, f) ==
  IF stmt.op \in {"commit", "rollback"} THEN Finish(W, s, stmt.op)
  ELSE IF s.state = "Failed" THEN <<Reply(W, "error"), s>>
  ELSE Execute(W, s, stmt, f)

(* Mutant of JoinGlobal: writes made before the escalation get no marker.  *)
JoinGlobalUnmarked(W, s, g, f) == <<Reply(W, "ok"), [s EXCEPT !.g = g]>>

(* global_xid is set first; the marker is proposed only if there is a xid. *)
JoinGlobal(W, s, g, f) ==
  << IF s.writes = {} THEN Reply(W, "ok")
     ELSE IF f = "join" THEN Reply(W, "error")
     ELSE [W EXCEPT !.marker = [w \in Write |-> IF w \in s.writes THEN g ELSE @[w]],
                    !.reply = "ok"],
     [s EXCEPT !.g = g] >>

(* ensure_began, join_global and run, as stage_on and TxnService::stage.   *)
RunInGlobal(W, s, g, stmt, f) ==
  LET joined == JoinGlobal(W, EnsureBegan(s), g, f)
  IN  IF joined[1].reply = "error" THEN joined ELSE RunOne(joined[1], joined[2], stmt, f)

-----------------------------------------------------------------------------
(* TxnService of the peer.                                                 *)

(* staged_local_for: a durable marker for g on this range.                 *)
StagedLocalFor(W, g, r) == \E w \in Write : W.marker[w] = g /\ at[w] = r

(* A retry that finds the marker but no session is taken as done.          *)
Stage(W, g, r, stmt, f) ==
  IF f = "gate" THEN Reply(W, "error")
  ELSE IF W.held[g][r] = None /\ StagedLocalFor(W, g, r) THEN Reply(W, "ok")
  ELSE LET s   == IF W.held[g][r] = None THEN NewSession ELSE W.held[g][r]
           ran == RunInGlobal(W, s, g, stmt, f)
       IN  [ran[1] EXCEPT !.held[g][r] = ran[2]]

(* CommitGlobal: the clog of range 0 keeps the first decision.             *)
Decide(W, g, commit) ==
  [W EXCEPT !.decision[g] = IF @ # "InProgress" THEN @
                            ELSE IF commit THEN "Committed" ELSE "Aborted"]

-----------------------------------------------------------------------------
(* RangeRouter.                                                            *)

(* session_mut(r).run(stmt)                                                *)
RunLocal(W, c, r, stmt, f) ==
  LET ran == RunOne(W, W.router[c].sess[r], stmt, f)
  IN  [ran[1] EXCEPT !.router[c].sess[r] = ran[2]]

SetPin(W, c, pin) == [W EXCEPT !.router[c].pin = pin]

StageOn(W, c, r, g, stmt, f) ==
  IF ~Leads(c, r) THEN Stage(W, g, r, stmt, f)
  ELSE IF f = "gate" THEN Reply(W, "error")
  ELSE LET ran == RunInGlobal(W, W.router[c].sess[r], g, stmt, f)
       IN  [ran[1] EXCEPT !.router[c].sess[r] = ran[2]]

BeginGlobal(W) == [W |-> [W EXCEPT !.nextg = @ + 1], g |-> W.nextg]

(* Mutant of Escalate: the new range is not entered in the pin.            *)
EscalatePinnedOnly(W, c, pinned, r, stmt, f) ==
  LET b == BeginGlobal(W)
      p == CHOOSE p \in pinned : TRUE
      j == JoinGlobal(b.W, W.router[c].sess[p], b.g, f)
      joined == IF pinned = {} THEN b.W ELSE [j[1] EXCEPT !.router[c].sess[p] = j[2]]
  IN  StageOn(SetPin(joined, c, PinGlobal(pinned, b.g)), c, r, b.g, stmt, f)

(* The first statement on a second range, or on a range of the peer:       *)
(* begin_global, join the range pinned so far, pin, stage.                 *)
Escalate(W, c, pinned, r, stmt, f) ==
  IF f = "begin" THEN Reply(W, "error")
  ELSE LET b == BeginGlobal(W)
           p == CHOOSE p \in pinned : TRUE
           j == IF pinned = {} THEN <<Reply(b.W, "ok"), NewSession>>
                ELSE JoinGlobal(b.W, W.router[c].sess[p], b.g, IF Leads(c, p) THEN f ELSE "join")
           joined == IF pinned = {} THEN j[1] ELSE [j[1] EXCEPT !.router[c].sess[p] = j[2]]
       IN  IF joined.reply = "error" THEN joined
           ELSE StageOn(SetPin(joined, c, PinGlobal(pinned \cup {r}, b.g)), c, r, b.g, stmt, f)

(* Mutant of FinishGlobal: the tag repeats the request.                    *)
FinishGlobalAsAsked(W, c, pin, op, f) ==
  LET d == Decide(W, pin.g, op = "commit")
  IN  Reply([d EXCEPT !.router[c].sess =
               [r \in Range |-> IF r \in pin.ranges /\ Leads(c, r) THEN NewSession ELSE @[r]],
                     !.held[pin.g] = [r \in Range |-> None]],
            IF op = "commit" THEN "COMMIT" ELSE "ROLLBACK")

(* Mutant of FinishGlobal: a local participant is closed by its own        *)
(* COMMIT instead of commit_release.                                       *)
FinishGlobalLocally(W, c, pin, op, f) ==
  LET own == UNION {W.router[c].sess[r].writes : r \in {q \in pin.ranges : Leads(c, q)}}
      d   == Decide(IF op = "commit" THEN [W EXCEPT !.committed = @ \cup own] ELSE W,
                    pin.g, op = "commit")
  IN  Reply([d EXCEPT !.router[c].sess =
               [r \in Range |-> IF r \in pin.ranges /\ Leads(c, r) THEN NewSession ELSE @[r]],
                     !.held[pin.g] = [r \in Range |-> None]],
            IF d.decision[pin.g] = "Committed" THEN "COMMIT" ELSE "ROLLBACK")

(* The pin is gone already.  After the decision each participant is        *)
(* released, a remote one at best effort; the tag is the effective outcome.*)
FinishGlobal(W, c, pin, op, f) ==
  LET d == IF f = "refused" THEN W ELSE Decide(W, pin.g, op = "commit")
      released ==
        [d EXCEPT
           !.router[c].sess =
              [r \in Range |-> IF r \in pin.ranges /\ Leads(c, r) THEN NewSession ELSE @[r]],
           !.held[pin.g] =
              [r \in Range |-> IF r \in pin.ranges /\ ~Leads(c, r) /\ f # "release"
                                 THEN None ELSE @[r]]]
  IN  IF f \in {"refused", "lost"} THEN Reply(d, "error")
      ELSE Reply(released, IF d.decision[pin.g] = "Committed" THEN "COMMIT" ELSE "ROLLBACK")

(* finish_txn and dispatch end with an answer, or with run_on of a range.  *)
Answered(W)  == [W |-> W, on |-> None]
RunOn(W, r)  == [W |-> W, on |-> r]

FinishTxn(W, c, stmt, f) ==
  LET pin == W.router[c].pin
      W0  == SetPin(W, c, PinNone)
  IN  CASE pin.kind = "Global" -> Answered(FinishGlobal(W0, c, pin, stmt.op, f))
        [] pin.kind = "Range"  -> RunOn(W0, pin.range)
        [] pin.kind \in {"Open", "None"} -> RunOn(W0, 0)

(* A statement that carries a table (stmt.range), or none, under the pin.  *)
RunPinned(W, c, stmt, f) ==
  LET pin == W.router[c].pin
      r   == stmt.range
      W1  == SetPin(W, c, PinRange(r))
  IN  CASE pin.kind \in {"None", "Open", "Global"} /\ r = None -> RunOn(W, 0)
        [] pin.kind = "None" /\ r # None -> RunOn(W, r)
        [] pin.kind = "Open" /\ r # None ->
             IF Leads(c, r) THEN RunOn([W1 EXCEPT !.router[c].sess[r] = EnsureBegan(@)], r)
                            ELSE Answered(Escalate(W, c, {}, r, stmt, f))
        [] pin.kind = "Range" ->
             IF r \in {None, pin.range} THEN RunOn(W, pin.range)
                                        ELSE Answered(Escalate(W, c, {pin.range}, r, stmt, f))
        [] pin.kind = "Global" /\ r # None ->
             Answered(StageOn(SetPin(W, c, PinGlobal(pin.ranges \cup {r}, pin.g)),
                              c, r, pin.g, stmt, f))

(* "bad" is a statement pinning_range rejects: an unknown table, or tables *)
(* of several ranges.                                                      *)
Dispatch(W, c, stmt, f) ==
  CASE stmt.op = "bad" -> Answered(Reply(W, "error"))
    [] stmt.op = "begin" ->
         RunOn(IF W.router[c].pin = PinNone THEN SetPin(W, c, PinOpen) ELSE W, 0)
    [] stmt.op \in {"commit", "rollback"} -> FinishTxn(W, c, stmt, f)
    [] stmt.op \in {"write", "read", "other"} ->
         IF stmt.op = "write" /\ f = "gate" /\ Leads(c, stmt.range)
           THEN Answered(Reply(W, "error")) ELSE RunPinned(W, c, stmt, f)

(* The peer forwards only statements for range 0, back to the gateway,     *)
(* when its own pin is None; the connection they arrive on never sees a    *)
(* BEGIN and runs each of them by itself.                                  *)
ForwardBack(W, stmt, f) == RunOne(W, NewSession, stmt, f)[1]

(* run_on: d is what dispatch came to.                                     *)
PoolRun(d, stmt, f) ==
  IF d.on = None THEN d.W
  ELSE IF Leads(Pool, d.on) THEN RunLocal(d.W, Pool, d.on, stmt, f)
  ELSE ForwardBack(d.W, stmt, f)

PoolDispatch(W, stmt, f) == PoolRun(Dispatch(W, Pool, stmt, f), stmt, f)

ClientRun(d, c, stmt, f) ==
  IF d.on = None THEN d.W
  ELSE IF Leads(c, d.on) THEN RunLocal(d.W, c, d.on, stmt, f)
  ELSE PoolDispatch(d.W, stmt, f)

ClientDispatch(W, c, stmt, f) == ClientRun(Dispatch(W, c, stmt, f), c, stmt, f)

-----------------------------------------------------------------------------
Submitted == {w \in Write : at[w] # None}
Open(c)   == {w \in Submitted : owner[w] = c /\ told[w] = "open"}
InBlock(c) == router[c].pin # PinNone

(* What the client concludes from the reply.                               *)
Told(c, stmt, reply) ==
  CASE stmt.op \in {"commit", "rollback"} ->
         [w \in Write |-> IF w \notin Open(c) THEN told[w]
                          ELSE CASE reply = "COMMIT" /\ c \notin broken -> "committed"
                                 [] reply = "COMMIT" /\ c \in broken -> "committed after error"
                                 [] reply = "ROLLBACK" -> "rolled back"
                                 [] reply = "error"    -> "unknown"]
    [] stmt.op = "write" /\ reply = "ok" ->
         [told EXCEPT ![stmt.w] = IF InBlock(c) THEN "open" ELSE "autocommitted"]
    [] OTHER -> told

(* The statement has made W of the world.  A write is entered in at and    *)
(* owner when it succeeds.                                                 *)
Become(W, c, stmt) ==
  LET wrote == stmt.op = "write" /\ W.reply = "ok"
  IN  /\ W.nextg <= MaxGid + 1
      /\ router' = W.router /\ held' = W.held
      /\ committed' = W.committed /\ marker' = W.marker
      /\ decision' = W.decision /\ nextg' = W.nextg
      /\ told' = Told(c, stmt, W.reply)
      /\ broken' = IF stmt.op \in {"commit", "rollback"} THEN broken \ {c}
                   ELSE IF W.reply = "error" /\ InBlock(c) THEN broken \cup {c}
                   ELSE broken
      /\ at' = IF wrote THEN [at EXCEPT ![stmt.w] = stmt.range] ELSE at
      /\ owner' = IF wrote THEN [owner EXCEPT ![stmt.w] = c] ELSE owner
      /\ UNCHANGED <<led, faults>>

Run(c, stmt, f) == Become(ClientDispatch(World, c, stmt, f), c, stmt)

May(set) == {"none"} \cup (set \cap faults)

(* BEGIN; a statement without a table; one that pinning_range rejects.     *)
Control(c) ==
  \E op \in {"begin", "bad", "other"}, f \in May({"run"}) :
    Run(c, [op |-> op, range |-> None], f)

EndBlock(c) ==
  \E op \in {"commit", "rollback"}, f \in May({"refused", "lost", "release"}) :
    Run(c, [op |-> op, range |-> None], f)

Read(c, r) ==
  \E f \in May({"gate", "begin", "join", "run"}) : Run(c, [op |-> "read", range |-> r], f)

WriteTo(c, r) ==
  \E w \in Write \ Submitted, f \in May({"gate", "begin", "join", "run"}) :
    /\ w - 1 \in Submitted \cup {0}
    /\ Run(c, [op |-> "write", range |-> r, w |-> w], f)

(* The router is dropped with its sessions: locks and xids go, no clog     *)
(* record is written.  The client never sent COMMIT.                       *)
Disconnect(c) ==
  /\ router' = [router EXCEPT ![c] = NewRouter]
  /\ told' = [w \in Write |-> IF w \in Open(c) THEN "rolled back" ELSE told[w]]
  /\ broken' = broken \ {c}
  /\ UNCHANGED <<held, committed, marker, decision, nextg, led, faults, at, owner>>

(* sweep_stale: the participant decides for itself by the abort race.      *)
SweepStale(g, r) ==
  /\ held[g][r] # None
  /\ decision' = Decide(World, g, FALSE).decision
  /\ held' = [held EXCEPT ![g][r] = None]
  /\ UNCHANGED <<router, committed, marker, nextg, led, faults, at, owner, told, broken>>

(* The peer wins an election of a data range.                              *)
Move(r) ==
  /\ "move" \in faults /\ r \in led \ {0}
  /\ led' = led \ {r}
  /\ UNCHANGED <<router, held, committed, marker, decision, nextg, faults, at, owner, told, broken>>

Next ==
  \/ \E c \in Client : Control(c) \/ EndBlock(c) \/ Disconnect(c)
  \/ \E c \in Client, r \in Range : Read(c, r) \/ WriteTo(c, r)
  \/ \E g \in Gid, r \in Range : SweepStale(g, r)
  \/ \E r \in Range : Move(r)

Spec == Init /\ [][Next]_vars

-----------------------------------------------------------------------------
PinType == {PinNone, PinOpen} \cup {PinRange(r) : r \in Range}
             \cup {PinGlobal(rs, g) : rs \in SUBSET Range \ {{}}, g \in Gid}

Session == [state : {"Idle", "InTransaction", "Failed"}, g : Gid \cup {None},
            writes : SUBSET Write]

(* The variables have their types.                                         *)
TypeOK ==
  /\ \A c \in Conn : router[c].pin \in PinType /\ router[c].sess \in [Range -> Session]
  /\ held \in [Gid -> [Range -> Session \cup {None}]]
  /\ committed \in SUBSET Write /\ broken \in SUBSET Client
  /\ marker \in [Write -> Gid \cup {None}]
  /\ decision \in [Gid -> {"InProgress", "Committed", "Aborted"}]
  /\ nextg \in 1..(MaxGid + 1) /\ led \in SUBSET Range
  /\ at \in [Write -> Range \cup {None}] /\ owner \in [Write -> Client \cup {None}]
  /\ told \in [Write -> {"none", "open", "autocommitted", "committed",
                         "committed after error", "rolled back", "unknown"}]

(* A reader sees the write.                                                *)
Effective(w) ==
  w \in committed \/ (marker[w] # None /\ decision[marker[w]] = "Committed")

(* None of these faults happens.                                           *)
Without(set) == faults \cap set = {}

(* A write inside BEGIN..COMMIT is held: no reader sees it before COMMIT,  *)
(* wherever the statement was sent and whoever else ended a transaction    *)
(* meanwhile (dispatch holds the first DML with ensure_began_on; a         *)
(* participant is held under its marker).  It takes that the gateway keeps *)
(* its ranges and learns the decision.                                     *)
HeldUntilCommit ==
  Without({"move", "refused", "lost"}) =>
    \A w \in Write : told[w] = "open" => ~Effective(w)

(* The tag finish_txn answers is the outcome: after COMMIT all writes of   *)
(* the block are seen, after ROLLBACK or a disconnect none is, also when a *)
(* participant won the abort race, a release was lost or a statement of    *)
(* the block failed.                                                       *)
TagIsOutcome ==
  Without({"move", "refused", "lost"}) =>
    \A w \in Write : /\ told[w] \in {"committed", "committed after error"} => Effective(w)
                     /\ told[w] = "rolled back" => ~Effective(w)

(* Under Pin::Global one decision governs the block: every write the block *)
(* made, the ones from before the escalation included, is on a range of    *)
(* the pin and carries the marker of its g, unless g is aborted already.   *)
OneDecision ==
  Without({"move", "refused", "lost"}) =>
    \A c \in Client :
      router[c].pin.kind = "Global" /\ decision[router[c].pin.g] # "Aborted" =>
      \A w \in Open(c) : marker[w] = router[c].pin.g /\ at[w] \in router[c].pin.ranges

(* No participant decides by itself: a write that carries a marker has no  *)
(* Committed record of its own unless its g is committed, also when the    *)
(* gateway loses the range in the middle of the block.                     *)
NoLocalDecision ==
  \A w \in committed : marker[w] # None => decision[marker[w]] = "Committed"

(* What follows is what comments say and the router does not keep; the     *)
(* README tells when.                                                      *)

(* A statement outside a block that succeeded is a transaction of its own  *)
(* and has committed (Pin::None: "No open transaction (autocommit)").      *)
AutocommitIsDurable == \A w \in Write : told[w] = "autocommitted" => Effective(w)

(* An error inside a block aborts it, and COMMIT answers ROLLBACK ("Any    *)
(* error inside a transaction block aborts it").                           *)
FailedBlockRollsBack == \A w \in Write : told[w] # "committed after error"

(* An open transaction holds the writes of one client (the pooled          *)
(* connection is "kept inside the sticky client connection").              *)
OneClientPerTransaction ==
  \A c \in Conn, r \in Range : \A v, w \in router[c].sess[r].writes : owner[v] = owner[w]

(* A transaction on one range is no participant: global_xid is "`None` for *)
(* ordinary single-range txns".                                            *)
OrdinaryHasNoGlobal ==
  \A c \in Client : router[c].pin.kind = "Range" =>
                        router[c].sess[router[c].pin.range].g = None
=============================================================================
