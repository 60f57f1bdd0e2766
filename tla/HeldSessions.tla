---------------------------- MODULE HeldSessions ----------------------------
(***************************************************************************)
(* TxnService on the leader of a data range (twopc.rs): the map of held    *)
(* sessions, the mutex of each session, the Stage and Release requests     *)
(* that run at the same time, and the silence sweeper, one task that       *)
(* resolves the stale entries one after another.  Every transaction stages *)
(* one statement, on the same row, so that each has to wait for the        *)
(* others' lock.                                                           *)
(*                                                                         *)
(* The map's own lock is held for one step at a time.  A session whose     *)
(* last handle goes is dropped, and its row lock with it.                  *)
(***************************************************************************)
EXTENDS Naturals

CONSTANTS
  Gid,     \* the global transactions
  Lossy,   \* those whose answers may be lost: TwoPcClient::call sends again
  None

ASSUME HeldSessionsAssumption == Lossy \subseteq Gid /\ None \notin Gid

VARIABLES
  entry,     \* TxnService::held: the session of g, or None
  fresh,     \* the number of sessions made for g
  mutex,     \* the task that has a session's mutex
  row,       \* the session that has the row's lock
  marker,    \* the transactions with a durable Prepared marker
  ran,       \* how often the statement of g was executed
  decision,
  stage,     \* the two Stage requests of g
  release,   \* the Release request of g
  sweeper,
  client     \* what the coordinator of g knows

vars == <<entry, fresh, mutex, row, marker, ran, decision, stage, release, sweeper, client>>

Attempt == 1..2
Session == Gid \X (1..2)

Idle == [pc |-> "idle", session |-> None]

Init ==
  /\ entry = [g \in Gid |-> None] /\ fresh = [g \in Gid |-> 0]
  /\ mutex = [s \in Session |-> None] /\ row = None
  /\ marker = {} /\ ran = [g \in Gid |-> 0]
  /\ decision = [g \in Gid |-> "InProgress"]
  /\ stage = [g \in Gid |-> [a \in Attempt |-> Idle]]
  /\ release = [g \in Gid |-> Idle]
  /\ sweeper = [pc |-> "idle", stale |-> {}, session |-> None]
  /\ client = [g \in Gid |-> "idle"]

(* The mutex of session s is free for its next task.                       *)
Unlocked(s) == mutex[s] = None

(* finish_current_txn of session s.                                        *)
FreeRow(s) == row' = IF row = s THEN None ELSE row

(* The handles on session s other than the one of Stage (g, a).            *)
OtherHandle(s, g, a) ==
  \/ \E h \in Gid : entry[h] = s \/ release[h].session = s
  \/ sweeper.session = s
  \/ \E h \in Gid, b \in Attempt : <<h, b>> # <<g, a>> /\ stage[h][b].session = s

Decide(g, outcome) ==
  decision' = [decision EXCEPT ![g] = IF @ = "InProgress" THEN outcome ELSE @]

-----------------------------------------------------------------------------
(* Stage(g, sql).                                                          *)

StageSend(g) ==
  /\ client[g] = "idle"
  /\ client' = [client EXCEPT ![g] = "waiting"]
  /\ stage' = [stage EXCEPT ![g][1].pc = "check"]
  /\ UNCHANGED <<entry, fresh, mutex, row, marker, ran, decision, release, sweeper>>

(* The exchange fails, whatever became of the request: sent once more.     *)
StageResend(g) ==
  /\ g \in Lossy /\ client[g] = "waiting"
  /\ stage[g][1].pc # "idle" /\ stage[g][2].pc = "idle"
  /\ stage' = [stage EXCEPT ![g][2].pc = "check"]
  /\ UNCHANGED <<entry, fresh, mutex, row, marker, ran, decision, release, sweeper, client>>

(* The answer of a request, if the coordinator gets it.                    *)
Answer(g, a) ==
  \/ /\ client[g] = "waiting" /\ (a = 2 \/ stage[g][2].pc = "idle")
     /\ client' = [client EXCEPT ![g] = "staged"]
  \/ /\ g \in Lossy \/ client[g] # "waiting"
     /\ UNCHANGED client

(* has_held, then staged_local_for if there is no entry.                   *)
StageCheck(g, a) ==
  /\ stage[g][a].pc = "check"
  /\ IF entry[g] = None /\ g \in marker
       THEN /\ stage' = [stage EXCEPT ![g][a] = [pc |-> "done", session |-> None]]
            /\ Answer(g, a)
       ELSE /\ stage' = [stage EXCEPT ![g][a].pc = "handle"]
            /\ UNCHANGED client
  /\ UNCHANGED <<entry, fresh, mutex, row, marker, ran, decision, release, sweeper>>

(* session_handle: get or create.                                          *)
SessionHandle(g, a) ==
  LET s == IF entry[g] = None THEN <<g, fresh[g] + 1>> ELSE entry[g]
  IN  /\ stage[g][a].pc = "handle"
      /\ entry' = [entry EXCEPT ![g] = s]
      /\ fresh' = [fresh EXCEPT ![g] = IF entry[g] = None THEN @ + 1 ELSE @]
      /\ stage' = [stage EXCEPT ![g][a] = [pc |-> "mutex", session |-> s]]
      /\ UNCHANGED <<mutex, row, marker, ran, decision, release, sweeper, client>>

(* Mutant of StageLock: the session is used without its mutex being free.  *)
StageLockBarging(g, a) ==
  /\ stage[g][a].pc = "mutex"
  /\ mutex' = [mutex EXCEPT ![stage[g][a].session] = <<g, a>>]
  /\ stage' = [stage EXCEPT ![g][a].pc = "acquire"]
  /\ UNCHANGED <<entry, fresh, row, marker, ran, decision, release, sweeper, client>>

(* session.lock().await; ensure_began; join_global.                        *)
StageLock(g, a) ==
  /\ stage[g][a].pc = "mutex" /\ Unlocked(stage[g][a].session)
  /\ mutex' = [mutex EXCEPT ![stage[g][a].session] = <<g, a>>]
  /\ stage' = [stage EXCEPT ![g][a].pc = "acquire"]
  /\ UNCHANGED <<entry, fresh, row, marker, ran, decision, release, sweeper, client>>

(* execute_write waits for the row lock with the mutex in its hand.        *)
StageAcquire(g, a) ==
  /\ stage[g][a].pc = "acquire" /\ row \in {None, stage[g][a].session}
  /\ row' = stage[g][a].session
  /\ stage' = [stage EXCEPT ![g][a].pc = "commit"]
  /\ UNCHANGED <<entry, fresh, mutex, marker, ran, decision, release, sweeper, client>>

(* The batch with the marker is durable; the guard and the handle go.      *)
StageCommit(g, a) ==
  LET s == stage[g][a].session
  IN  /\ stage[g][a].pc = "commit"
      /\ marker' = marker \cup {g}
      /\ ran' = [ran EXCEPT ![g] = @ + 1]
      /\ mutex' = [mutex EXCEPT ![s] = None]
      /\ IF OtherHandle(s, g, a) THEN UNCHANGED row ELSE FreeRow(s)
      /\ stage' = [stage EXCEPT ![g][a] = [pc |-> "done", session |-> None]]
      /\ Answer(g, a)
      /\ UNCHANGED <<entry, fresh, decision, release, sweeper>>

-----------------------------------------------------------------------------
(* The coordinator's decision, and Release(g).                             *)

(* Commit what was staged, or roll back: of free will, or because both     *)
(* attempts failed, whatever their requests are doing.                     *)
CommitGlobal(g) ==
  \E outcome \in {"Committed", "Aborted"} :
    /\ \/ client[g] = "staged"
       \/ client[g] = "waiting" /\ stage[g][2].pc # "idle" /\ outcome = "Aborted"
    /\ Decide(g, outcome)
    /\ client' = [client EXCEPT ![g] = "decided"]
    /\ UNCHANGED <<entry, fresh, mutex, row, marker, ran, stage, release, sweeper>>

(* The entry is taken out of the map at once.                              *)
Release(g) ==
  /\ client[g] = "decided" /\ release[g].pc = "idle"
  /\ release' = [release EXCEPT ![g] = IF entry[g] = None
                                        THEN [pc |-> "done", session |-> None]
                                        ELSE [pc |-> "mutex", session |-> entry[g]]]
  /\ entry' = [entry EXCEPT ![g] = None]
  /\ UNCHANGED <<fresh, mutex, row, marker, ran, decision, stage, sweeper, client>>

(* commit_release or abort_release, under the session's mutex.             *)
ReleaseSession(g) ==
  /\ release[g].pc = "mutex" /\ Unlocked(release[g].session)
  /\ FreeRow(release[g].session)
  /\ release' = [release EXCEPT ![g] = [pc |-> "done", session |-> None]]
  /\ UNCHANGED <<entry, fresh, mutex, marker, ran, decision, stage, sweeper, client>>

-----------------------------------------------------------------------------
(* participant_silence_sweeper.                                            *)

(* A tick: the entries held for the silence timeout, any number of them.   *)
SweepStale ==
  /\ sweeper.pc = "idle" /\ \E g \in Gid : entry[g] # None
  /\ \E stale \in (SUBSET {g \in Gid : entry[g] # None}) \ {{}} :
       sweeper' = [sweeper EXCEPT !.pc = "next", !.stale = stale]
  /\ UNCHANGED <<entry, fresh, mutex, row, marker, ran, decision, stage, release, client>>

(* Mutant of ResolveInDoubt: the entry goes before range 0 is asked.       *)
ResolveInDoubtLate(g) ==
  /\ sweeper.pc = "next" /\ g \in sweeper.stale
  /\ UNCHANGED decision
  /\ sweeper' = [pc |-> IF entry[g] = None THEN "next" ELSE "mutex",
                 stale |-> sweeper.stale \ {g}, session |-> entry[g]]
  /\ entry' = [entry EXCEPT ![g] = None]
  /\ UNCHANGED <<fresh, mutex, row, marker, ran, stage, release, client>>

(* resolve_in_doubt: the abort race, then the entry is taken out.  The     *)
(* map's order is arbitrary.                                               *)
ResolveInDoubt(g) ==
  /\ sweeper.pc = "next" /\ g \in sweeper.stale
  /\ Decide(g, "Aborted")
  /\ sweeper' = [pc |-> IF entry[g] = None THEN "next" ELSE "mutex",
                 stale |-> sweeper.stale \ {g}, session |-> entry[g]]
  /\ entry' = [entry EXCEPT ![g] = None]
  /\ UNCHANGED <<fresh, mutex, row, marker, ran, stage, release, client>>

(* Range 0 does not answer: left for the next tick.                        *)
ResolveInDoubtLater(g) ==
  /\ sweeper.pc = "next" /\ g \in sweeper.stale
  /\ sweeper' = [sweeper EXCEPT !.stale = @ \ {g}]
  /\ UNCHANGED <<entry, fresh, mutex, row, marker, ran, decision, stage, release, client>>

(* Mutant of SweepRelease: the resolved session keeps its row lock.        *)
SweepReleaseNot ==
  /\ sweeper.pc = "mutex" /\ Unlocked(sweeper.session)
  /\ UNCHANGED row
  /\ sweeper' = [sweeper EXCEPT !.pc = "next", !.session = None]
  /\ UNCHANGED <<entry, fresh, mutex, marker, ran, decision, stage, release, client>>

SweepRelease ==
  /\ sweeper.pc = "mutex" /\ Unlocked(sweeper.session)
  /\ FreeRow(sweeper.session)
  /\ sweeper' = [sweeper EXCEPT !.pc = "next", !.session = None]
  /\ UNCHANGED <<entry, fresh, mutex, marker, ran, decision, stage, release, client>>

SweepDone ==
  /\ sweeper.pc = "next" /\ sweeper.stale = {}
  /\ sweeper' = [sweeper EXCEPT !.pc = "idle"]
  /\ UNCHANGED <<entry, fresh, mutex, row, marker, ran, decision, stage, release, client>>

-----------------------------------------------------------------------------
StageStep(g, a) ==
  \/ StageCheck(g, a) \/ SessionHandle(g, a) \/ StageLock(g, a)
  \/ StageAcquire(g, a) \/ StageCommit(g, a)

Next ==
  \/ \E g \in Gid : \/ StageSend(g) \/ StageResend(g)
                    \/ \E a \in Attempt : StageStep(g, a)
                    \/ CommitGlobal(g) \/ Release(g) \/ ReleaseSession(g)
                    \/ ResolveInDoubt(g) \/ ResolveInDoubtLater(g)
  \/ SweepStale \/ SweepRelease \/ SweepDone

Spec == Init /\ [][Next]_vars

(* Every task goes on.  Each entry is stale at some tick, and range 0      *)
(* answers the abort race in the end.                                      *)
TasksRun ==
  /\ \A g \in Gid :
       /\ \A a \in Attempt : WF_vars(StageStep(g, a))
       /\ WF_vars(ReleaseSession(g))
       /\ SF_vars(SweepStale /\ g \in sweeper'.stale)
       /\ SF_vars(ResolveInDoubt(g))
  /\ WF_vars(SweepRelease) /\ WF_vars(SweepDone)

CoordinatorsRun == \A g \in Gid : WF_vars(CommitGlobal(g)) /\ WF_vars(Release(g))

(* The coordinators may fall silent.                                       *)
SilentSpec == Spec /\ TasksRun

FairSpec == Spec /\ TasksRun /\ CoordinatorsRun

-----------------------------------------------------------------------------
TypeOK ==
  /\ entry \in [Gid -> Session \cup {None}] /\ fresh \in [Gid -> 0..2]
  /\ mutex \in [Session -> (Gid \X Attempt) \cup {None}] /\ row \in Session \cup {None}
  /\ marker \subseteq Gid /\ ran \in [Gid -> 0..2]
  /\ decision \in [Gid -> {"InProgress", "Committed", "Aborted"}]
  /\ \A g \in Gid, a \in Attempt : stage[g][a].pc \in {"acquire", "commit"}
       => mutex[stage[g][a].session] = <<g, a>>

(* The load-bearing invariant of resolve_and_release_for_range: a          *)
(* participant frees its row only after its decision is durable.           *)
DecidedBeforeFree ==
  [][\A g \in Gid : row # None /\ row[1] = g /\ row' # row
       => decision'[g] # "InProgress"]_vars

(* Stage is idempotent per (g, range) (staged_local_for): the statement a  *)
(* transaction sent once is executed once.                                 *)
StageOnce == \A g \in Gid : ran[g] <= 1

(* Nobody keeps the row for ever: each session that has it gives it up, by *)
(* its release or by the sweep, whatever the other transactions' requests  *)
(* wait for.  (A Stage sent twice can make two sessions that wait for each *)
(* other with the sweeper behind them; the transactions in Lossy are left  *)
(* out.)                                                                   *)
RowFreed ==
  \A g \in Gid \ Lossy, n \in 1..2 : row = <<g, n>> ~> row # <<g, n>>
=============================================================================
