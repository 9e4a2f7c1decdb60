------------------------- MODULE ExecutionScheduler -------------------------
(***************************************************************************)
(* The persistent execution scheduler (apiAnalysis/tool/                   *)
(* execution_scheduler.py).  MongoDB holds one document per run and one    *)
(* checkpoint per snapshot of a run; every MongoDB operation is one atomic *)
(* step here, and everything a process keeps between two of them is its    *)
(* local state.  Three kinds of process share the database:                *)
(*   - execution workers, each with a main loop, a heartbeat thread and a  *)
(*     pool of threads that execute checkpoints;                           *)
(*   - agents: request handlers of the web process and the maintenance     *)
(*     scheduler, which enqueue, cancel, resume and recover runs.          *)
(* Redis only wakes workers up earlier, so it has no state here: a worker  *)
(* may poll at any time.                                                   *)
(***************************************************************************)
EXTENDS Integers, FiniteSets

CONSTANTS
    Runs,                \* idempotency keys: at most one run document per key
    Checkpoints,         \* the (run, snapshot) pairs
    RunOf,               \* the run each checkpoint belongs to
    Priority,            \* security_test_run.priority
    MaxDispatchAttempts, \* ExecutionPolicy.max_dispatch_attempts of each run
    Orphans,             \* runs an older worker left RUNNING without a lease
    Workers,             \* execution worker processes
    Agents,              \* web request handlers and the maintenance scheduler
    NoRun,               \* a process that handles no run
    MaxFaults            \* bound on crashes, late heartbeats, stops, outages

ASSUME ConstantsAssumption ==
    /\ RunOf \in [Checkpoints -> Runs]
    /\ Priority \in [Runs -> Nat]
    /\ MaxDispatchAttempts \in [Runs -> Nat \ {0}]
    /\ Orphans \subseteq Runs
    /\ NoRun \notin Runs
    /\ MaxFaults \in Nat

VARIABLES
    \* security_test_run
    runStatus,  \* status
    runToken,   \* lease_token; 0 when unset
    lease,      \* lease_expires_at: "none", "live" or "expired"
    dispatch,   \* dispatch_attempt
    ahead,      \* the runs queued earlier (queued_at), of those still queued
    \* security_execution_checkpoint
    ckStatus,   \* status
    ckToken,    \* lease_token; 0 when unset
    attempts,   \* attempt_count
    \* security_test_result, one per execution key
    results,
    \* a worker process
    pc,         \* where its main loop is
    job,        \* the run it claimed
    token,      \* the lease token of that claim
    todo,       \* checkpoint_ids[cursor:]
    thread,     \* where the pool thread of each checkpoint is
    cancelled, lost, authFailed, stopped, \* the workers whose event is set
    \* an agent
    task,
    \* observations: requests sent, faults so far, whether a worker ever
    \* outlived its lease, and whether a pool thread ever failed before it
    \* had claimed its checkpoint
    sends, faults, slipped, dropped

runVars    == <<runStatus, runToken, lease, dispatch, ahead>>
ckVars     == <<ckStatus, ckToken, attempts>>
eventVars  == <<cancelled, lost, authFailed, stopped>>
workerVars == <<pc, job, token, todo, thread, eventVars>>
ghostVars  == <<sends, faults, slipped, dropped>>
vars       == <<runVars, ckVars, results, workerVars, task, ghostVars>>

-----------------------------------------------------------------------------
(* Statuses.                                                               *)

FINAL_RUN_STATUSES == {"done", "failed", "cancelled"}
LeasedStatuses     == {"running", "cancel_requested"}
RunStatuses        == {"absent", "preparing", "queued", "paused"}
                        \cup LeasedStatuses \cup FINAL_RUN_STATUSES

OpenStatuses    == {"pending", "running"}
SettledStatuses == {"done", "error", "skipped", "cancelled"}
CkStatuses      == {"absent"} \cup OpenStatuses \cup SettledStatuses

Outcomes == {"ok", "err"}   \* whether the evidence carries an error_type

ThreadStates == {"none", "submitted", "claimed", "checked", "permitted",
                 "ok", "err", "recorded_ok", "recorded_err"}

\* "claimed": before execute_run; "listing".."running": in its loop; then one
\* state per last update of the run; "failing", "failed": exception handling.
PcStates == {"idle", "claimed", "listing", "running", "stopping", "pausing",
             "cancelling", "finishing", "failing", "failed"}

TaskKinds == {"idle", "prepare", "queue", "cancel", "cancelRun",
              "expired", "requeue", "orphan", "requeueOrphan"}
Task(k, r, t) == [kind |-> k, run |-> r, token |-> t]
Idle == Task("idle", NoRun, 0)

CheckpointsOf(r) == {c \in Checkpoints : RunOf[c] = r}
Queued == {r \in Runs : runStatus[r] = "queued"}
NoThreads == [c \in Checkpoints |-> "none"]
Quiet(w) == thread[w] = NoThreads   \* no future is outstanding

-----------------------------------------------------------------------------
(* Updates shared by several operations.                                   *)

\* Set the status of run r, and drop its lease.
SetRun(r, status) ==
    /\ runStatus' = [runStatus EXCEPT ![r] = status]
    /\ runToken'  = [runToken EXCEPT ![r] = 0]
    /\ lease'     = [lease EXCEPT ![r] = "none"]
    /\ ahead'     = IF status = "queued"
                    THEN [q \in Runs |-> IF q = r THEN Queued \ {r}
                                                  ELSE ahead[q] \ {r}]
                    ELSE ahead
    /\ UNCHANGED dispatch

\* A conditional update of run r: no effect when its filter does not match.
SetRunIf(filter, r, status) ==
    IF filter THEN SetRun(r, status) ELSE UNCHANGED runVars

HoldsLease(w) == runToken[job[w]] = token[w]

\* update() of every checkpoint in a set; all of them drop the lease token.
SetCheckpoints(S, status) ==
    /\ ckStatus' = [c \in Checkpoints |-> IF c \in S THEN status ELSE ckStatus[c]]
    /\ ckToken'  = [c \in Checkpoints |-> IF c \in S THEN 0 ELSE ckToken[c]]
    /\ UNCHANGED attempts

RunningUnder(r, t) ==
    {c \in CheckpointsOf(r) : ckStatus[c] = "running" /\ ckToken[c] = t}
OpenOf(r) == {c \in CheckpointsOf(r) : ckStatus[c] \in OpenStatuses}

Fault == faults < MaxFaults /\ faults' = faults + 1

-----------------------------------------------------------------------------
(* Agents.  An agent reads a run and acts on what it read in later steps.  *)

SetTask(a, k, r, t) == task' = [task EXCEPT ![a] = Task(k, r, t)]
Done(a) == task' = [task EXCEPT ![a] = Idle]
Doing(a, kind) == task[a].kind = kind

\* enqueue_snapshot_batch up to the insert.  The unique idempotency_key lets
\* one caller insert; a caller that finds the run still PREPARING helps.
EnqueueSnapshotBatch(a, r) ==
    /\ Doing(a, "idle")
    /\ runStatus[r] \in {"absent", "preparing"}
    /\ runStatus' = [runStatus EXCEPT ![r] = "preparing"]
    /\ SetTask(a, "prepare", r, 0)
    /\ UNCHANGED <<runToken, lease, dispatch, ahead, ckVars, results, workerVars, ghostVars>>

\* Mutant: upserts with $set instead of $setOnInsert.
EnsureCheckpointsOverwrites(a) ==
    /\ Doing(a, "prepare")
    /\ SetCheckpoints(CheckpointsOf(task[a].run), "pending")
    /\ SetTask(a, "queue", task[a].run, 0)
    /\ UNCHANGED <<runVars, results, workerVars, ghostVars>>

\* bulk_write of setOnInsert upserts: it inserts the missing checkpoints and
\* leaves the others alone.
EnsureCheckpoints(a) ==
    /\ Doing(a, "prepare")
    /\ LET r == task[a].run
           missing == {c \in CheckpointsOf(r) : ckStatus[c] = "absent"}
       IN  /\ SetCheckpoints(missing, "pending")
           /\ SetTask(a, "queue", r, 0)
    /\ UNCHANGED <<runVars, results, workerVars, ghostVars>>

\* The process dies in the middle of that bulk_write.
CrashInEnsureCheckpoints(a) ==
    /\ Doing(a, "prepare")
    /\ Fault
    /\ \E S \in SUBSET {c \in CheckpointsOf(task[a].run) : ckStatus[c] = "absent"} :
           SetCheckpoints(S, "pending")
    /\ Done(a)
    /\ UNCHANGED <<runVars, results, workerVars, sends, slipped, dropped>>


\* Mutant: the update to QUEUED does not ask for PREPARING.
QueuePreparedAlways(a) ==
    /\ Doing(a, "queue")
    /\ SetRun(task[a].run, "queued")
    /\ Done(a)
    /\ UNCHANGED <<ckVars, results, workerVars, ghostVars>>

\* CAS PREPARING -> QUEUED.
QueuePrepared(a) ==
    /\ Doing(a, "queue")
    /\ LET r == task[a].run
       IN  SetRunIf(runStatus[r] = "preparing", r, "queued")
    /\ Done(a)
    /\ UNCHANGED <<ckVars, results, workerVars, ghostVars>>

\* request_execution_cancel: a run that no worker holds is finalized by the
\* caller in later steps, a running one is only asked to stop.
RequestExecutionCancel(a, r) ==
    /\ Doing(a, "idle")
    /\ \/ /\ runStatus[r] \in {"preparing", "queued", "paused"}
          /\ SetTask(a, "cancel", r, 0)
          /\ UNCHANGED runStatus
       \/ /\ runStatus[r] = "running"
          /\ runStatus' = [runStatus EXCEPT ![r] = "cancel_requested"]
          /\ UNCHANGED task
    /\ UNCHANGED <<runToken, lease, dispatch, ahead, ckVars, results, workerVars, ghostVars>>

\* _finalize_cancelled_run, checkpoints first ...
FinalizeCheckpoints(a) ==
    /\ Doing(a, "cancel")
    /\ SetCheckpoints(OpenOf(task[a].run), "cancelled")
    /\ SetTask(a, "cancelRun", task[a].run, 0)
    /\ UNCHANGED <<runVars, results, workerVars, ghostVars>>

\* ... then the run, whatever its status has become.
FinalizeCancelledRun(a) ==
    /\ Doing(a, "cancelRun")
    /\ SetRun(task[a].run, "cancelled")
    /\ Done(a)
    /\ UNCHANGED <<ckVars, results, workerVars, ghostVars>>

\* Mutant: a resume that does not insist on PAUSED.
ResumeRunning(a, r) ==
    /\ Doing(a, "idle")
    /\ runStatus[r] \in {"paused", "running"}
    /\ SetRun(r, "queued")
    /\ UNCHANGED <<ckVars, results, workerVars, task, ghostVars>>

\* resume_execution and resume_auth_dependency: CAS PAUSED -> QUEUED.
ResumeExecution(a, r) ==
    /\ Doing(a, "idle")
    /\ runStatus[r] = "paused"
    /\ SetRun(r, "queued")
    /\ UNCHANGED <<ckVars, results, workerVars, task, ghostVars>>

(* recover_expired_executions.                                             *)

\* A PREPARING run older than five minutes is prepared again ...
RecoverPreparing(a, r) ==
    /\ Doing(a, "idle")
    /\ runStatus[r] = "preparing"
    /\ SetTask(a, "prepare", r, 0)
    /\ UNCHANGED <<runVars, ckVars, results, workerVars, ghostVars>>

\* ... or fails, when its snapshots are gone.
FailPreparing(a, r) ==
    /\ Doing(a, "idle")
    /\ runStatus[r] = "preparing"
    /\ SetRun(r, "failed")
    /\ UNCHANGED <<ckVars, results, workerVars, task, ghostVars>>

ListExpired(a, r) ==
    /\ Doing(a, "idle")
    /\ runStatus[r] = "running" /\ lease[r] = "expired"
    /\ SetTask(a, "expired", r, runToken[r])
    /\ UNCHANGED <<runVars, ckVars, results, workerVars, ghostVars>>

\* Mutant: recovery resets whatever is not done, not only what was running.
ResetUnfinishedCheckpoints(a) ==
    /\ Doing(a, "expired")
    /\ SetCheckpoints({c \in CheckpointsOf(task[a].run) : ckStatus[c] # "done"}, "pending")
    /\ SetTask(a, "requeue", task[a].run, task[a].token)
    /\ UNCHANGED <<runVars, results, workerVars, ghostVars>>

ResetExpiredCheckpoints(a) ==
    /\ Doing(a, "expired")
    /\ SetCheckpoints(RunningUnder(task[a].run, task[a].token), "pending")
    /\ SetTask(a, "requeue", task[a].run, task[a].token)
    /\ UNCHANGED <<runVars, results, workerVars, ghostVars>>

\* Mutant: the requeue forgets to unset the lease.
RequeueKeepingLease(a) ==
    /\ Doing(a, "requeue")
    /\ LET r == task[a].run
       IN  /\ runToken[r] = task[a].token
           /\ runStatus' = [runStatus EXCEPT ![r] = "queued"]
    /\ Done(a)
    /\ UNCHANGED <<runToken, lease, dispatch, ahead, ckVars, results, workerVars, ghostVars>>

RequeueExpired(a) ==
    /\ Doing(a, "requeue")
    /\ LET r == task[a].run
       IN  SetRunIf(/\ runStatus[r] = "running"
                    /\ runToken[r] = task[a].token
                    /\ lease[r] = "expired", r, "queued")
    /\ Done(a)
    /\ UNCHANGED <<ckVars, results, workerVars, ghostVars>>

ListOrphan(a, r) ==
    /\ Doing(a, "idle")
    /\ runStatus[r] = "running" /\ lease[r] = "none"
    /\ SetTask(a, "orphan", r, 0)
    /\ UNCHANGED <<runVars, ckVars, results, workerVars, ghostVars>>

ResetOrphanCheckpoints(a) ==
    /\ Doing(a, "orphan")
    /\ SetCheckpoints({c \in CheckpointsOf(task[a].run) : ckStatus[c] = "running"}, "pending")
    /\ SetTask(a, "requeueOrphan", task[a].run, 0)
    /\ UNCHANGED <<runVars, results, workerVars, ghostVars>>

RequeueOrphan(a) ==
    /\ Doing(a, "requeueOrphan")
    /\ LET r == task[a].run
       IN  SetRunIf(runStatus[r] = "running" /\ lease[r] = "none", r, "queued")
    /\ Done(a)
    /\ UNCHANGED <<ckVars, results, workerVars, ghostVars>>

\* Mutant: the query for runs to finalize misses those without any lease.
RecoverExpiredCancelOnly(a, r) ==
    /\ Doing(a, "idle")
    /\ runStatus[r] = "cancel_requested" /\ lease[r] = "expired"
    /\ SetTask(a, "cancel", r, 0)
    /\ UNCHANGED <<runVars, ckVars, results, workerVars, ghostVars>>

RecoverCancelRequested(a, r) ==
    /\ Doing(a, "idle")
    /\ runStatus[r] = "cancel_requested" /\ lease[r] # "live"
    /\ SetTask(a, "cancel", r, 0)
    /\ UNCHANGED <<runVars, ckVars, results, workerVars, ghostVars>>

AgentCrash(a) ==
    /\ ~Doing(a, "idle")
    /\ Fault
    /\ Done(a)
    /\ UNCHANGED <<runVars, ckVars, results, workerVars, sends, slipped, dropped>>

-----------------------------------------------------------------------------
(* A worker: claiming a run.                                               *)

Goto(w, p) == pc' = [pc EXCEPT ![w] = p]

\* The worker returns to run_forever; its thread pool and events are dropped.
Return(w) ==
    /\ Goto(w, "idle")
    /\ job' = [job EXCEPT ![w] = NoRun]
    /\ token' = [token EXCEPT ![w] = 0]
    /\ todo' = [todo EXCEPT ![w] = {}]
    /\ thread' = [thread EXCEPT ![w] = NoThreads]
    /\ cancelled' = cancelled \ {w}
    /\ lost' = lost \ {w}
    /\ authFailed' = authFailed \ {w}

\* order_by("-priority", "queued_at")
FirstInQueue(r) ==
    \A q \in Queued \ {r} : \/ Priority[q] < Priority[r]
                            \/ Priority[q] = Priority[r] /\ q \notin ahead[r]

\* claim_next_execution: an atomic findAndModify with a fresh lease token
\* (uuid4; the dispatch number is as unique within the run).
ClaimNextExecution(w, r) ==
    /\ pc[w] = "idle" /\ w \notin stopped
    /\ r \in Queued /\ FirstInQueue(r)
    /\ runStatus' = [runStatus EXCEPT ![r] = "running"]
    /\ dispatch'  = [dispatch EXCEPT ![r] = @ + 1]
    /\ runToken'  = [runToken EXCEPT ![r] = dispatch[r] + 1]
    /\ lease'     = [lease EXCEPT ![r] = "live"]
    /\ ahead'     = [q \in Runs |-> IF q = r THEN {} ELSE ahead[q] \ {r}]
    /\ job'       = [job EXCEPT ![w] = r]
    /\ token'     = [token EXCEPT ![w] = dispatch[r] + 1]
    /\ Goto(w, "claimed")
    /\ UNCHANGED <<ckVars, results, todo, thread, eventVars, task, ghostVars>>

\* run_once: no adapter or no account context; _pause_claimed_run is a CAS.
PauseClaimedRun(w) ==
    /\ pc[w] = "claimed"
    /\ Fault
    /\ SetRunIf(HoldsLease(w) /\ runStatus[job[w]] = "running", job[w], "paused")
    /\ Return(w)
    /\ UNCHANGED <<ckVars, results, stopped, task, sends, slipped, dropped>>

\* heartbeat_execution: renews the lease of a run still leased under the token.
CanRenew(w) == HoldsLease(w) /\ runStatus[job[w]] \in LeasedStatuses

\* execute_run: the first heartbeat.
StartRun(w) ==
    /\ pc[w] = "claimed"
    /\ IF CanRenew(w)
       THEN /\ lease' = [lease EXCEPT ![job[w]] = "live"]
            /\ Goto(w, "listing")
            /\ UNCHANGED <<job, token, todo, thread, cancelled, lost, authFailed>>
       ELSE /\ Return(w)
            /\ UNCHANGED lease
    /\ UNCHANGED <<runStatus, runToken, dispatch, ahead, ckVars, results, stopped, task, ghostVars>>

\* execute_run: the list of checkpoint ids, read once.
ListPending(w) ==
    /\ pc[w] = "listing"
    /\ todo' = [todo EXCEPT ![w] = {c \in CheckpointsOf(job[w]) : ckStatus[c] = "pending"}]
    /\ Goto(w, "running")
    /\ UNCHANGED <<runVars, ckVars, results, job, token, thread, eventVars, task, ghostVars>>

-----------------------------------------------------------------------------
(* A worker: heartbeat thread and main loop.                               *)

InExecuteRun(w) == pc[w] \notin {"idle", "claimed", "failed"}

\* _HeartbeatThread: a renewal, or lost_event when the run is no longer ours.
Heartbeat(w) ==
    /\ InExecuteRun(w) /\ w \notin lost
    /\ IF CanRenew(w)
       THEN /\ lease' = [lease EXCEPT ![job[w]] = "live"]
            /\ UNCHANGED lost
       ELSE /\ lost' = lost \cup {w}
            /\ UNCHANGED lease
    /\ UNCHANGED <<runStatus, runToken, dispatch, ahead, ckVars, results, pc, job, token,
                   todo, thread, cancelled, authFailed, stopped, task, ghostVars>>

\* The head of the loop: a lost lease, a stop or a CANCEL_REQUESTED status
\* (polled every half second) sets cancel_event.
NoticeCancel(w) ==
    /\ pc[w] = "running" /\ w \notin cancelled
    /\ w \in lost \cup stopped \/ runStatus[job[w]] = "cancel_requested"
    /\ cancelled' = cancelled \cup {w}
    /\ UNCHANGED <<runVars, ckVars, results, pc, job, token, todo, thread, lost,
                   authFailed, stopped, task, ghostVars>>

MaySubmit(w) == w \notin cancelled \cup lost \cup authFailed

SetThread(w, c, state) == thread' = [thread EXCEPT ![w][c] = state]

Submit(w, c) ==
    /\ pc[w] = "running" /\ MaySubmit(w)
    /\ c \in todo[w]
    /\ todo' = [todo EXCEPT ![w] = @ \ {c}]
    /\ SetThread(w, c, "submitted")
    /\ UNCHANGED <<runVars, ckVars, results, pc, job, token, eventVars, task, ghostVars>>

-----------------------------------------------------------------------------
(* A worker: _execute_checkpoint in a pool thread.                         *)

ShouldAbort(w) == w \in cancelled \cup lost \cup authFailed \cup stopped

\* Every later write of the thread is conditional on its own claim.
OwnsCheckpoint(w, c) == ckStatus[c] = "running" /\ ckToken[c] = token[w]

\* _finish_checkpoint, and the same update back to PENDING.
FinishCheckpoint(w, c, status) ==
    IF OwnsCheckpoint(w, c) THEN SetCheckpoints({c}, status) ELSE UNCHANGED ckVars

\* findAndModify PENDING -> RUNNING; "not_claimed" ends the thread.
ClaimCheckpoint(w, c) ==
    /\ thread[w][c] = "submitted"
    /\ IF ckStatus[c] = "pending"
       THEN /\ ckStatus' = [ckStatus EXCEPT ![c] = "running"]
            /\ ckToken'  = [ckToken EXCEPT ![c] = token[w]]
            /\ attempts' = [attempts EXCEPT ![c] = @ + 1]
            /\ SetThread(w, c, "claimed")
       ELSE /\ SetThread(w, c, "none")
            /\ UNCHANGED ckVars
    /\ UNCHANGED <<runVars, results, pc, job, token, todo, eventVars, task, ghostVars>>

\* A result under the execution key is reused instead of sending again.
CheckExistingResult(w, c) ==
    /\ thread[w][c] = "claimed"
    /\ IF results[c] = "none"
       THEN SetThread(w, c, "checked") /\ UNCHANGED ckVars
       ELSE /\ FinishCheckpoint(w, c, IF results[c] = "ok" THEN "done" ELSE "error")
            /\ SetThread(w, c, "none")
    /\ UNCHANGED <<runVars, results, pc, job, token, todo, eventVars, task, ghostVars>>

\* The snapshot document expired.
SnapshotNotFound(w, c) ==
    /\ thread[w][c] = "checked"
    /\ FinishCheckpoint(w, c, "error")
    /\ SetThread(w, c, "none")
    /\ UNCHANGED <<runVars, results, pc, job, token, todo, eventVars, task, ghostVars>>

\* acquire() and the check after it: an abort gives the checkpoint back, or
\* cancels it when nothing but cancel_event is set; a stopped host skips it.
FinishBlocked(w, c) ==
    /\ thread[w][c] = "checked"
    /\ \/ /\ ShouldAbort(w)
          /\ FinishCheckpoint(w, c, IF w \in lost \cup authFailed \cup stopped
                                    THEN "pending" ELSE "cancelled")
       \/ FinishCheckpoint(w, c, "skipped")
    /\ SetThread(w, c, "none")
    /\ UNCHANGED <<runVars, results, pc, job, token, todo, eventVars, task, ghostVars>>

Permit(w, c) ==
    /\ thread[w][c] = "checked"
    /\ ~ShouldAbort(w)
    /\ SetThread(w, c, "permitted")
    /\ UNCHANGED <<runVars, ckVars, results, pc, job, token, todo, eventVars, task, ghostVars>>

\* resolve() fails in the middle of a run.
AuthFailure(w, c) ==
    /\ thread[w][c] = "permitted"
    /\ Fault
    /\ authFailed' = authFailed \cup {w}
    /\ FinishCheckpoint(w, c, "pending")
    /\ SetThread(w, c, "none")
    /\ UNCHANGED <<runVars, results, pc, job, token, todo, cancelled, lost, stopped,
                   task, sends, slipped, dropped>>

\* adapter.replay: the request goes out and its evidence comes back.
Replay(w, c) ==
    /\ thread[w][c] = "permitted"
    /\ sends' = [sends EXCEPT ![c] = @ + 1]
    /\ \E o \in Outcomes : SetThread(w, c, o)
    /\ UNCHANGED <<runVars, ckVars, results, pc, job, token, todo, eventVars, task,
                   faults, slipped, dropped>>


\* Mutant: the result is replaced instead of inserted.
RecordOverwrites(w, c) ==
    /\ thread[w][c] \in Outcomes
    /\ results' = [results EXCEPT ![c] = thread[w][c]]
    /\ SetThread(w, c, IF thread[w][c] = "ok" THEN "recorded_ok" ELSE "recorded_err")
    /\ UNCHANGED <<runVars, ckVars, pc, job, token, todo, eventVars, task, ghostVars>>

\* record_execution_result: the unique execution_key keeps the first writer's
\* result.
RecordExecutionResult(w, c) ==
    /\ thread[w][c] \in Outcomes
    /\ results' = [results EXCEPT ![c] = IF @ = "none" THEN thread[w][c] ELSE @]
    /\ SetThread(w, c, IF thread[w][c] = "ok" THEN "recorded_ok" ELSE "recorded_err")
    /\ UNCHANGED <<runVars, ckVars, pc, job, token, todo, eventVars, task, ghostVars>>

FinishRecorded(w, c) ==
    /\ thread[w][c] \in {"recorded_ok", "recorded_err"}
    /\ FinishCheckpoint(w, c, IF thread[w][c] = "recorded_ok" THEN "done" ELSE "error")
    /\ SetThread(w, c, "none")
    /\ UNCHANGED <<runVars, results, pc, job, token, todo, eventVars, task, ghostVars>>

\* The thread raised: _mark_future_failure.  Once the executor is being shut
\* down by an exception of the main loop, nobody looks at the future.
MarkFutureFailure(w, c) ==
    /\ thread[w][c] # "none"
    /\ Fault
    /\ IF pc[w] = "running" THEN FinishCheckpoint(w, c, "error") ELSE UNCHANGED ckVars
    /\ SetThread(w, c, "none")
    /\ dropped' = (dropped \/ (pc[w] = "running" /\ thread[w][c] = "submitted"))
    /\ UNCHANGED <<runVars, results, pc, job, token, todo, eventVars, task, sends, slipped>>

-----------------------------------------------------------------------------
(* A worker: the end of execute_run.  The branch is chosen, the checkpoints *)
(* are updated and the run is updated in separate steps.                   *)

LoopEnded(w) ==
    /\ pc[w] = "running"
    /\ Quiet(w)
    /\ todo[w] = {} \/ ~MaySubmit(w)

\* RUNNING checkpoints of this claim go back to PENDING.
ReleaseCheckpoints(w) == SetCheckpoints(RunningUnder(job[w], token[w]), "pending")

LeaveStopping(w) ==
    /\ LoopEnded(w) /\ w \in lost \cup stopped
    /\ ReleaseCheckpoints(w)
    /\ Goto(w, "stopping")
    /\ UNCHANGED <<runVars, results, job, token, todo, thread, eventVars, task, ghostVars>>

\* Mutant: the branch of a failed login does not return.
PauseFallsThrough(w) ==
    /\ LoopEnded(w) /\ w \notin lost \cup stopped
    /\ w \in authFailed /\ w \notin cancelled
    /\ ReleaseCheckpoints(w)
    /\ Goto(w, "finishing")
    /\ UNCHANGED <<runVars, results, job, token, todo, thread, eventVars, task, ghostVars>>

LeavePaused(w) ==
    /\ LoopEnded(w) /\ w \notin lost \cup stopped
    /\ w \in authFailed /\ w \notin cancelled
    /\ ReleaseCheckpoints(w)
    /\ Goto(w, "pausing")
    /\ UNCHANGED <<runVars, results, job, token, todo, thread, eventVars, task, ghostVars>>

\* The filter names the run and not the claim: every open checkpoint.
LeaveCancelled(w) ==
    /\ LoopEnded(w) /\ w \notin lost \cup stopped
    /\ w \in cancelled
    /\ SetCheckpoints(OpenOf(job[w]), "cancelled")
    /\ Goto(w, "cancelling")
    /\ UNCHANGED <<runVars, results, job, token, todo, thread, eventVars, task, ghostVars>>

\* Mutant: a worker that finds pending checkpoints at the end lists them again.
LeaveDoneOrRelist(w) ==
    /\ LoopEnded(w) /\ w \notin lost \cup stopped
    /\ w \notin cancelled \cup authFailed
    /\ Goto(w, IF \E c \in CheckpointsOf(job[w]) : ckStatus[c] = "pending"
               THEN "listing" ELSE "finishing")
    /\ UNCHANGED <<runVars, ckVars, results, job, token, todo, thread, eventVars, task, ghostVars>>

LeaveDone(w) ==
    /\ LoopEnded(w) /\ w \notin lost \cup stopped
    /\ w \notin cancelled \cup authFailed
    /\ Goto(w, "finishing")
    /\ UNCHANGED <<runVars, ckVars, results, job, token, todo, thread, eventVars, task, ghostVars>>

\* The last update of the run.  A stopped worker requeues a run that is still
\* RUNNING; the other updates name the lease token only.
ReturnFromRun(w) ==
    /\ \/ /\ pc[w] = "stopping"
          /\ SetRunIf(/\ w \in stopped /\ w \notin lost
                      /\ HoldsLease(w) /\ runStatus[job[w]] = "running", job[w], "queued")
       \/ /\ pc[w] = "pausing"
          /\ SetRunIf(HoldsLease(w), job[w], "paused")
       \/ /\ pc[w] = "cancelling"
          /\ SetRunIf(HoldsLease(w), job[w], "cancelled")
       \/ /\ pc[w] = "finishing"
          /\ SetRunIf(HoldsLease(w), job[w], "done")
    /\ Return(w)
    /\ UNCHANGED <<ckVars, results, stopped, task, ghostVars>>

\* execute_run raised; leaving the executor block waits for its threads.
RunFails(w) ==
    /\ InExecuteRun(w) /\ pc[w] # "failing"
    /\ Fault
    /\ Goto(w, "failing")
    /\ UNCHANGED <<runVars, ckVars, results, job, token, todo, thread, eventVars, task,
                   sends, slipped, dropped>>

\* _handle_dispatch_failure
ReleaseAfterFailure(w) ==
    /\ pc[w] = "failing" /\ Quiet(w)
    /\ ReleaseCheckpoints(w)
    /\ Goto(w, "failed")
    /\ UNCHANGED <<runVars, results, job, token, todo, thread, eventVars, task, ghostVars>>

\* The attempt number is the one of the claim.
Retryable(w) == token[w] < MaxDispatchAttempts[job[w]]

HandleDispatchFailure(w) ==
    /\ pc[w] = "failed"
    /\ SetRunIf(HoldsLease(w), job[w], IF Retryable(w) THEN "queued" ELSE "failed")
    /\ Return(w)
    /\ UNCHANGED <<ckVars, results, stopped, task, ghostVars>>

-----------------------------------------------------------------------------
(* Time and faults.                                                        *)

Holder(w, r) == pc[w] # "idle" /\ job[w] = r /\ token[w] = runToken[r]

\* lease_expires_at passes.  That is bound to happen to the lease of a dead
\* worker; a live one has to miss its heartbeats, which is a fault.
ExpireLease(r) ==
    /\ lease[r] = "live"
    /\ lease' = [lease EXCEPT ![r] = "expired"]
    /\ IF \E w \in Workers : Holder(w, r)
       THEN Fault /\ slipped' = TRUE
       ELSE UNCHANGED <<faults, slipped>>
    /\ UNCHANGED <<runStatus, runToken, dispatch, ahead, ckVars, results, workerVars,
                   task, sends, dropped>>

\* The process dies and is started again.
Crash(w) ==
    /\ pc[w] # "idle"
    /\ Fault
    /\ Return(w)
    /\ stopped' = stopped \ {w}
    /\ UNCHANGED <<runVars, ckVars, results, task, sends, slipped, dropped>>

\* ExecutionWorker.stop on a signal; the process ends when run_once returns
\* and a new one is started.
Stop(w) ==
    /\ w \notin stopped /\ pc[w] # "idle"
    /\ Fault
    /\ stopped' = stopped \cup {w}
    /\ UNCHANGED <<runVars, ckVars, results, pc, job, token, todo, thread, cancelled,
                   lost, authFailed, task, sends, slipped, dropped>>

Restart(w) ==
    /\ w \in stopped /\ pc[w] = "idle"
    /\ stopped' = stopped \ {w}
    /\ UNCHANGED <<runVars, ckVars, results, pc, job, token, todo, thread, cancelled,
                   lost, authFailed, task, ghostVars>>

-----------------------------------------------------------------------------
(* The specification.                                                      *)

Init ==
    /\ runStatus = [r \in Runs |-> IF r \in Orphans THEN "running" ELSE "absent"]
    /\ runToken = [r \in Runs |-> 0]
    /\ lease = [r \in Runs |-> "none"]
    /\ dispatch = [r \in Runs |-> 0]
    /\ ahead = [r \in Runs |-> {}]
    /\ ckStatus = [c \in Checkpoints |-> IF RunOf[c] \in Orphans THEN "running" ELSE "absent"]
    /\ ckToken = [c \in Checkpoints |-> 0]
    /\ attempts = [c \in Checkpoints |-> 0]
    /\ results = [c \in Checkpoints |-> "none"]
    /\ pc = [w \in Workers |-> "idle"]
    /\ job = [w \in Workers |-> NoRun]
    /\ token = [w \in Workers |-> 0]
    /\ todo = [w \in Workers |-> {}]
    /\ thread = [w \in Workers |-> NoThreads]
    /\ cancelled = {} /\ lost = {} /\ authFailed = {} /\ stopped = {}
    /\ task = [a \in Agents |-> Idle]
    /\ sends = [c \in Checkpoints |-> 0]
    /\ faults = 0
    /\ slipped = FALSE /\ dropped = FALSE

Recover(a) ==
    \/ ResetExpiredCheckpoints(a) \/ RequeueExpired(a)
    \/ ResetOrphanCheckpoints(a) \/ RequeueOrphan(a)
    \/ \E r \in Runs : \/ RecoverPreparing(a, r) \/ ListExpired(a, r)
                       \/ ListOrphan(a, r) \/ RecoverCancelRequested(a, r)

Continue(a) ==
    \/ EnsureCheckpoints(a) \/ QueuePrepared(a)
    \/ FinalizeCheckpoints(a) \/ FinalizeCancelledRun(a)

AgentNext(a) ==
    \/ Recover(a) \/ Continue(a)
    \/ CrashInEnsureCheckpoints(a) \/ AgentCrash(a)
    \/ \E r \in Runs : \/ EnqueueSnapshotBatch(a, r) \/ RequestExecutionCancel(a, r)
                       \/ ResumeExecution(a, r) \/ FailPreparing(a, r)

ThreadStep(w, c) ==
    \/ ClaimCheckpoint(w, c) \/ CheckExistingResult(w, c) \/ SnapshotNotFound(w, c)
    \/ FinishBlocked(w, c) \/ Permit(w, c) \/ Replay(w, c)
    \/ RecordExecutionResult(w, c) \/ FinishRecorded(w, c)

\* What a live worker does of its own accord.
WorkerStep(w) ==
    \/ StartRun(w) \/ ListPending(w) \/ NoticeCancel(w)
    \/ LeaveStopping(w) \/ LeavePaused(w) \/ LeaveCancelled(w) \/ LeaveDone(w)
    \/ ReturnFromRun(w) \/ ReleaseAfterFailure(w) \/ HandleDispatchFailure(w)
    \/ Restart(w)
    \/ \E r \in Runs : ClaimNextExecution(w, r)
    \/ \E c \in Checkpoints : Submit(w, c) \/ ThreadStep(w, c)

WorkerFault(w) ==
    \/ PauseClaimedRun(w) \/ RunFails(w) \/ Crash(w) \/ Stop(w)
    \/ \E c \in Checkpoints : AuthFailure(w, c) \/ MarkFutureFailure(w, c)

Next ==
    \/ \E a \in Agents : AgentNext(a)
    \/ \E w \in Workers : WorkerStep(w) \/ Heartbeat(w) \/ WorkerFault(w)
    \/ \E r \in Runs : ExpireLease(r)

Spec == Init /\ [][Next]_vars

-----------------------------------------------------------------------------
(* Fairness.  A worker process keeps running its loop and its threads, the *)
(* maintenance scheduler keeps recovering and an agent finishes what it    *)
(* started; the lease of a dead worker expires because time passes.  A     *)
(* heartbeat is fair because it is a timer of its own thread.  Faults,     *)
(* requests, cancels and resumes are not.                                  *)

Fairness ==
    /\ \A a \in Agents : WF_vars(Recover(a)) /\ WF_vars(Continue(a))
    /\ \A w \in Workers :
          /\ WF_vars(StartRun(w) \/ ListPending(w))
          /\ WF_vars(\E r \in Runs : ClaimNextExecution(w, r))
          /\ WF_vars(NoticeCancel(w))
          /\ WF_vars(Heartbeat(w))
          /\ WF_vars(\E c \in Checkpoints : Submit(w, c))
          /\ \A c \in Checkpoints : WF_vars(ThreadStep(w, c))
          /\ WF_vars(\/ LeaveStopping(w) \/ LeavePaused(w)
                     \/ LeaveCancelled(w) \/ LeaveDone(w))
          /\ WF_vars(ReturnFromRun(w))
          /\ WF_vars(ReleaseAfterFailure(w) \/ HandleDispatchFailure(w))
          /\ WF_vars(Restart(w))
    /\ \A r \in Runs : WF_vars(ExpireLease(r))

LiveSpec == Spec /\ Fairness

-----------------------------------------------------------------------------
(* Properties.                                                             *)

RunTypeOK ==
    /\ runStatus \in [Runs -> RunStatuses]
    /\ runToken \in [Runs -> Nat]
    /\ lease \in [Runs -> {"none", "live", "expired"}]
    /\ dispatch \in [Runs -> Nat]
    /\ ahead \in [Runs -> SUBSET Runs]

CheckpointTypeOK ==
    /\ ckStatus \in [Checkpoints -> CkStatuses]
    /\ ckToken \in [Checkpoints -> Nat]
    /\ attempts \in [Checkpoints -> Nat]

WorkerTypeOK ==
    /\ pc \in [Workers -> PcStates]
    /\ job \in [Workers -> Runs \cup {NoRun}]
    /\ token \in [Workers -> Nat]
    /\ todo \in [Workers -> SUBSET Checkpoints]
    /\ thread \in [Workers -> [Checkpoints -> ThreadStates]]
    /\ cancelled \in SUBSET Workers /\ lost \in SUBSET Workers
    /\ authFailed \in SUBSET Workers /\ stopped \in SUBSET Workers

TaskTypeOK == task \in [Agents -> [kind : TaskKinds, run : Runs \cup {NoRun}, token : Nat]]

GhostTypeOK ==
    /\ sends \in [Checkpoints -> Nat]
    /\ faults \in 0 .. MaxFaults
    /\ slipped \in BOOLEAN /\ dropped \in BOOLEAN

\* Every document and every process is always in a state of its kind.
TypeOK ==
    /\ RunTypeOK /\ CheckpointTypeOK /\ WorkerTypeOK /\ TaskTypeOK /\ GhostTypeOK
    /\ results \in [Checkpoints -> Outcomes \cup {"none"}]

\* A run has a lease token exactly while it is running or asked to stop (an
\* orphan left by an older worker has none until it is dispatched), and no
\* two workers ever hold the same claim of a run.  Every guarded update of
\* execution_scheduler.py rests on this.
LeaseIsExclusive ==
    /\ \A r \in Runs :
          /\ runToken[r] # 0 => runStatus[r] \in LeasedStatuses /\ runToken[r] = dispatch[r]
          /\ runStatus[r] \in LeasedStatuses /\ runToken[r] = 0
                => r \in Orphans /\ dispatch[r] = 0
    /\ \A v, w \in Workers :
          v # w /\ job[v] # NoRun /\ job[v] = job[w] => token[v] # token[w]

\* As long as no worker outlives its lease, a run is executed by one worker
\* at a time: crashes, stops, requeues, cancels and failures never give it to
\* a second one while the first still runs.
ExclusiveExecution ==
    ~slipped => \A v, w \in Workers : job[v] # NoRun /\ job[v] = job[w] => v = w

\* "At least once" has a ceiling: a dispatch of the run claims each checkpoint
\* at most once and sends at most one request for it, even when workers with
\* lost leases go on claiming; and a recorded result was really sent for.
SendsBoundedByDispatch ==
    \A c \in Checkpoints :
        /\ sends[c] <= attempts[c]
        /\ attempts[c] <= dispatch[RunOf[c]]
        /\ results[c] # "none" => sends[c] > 0

\* A checkpoint reported done has a recorded result behind it, and unless a
\* worker outlived its lease the two agree on success.
DoneCheckpointHasResult ==
    \A c \in Checkpoints :
        ckStatus[c] = "done" => /\ results[c] # "none"
                                /\ ~slipped /\ RunOf[c] \notin Orphans => results[c] = "ok"

\* A run that reports done has settled every one of its checkpoints, unless a
\* worker outlived its lease or a pool thread failed before it claimed one.
DoneRunIsComplete ==
    \A r \in Runs :
        runStatus[r] = "done" /\ ~slipped /\ ~dropped /\ r \notin Orphans
            => \A c \in CheckpointsOf(r) : ckStatus[c] \in SettledStatuses

\* What is reported done was done: every document is well formed, a done
\* checkpoint has its result and a done run its checkpoints.
DoneIsRecorded == TypeOK /\ DoneCheckpointHasResult /\ DoneRunIsComplete

\* A run that ended never runs, queues or pauses again.
FinalRunStaysFinal ==
    [][\A r \in Runs : runStatus[r] \in FINAL_RUN_STATUSES
                        => runStatus'[r] \in FINAL_RUN_STATUSES]_vars

\* A settled checkpoint is never touched again: not by recovery, not by a
\* worker with a stale lease, not by a cancel.
SettledCheckpointStays ==
    [][\A c \in Checkpoints : ckStatus[c] \in SettledStatuses
                              => ckStatus'[c] = ckStatus[c]]_vars

\* The first result recorded under an execution key is kept, however many
\* workers execute the checkpoint.
ResultWrittenOnce ==
    [][\A c \in Checkpoints : results[c] # "none" => results'[c] = results[c]]_vars

\* Work is not lost: whatever crashes, a run that was accepted ends or pauses.
AcceptedRunSettles ==
    \A r \in Runs : (runStatus[r] \in {"preparing", "queued"} \cup LeasedStatuses)
                        ~> (runStatus[r] \in FINAL_RUN_STATUSES \cup {"paused"})

\* The scheduler implements RunContract: leases, retries, recovery and races
\* between cancel and execution are invisible to a caller of the contract.
Contract == INSTANCE RunContract WITH
    phase   <- [r \in Runs |->
                  CASE runStatus[r] = "absent" -> "absent"
                    [] runStatus[r] = "paused" -> "paused"
                    [] runStatus[r] \in FINAL_RUN_STATUSES -> "closed"
                    [] OTHER -> "open"],
    outcome <- [c \in Checkpoints |->
                  IF ckStatus[c] \in SettledStatuses THEN ckStatus[c] ELSE "open"],
    result  <- results

ImplementsContract == Contract!ContractSpec

-----------------------------------------------------------------------------
(* What docs/execution_scheduler.md says and the code does not do.         *)

\* The run state machine leaves cancel_requested for cancelled only.
CancelRequestedOnlyCancels ==
    [][\A r \in Runs : runStatus[r] = "cancel_requested"
                        => runStatus'[r] \in {"cancel_requested", "cancelled"}]_vars

\* A batch queued with max_dispatch_attempts = 1, as generic mutations are, is
\* not sent again automatically.
SingleDispatchSendsOnce ==
    \A c \in Checkpoints : MaxDispatchAttempts[RunOf[c]] = 1 => sends[c] <= 1
=============================================================================
