---------------------- MODULE ExecutionCompletionProofs ----------------------
(***************************************************************************)
(* Completion: what the scheduler reports as done was done, and a caller   *)
(* sees nothing but RunContract.  Builds on the invariants of              *)
(* ExecutionSchedulerProofs (leases, exclusive execution, sends).          *)
(***************************************************************************)
EXTENDS ExecutionSchedulerProofs

-----------------------------------------------------------------------------
(* Frames: what a step of a worker leaves alone.                           *)

OtherWorkers(w) ==
    \A v \in Workers \ {w} :
        /\ pc'[v] = pc[v] /\ job'[v] = job[v] /\ token'[v] = token[v]
        /\ todo'[v] = todo[v] /\ thread'[v] = thread[v]
        /\ ShouldAbort(v)' <=> ShouldAbort(v)
OtherCheckpoints(r) ==
    \A c \in Checkpoints : RunOf[c] # r => /\ ckStatus'[c] = ckStatus[c]
                                           /\ ckToken'[c] = ckToken[c]
                                           /\ results'[c] = results[c]
OtherRuns(r) ==
    \A q \in Runs \ {r} : /\ runStatus'[q] = runStatus[q]
                          /\ runToken'[q] = runToken[q]
                          /\ lease'[q] = lease[q]

LEMMA ReturnOthers ==
  ASSUME WorkerTypeOK, NEW w \in Workers, Return(w), stopped \ {w} = stopped' \ {w}
  PROVE  OtherWorkers(w)
<1>1. \A v \in Workers \ {w} :
        /\ pc'[v] = pc[v] /\ job'[v] = job[v] /\ token'[v] = token[v]
        /\ todo'[v] = todo[v] /\ thread'[v] = thread[v]
  BY DEF WorkerTypeOK, Return, Goto
<1>2. \A v \in Workers \ {w} : ShouldAbort(v)' <=> ShouldAbort(v)
  BY DEF Return, ShouldAbort
<1> QED BY <1>1, <1>2 DEF OtherWorkers

LEMMA SetRunOthers ==
  ASSUME RunTypeOK, NEW f, NEW r, NEW s, SetRunIf(f, r, s) PROVE OtherRuns(r)
  BY DEF RunTypeOK, SetRunIf, SetRun, runVars, OtherRuns

LEMMA SetCheckpointsOthers ==
  ASSUME NEW r, NEW S \in SUBSET CheckpointsOf(r), NEW s, SetCheckpoints(S, s), results' = results
  PROVE  OtherCheckpoints(r)
  BY DEF SetCheckpoints, CheckpointsOf, OtherCheckpoints

LEMMA FinishOthers ==
  ASSUME NEW w, NEW c \in Checkpoints, NEW s, FinishCheckpoint(w, c, s), results' = results
  PROVE  OtherCheckpoints(RunOf[c])
  BY SetCheckpointsOthers DEF FinishCheckpoint, CheckpointsOf, OtherCheckpoints, ckVars

LEMMA SameOthers ==
  /\ UNCHANGED <<ckVars, results>> => \A r : OtherCheckpoints(r)
  /\ UNCHANGED runVars => \A r : OtherRuns(r)
<1>1. UNCHANGED <<ckVars, results>> => \A r : OtherCheckpoints(r)
  BY DEF OtherCheckpoints, ckVars
<1>2. UNCHANGED runVars => \A r : OtherRuns(r)
  BY DEF OtherRuns, runVars
<1> QED BY <1>1, <1>2

LEMMA SetThreadOthers ==
  ASSUME WorkerTypeOK, NEW w \in Workers, NEW c \in Checkpoints, NEW s, SetThread(w, c, s)
  PROVE  \A v \in Workers \ {w} : thread'[v] = thread[v]
  BY DEF WorkerTypeOK, SetThread

LEMMA ThreadFrame ==
  ASSUME LeaseInv, SendInv, NEW w \in Workers, NEW c \in Checkpoints,
         ThreadStep(w, c) \/ AuthFailure(w, c) \/ MarkFutureFailure(w, c)
  PROVE  OtherWorkers(w) /\ OtherCheckpoints(job[w]) /\ OtherRuns(job[w])
<1> USE DEF LeaseInv, TypeOK
<1>1. RunOf[c] = job[w]
  BY DEF ThreadStep, ClaimCheckpoint, CheckExistingResult, SnapshotNotFound, FinishBlocked,
     Permit, Replay, RecordExecutionResult, FinishRecorded, AuthFailure, MarkFutureFailure,
     SendInv, ThreadsOK, Outcomes
<1>2. UNCHANGED <<runVars, pc, job, token, todo, cancelled, lost, stopped, task>>
  BY DEF ThreadStep, ClaimCheckpoint, CheckExistingResult, SnapshotNotFound, FinishBlocked,
     Permit, Replay, RecordExecutionResult, FinishRecorded, AuthFailure, MarkFutureFailure,
     eventVars
<1>3. authFailed' = authFailed \/ authFailed' = authFailed \cup {w}
  BY DEF ThreadStep, ClaimCheckpoint, CheckExistingResult, SnapshotNotFound, FinishBlocked,
     Permit, Replay, RecordExecutionResult, FinishRecorded, AuthFailure, MarkFutureFailure,
     eventVars
<1>4. \E s : SetThread(w, c, s)
  BY DEF ThreadStep, ClaimCheckpoint, CheckExistingResult, SnapshotNotFound, FinishBlocked,
     Permit, Replay, RecordExecutionResult, FinishRecorded, AuthFailure, MarkFutureFailure
<1>5. OtherWorkers(w)
  BY <1>2, <1>3, <1>4, SetThreadOthers DEF OtherWorkers, ShouldAbort
<1>6. OtherCheckpoints(job[w])
  <2>1. CASE ClaimCheckpoint(w, c)
    BY <1>1, <2>1 DEF ClaimCheckpoint, OtherCheckpoints, CheckpointTypeOK, ckVars
  <2>2. CASE RecordExecutionResult(w, c)
    BY <1>1, <2>2 DEF RecordExecutionResult, OtherCheckpoints, ckVars
  <2>3. CASE \E s : FinishCheckpoint(w, c, s) /\ results' = results
    BY <1>1, <2>3, FinishOthers
  <2>4. CASE UNCHANGED <<ckVars, results>>
    BY <2>4, SameOthers
  <2>5. CASE CheckExistingResult(w, c) \/ SnapshotNotFound(w, c) \/ FinishBlocked(w, c)
    BY <2>3, <2>4, <2>5 DEF CheckExistingResult, SnapshotNotFound, FinishBlocked
  <2>6. CASE FinishRecorded(w, c) \/ AuthFailure(w, c) \/ MarkFutureFailure(w, c)
    BY <2>3, <2>4, <2>6 DEF FinishRecorded, AuthFailure, MarkFutureFailure
  <2> QED BY <2>1, <2>2, <2>4, <2>5, <2>6 DEF ThreadStep, Permit, Replay
<1>7. OtherRuns(job[w])
  BY <1>2, SameOthers
<1> QED BY <1>5, <1>6, <1>7

LEMMA WorkerFrame ==
  ASSUME LeaseInv, SendInv, NEW w \in Workers,
         WorkerStep(w) \/ Heartbeat(w) \/ WorkerFault(w),
         \A r \in Runs : ~ClaimNextExecution(w, r)
  PROVE  OtherWorkers(w) /\ OtherCheckpoints(job[w]) /\ OtherRuns(job[w])
<1> USE DEF LeaseInv, TypeOK
<1>1. CASE PauseClaimedRun(w) \/ ReturnFromRun(w) \/ HandleDispatchFailure(w) \/ Crash(w)
  <2>1. OtherWorkers(w)
    BY <1>1, ReturnOthers DEF PauseClaimedRun, ReturnFromRun, HandleDispatchFailure, Crash
  <2>2. OtherRuns(job[w])
    BY <1>1, SetRunOthers, SameOthers
    DEF PauseClaimedRun, ReturnFromRun, HandleDispatchFailure, Crash
  <2>3. OtherCheckpoints(job[w])
    BY <1>1, SameOthers DEF PauseClaimedRun, ReturnFromRun, HandleDispatchFailure, Crash
  <2> QED BY <2>1, <2>2, <2>3
<1>2. CASE StartRun(w)
  <2>1. OtherWorkers(w)
    <3>1. CASE CanRenew(w)
      BY <1>2, <3>1 DEF StartRun, Goto, WorkerTypeOK, OtherWorkers, ShouldAbort
    <3>2. CASE ~CanRenew(w)
      BY <1>2, <3>2, ReturnOthers DEF StartRun
    <3> QED BY <3>1, <3>2
  <2>2. OtherRuns(job[w])
    BY <1>2 DEF StartRun, RunTypeOK, OtherRuns
  <2>3. OtherCheckpoints(job[w])
    BY <1>2, SameOthers DEF StartRun
  <2> QED BY <2>1, <2>2, <2>3
<1>3. CASE Heartbeat(w)
  <2>1. OtherWorkers(w)
    BY <1>3 DEF Heartbeat, OtherWorkers, ShouldAbort
  <2>2. OtherRuns(job[w])
    BY <1>3 DEF Heartbeat, RunTypeOK, OtherRuns
  <2>3. OtherCheckpoints(job[w])
    BY <1>3, SameOthers DEF Heartbeat
  <2> QED BY <2>1, <2>2, <2>3
<1>4. CASE \/ ListPending(w) \/ NoticeCancel(w) \/ RunFails(w) \/ Stop(w) \/ Restart(w)
           \/ \E c \in Checkpoints : Submit(w, c)
  <2>1. OtherWorkers(w)
    BY <1>4, SetThreadOthers
    DEF ListPending, NoticeCancel, RunFails, Stop, Restart, Submit, Goto, WorkerTypeOK,
        OtherWorkers, ShouldAbort, eventVars
  <2> QED
    BY <1>4, <2>1, SameOthers DEF ListPending, NoticeCancel, RunFails, Stop, Restart, Submit
<1>5. CASE \/ LeaveStopping(w) \/ LeavePaused(w) \/ LeaveCancelled(w) \/ LeaveDone(w)
           \/ ReleaseAfterFailure(w)
  <2>1. OtherWorkers(w)
    BY <1>5 DEF LeaveStopping, LeavePaused, LeaveCancelled, LeaveDone, ReleaseAfterFailure,
       Goto, WorkerTypeOK, OtherWorkers, ShouldAbort, eventVars
  <2>2. OtherCheckpoints(job[w])
    <3>1. RunningUnder(job[w], token[w]) \subseteq CheckpointsOf(job[w])
      BY DEF RunningUnder
    <3>2. OpenOf(job[w]) \subseteq CheckpointsOf(job[w])
      BY DEF OpenOf
    <3> QED
      BY <1>5, <3>1, <3>2, SetCheckpointsOthers, SameOthers
      DEF LeaveStopping, LeavePaused, LeaveCancelled, LeaveDone, ReleaseAfterFailure,
          ReleaseCheckpoints
  <2>3. OtherRuns(job[w])
    BY <1>5, SameOthers
    DEF LeaveStopping, LeavePaused, LeaveCancelled, LeaveDone, ReleaseAfterFailure
  <2> QED BY <2>1, <2>2, <2>3
<1> QED
  BY <1>1, <1>2, <1>3, <1>4, <1>5, ThreadFrame DEF WorkerStep, WorkerFault

-----------------------------------------------------------------------------
(* Hand-overs.  An expiry belongs to a token; an agent acts on what it read *)
(* of a run, an orphan's task on an orphan and a recovery on a dispatch     *)
(* that is over; a pool thread is only alive in the loop or behind it.      *)

NoneIn(r, S) == \A c \in CheckpointsOf(r) : ckStatus[c] \notin S

LeaseHasToken == \A r \in Runs : lease[r] = "none" <=> runToken[r] = 0

TaskOK(t) ==
    /\ t.kind # "idle" => t.run \in Runs
    /\ t.kind \in {"orphan", "requeueOrphan"} => t.run \in Orphans
    /\ t.kind = "queue" => NoneIn(t.run, {"absent"})
    /\ t.kind \in {"expired", "requeue"} => t.token \in 1 .. dispatch[t.run]
TasksOK == \A a \in Agents : TaskOK(task[a])

ThreadsActive == \A w \in Workers : \A c \in Checkpoints :
                    thread[w][c] # "none" => pc[w] \in {"running", "failing"}

HandInv == LeaseHasToken /\ TasksOK /\ ThreadsActive

LEMMA InitHand == Init => HandInv
  BY DEF Init, HandInv, LeaseHasToken, TasksOK, TaskOK, ThreadsActive, NoThreads, Idle, Task

LEMMA SetRunHasToken ==
  ASSUME RunTypeOK, LeaseHasToken, NEW f, NEW r, NEW s, SetRunIf(f, r, s)
  PROVE  LeaseHasToken'
  BY DEF RunTypeOK, LeaseHasToken, SetRunIf, SetRun, runVars

LEMMA NextHasToken == LeaseInv /\ LeaseHasToken /\ [Next]_vars => LeaseHasToken'
<1> SUFFICES ASSUME LeaseInv, LeaseHasToken, [Next]_vars PROVE LeaseHasToken'
  OBVIOUS
<1> USE DEF LeaseInv, TypeOK
<1>1. CASE UNCHANGED <<lease, runToken>>
  BY <1>1 DEF LeaseHasToken
<1>2. ASSUME NEW a \in Agents, AgentNext(a) PROVE LeaseHasToken'
  <2>1. CASE \E f, r, s : SetRunIf(f, r, s)
    BY <2>1, SetRunHasToken
  <2>2. CASE \E r, s : SetRun(r, s)
    <3>1. PICK r, s : SetRun(r, s)
      BY <2>2
    <3>2. SetRunIf(TRUE, r, s)
      BY <3>1 DEF SetRunIf
    <3> QED BY <3>2, SetRunHasToken
  <2>3. CASE \/ Recover(a) \/ Continue(a) \/ CrashInEnsureCheckpoints(a) \/ AgentCrash(a)
    BY <1>1, <2>1, <2>2, <2>3
    DEF Recover, Continue, EnsureCheckpoints, CrashInEnsureCheckpoints,
      QueuePrepared, FinalizeCheckpoints, FinalizeCancelledRun, RecoverPreparing,
      ListExpired, ResetExpiredCheckpoints, RequeueExpired, ListOrphan,
      ResetOrphanCheckpoints, RequeueOrphan, RecoverCancelRequested, AgentCrash, runVars
  <2> QED
    BY <1>1, <1>2, <2>2, <2>3 DEF AgentNext, EnqueueSnapshotBatch, RequestExecutionCancel,
      ResumeExecution, FailPreparing, runVars
<1>3. ASSUME NEW w \in Workers, WorkerStep(w) \/ Heartbeat(w) \/ WorkerFault(w)
      PROVE  LeaseHasToken'
  <2>1. ASSUME NEW r \in Runs, ClaimNextExecution(w, r) PROVE LeaseHasToken'
    BY <2>1 DEF ClaimNextExecution, LeaseHasToken, RunTypeOK
  <2>2. CASE \E f, r, s : SetRunIf(f, r, s)
    BY <2>2, SetRunHasToken
  <2>3. CASE StartRun(w) \/ Heartbeat(w)
    <3>1. pc[w] # "idle" /\ runToken' = runToken
      BY <2>3 DEF StartRun, Heartbeat, InExecuteRun
    <3>2. CanRenew(w) => job[w] \in Runs /\ runToken[job[w]] # 0
      BY <3>1 DEF CanRenew, HoldsLease, ClaimsOK, WorkerTypeOK, RunTypeOK
    <3>3. lease' = lease \/ (CanRenew(w) /\ lease' = [lease EXCEPT ![job[w]] = "live"])
      BY <2>3 DEF StartRun, Heartbeat
    <3> QED BY <3>1, <3>2, <3>3 DEF LeaseHasToken, RunTypeOK
  <2>4. CASE \E c \in Checkpoints : Submit(w, c) \/ ThreadStep(w, c) \/ AuthFailure(w, c)
                                    \/ MarkFutureFailure(w, c)
    BY <1>1, <2>4
    DEF Submit, ThreadStep, ClaimCheckpoint, CheckExistingResult, SnapshotNotFound,
        FinishBlocked, Permit, Replay, RecordExecutionResult, FinishRecorded, AuthFailure,
        MarkFutureFailure, runVars
  <2>5. CASE PauseClaimedRun(w) \/ ReturnFromRun(w) \/ HandleDispatchFailure(w)
    BY <2>2, <2>5 DEF PauseClaimedRun, ReturnFromRun, HandleDispatchFailure
  <2> QED
    BY <1>1, <1>3, <2>1, <2>3, <2>4, <2>5
    DEF WorkerStep, WorkerFault, ListPending, NoticeCancel, LeaveStopping, LeavePaused,
        LeaveCancelled, LeaveDone, ReleaseAfterFailure, Restart, RunFails, Crash, Stop, runVars
<1>4. ASSUME NEW r \in Runs, ExpireLease(r) PROVE LeaseHasToken'
  BY <1>4 DEF ExpireLease, LeaseHasToken, RunTypeOK
<1> QED BY <1>1, <1>2, <1>3, <1>4 DEF Next, vars, runVars

\* A worker that runs or waits for its pool is the only one with threads.
LEMMA WorkerActive ==
  ASSUME LeaseInv, SendInv, ThreadsActive, NEW w \in Workers,
         WorkerStep(w) \/ Heartbeat(w) \/ WorkerFault(w)
  PROVE  ThreadsActive'
<1> USE DEF LeaseInv, TypeOK, WorkerTypeOK
<1>1. CASE \E r \in Runs : ClaimNextExecution(w, r)
  BY <1>1 DEF ClaimNextExecution, Goto, ThreadsActive
<1>2. CASE \A r \in Runs : ~ClaimNextExecution(w, r)
  <2>1. OtherWorkers(w)
    BY <1>2, WorkerFrame
  <2>2. (\A c \in Checkpoints : thread'[w][c] # "none" => pc'[w] \in {"running", "failing"})
        => ThreadsActive'
    BY <2>1 DEF OtherWorkers, ThreadsActive
  <2>3. CASE Return(w)
    BY <2>2, <2>3 DEF Return, NoThreads
  <2>4. CASE UNCHANGED <<pc, thread>>
    BY <2>4 DEF ThreadsActive
  <2>5. CASE StartRun(w) \/ ListPending(w) \/ RunFails(w)
    BY <2>2, <2>3, <2>5 DEF StartRun, ListPending, RunFails, Goto, ThreadsActive, Quiet, NoThreads
  <2>6. CASE \/ LeaveStopping(w) \/ LeavePaused(w) \/ LeaveCancelled(w) \/ LeaveDone(w)
             \/ ReleaseAfterFailure(w)
    <3>1. Quiet(w) /\ thread' = thread
      BY <2>6 DEF LeaveStopping, LeavePaused, LeaveCancelled, LeaveDone, ReleaseAfterFailure,
         LoopEnded
    <3> QED BY <2>2, <3>1 DEF Quiet, NoThreads
  <2>7. ASSUME NEW c \in Checkpoints, ThreadStep(w, c) \/ AuthFailure(w, c) \/ MarkFutureFailure(w, c)
        PROVE  ThreadsActive'
    <3>1. pc' = pc /\ thread[w][c] # "none" /\ \E s : SetThread(w, c, s)
      BY <2>7
      DEF ThreadStep, ClaimCheckpoint, CheckExistingResult, SnapshotNotFound, FinishBlocked,
          Permit, Replay, RecordExecutionResult, FinishRecorded, AuthFailure,
          MarkFutureFailure, Outcomes
    <3> QED BY <2>2, <3>1 DEF SetThread, ThreadsActive
  <2>8. ASSUME NEW c \in Checkpoints, Submit(w, c) PROVE ThreadsActive'
    BY <2>2, <2>8 DEF Submit, SetThread, ThreadsActive
  <2>9. CASE PauseClaimedRun(w) \/ ReturnFromRun(w) \/ HandleDispatchFailure(w) \/ Crash(w)
    BY <2>3, <2>9 DEF PauseClaimedRun, ReturnFromRun, HandleDispatchFailure, Crash
  <2> QED
    BY <1>2, <2>4, <2>5, <2>6, <2>7, <2>8, <2>9
    DEF WorkerStep, WorkerFault, NoticeCancel, Heartbeat, Restart, Stop
<1> QED BY <1>1, <1>2

\* No checkpoint vanishes, and none starts running.
Calm == \A c \in Checkpoints :
           /\ ckStatus'[c] = "absent" => ckStatus[c] = "absent"
           /\ ckStatus'[c] = "running" => ckStatus[c] = "running" /\ ckToken'[c] = ckToken[c]

LEMMA SetCheckpointsCalm ==
  ASSUME NEW S, NEW s, s \notin {"absent", "running"}, SetCheckpoints(S, s) PROVE Calm
  BY DEF SetCheckpoints, Calm

LEMMA FinishCalm ==
  ASSUME NEW w, NEW c, NEW s, s \notin {"absent", "running"}, FinishCheckpoint(w, c, s)
  PROVE  Calm
  BY SetCheckpointsCalm DEF FinishCheckpoint, Calm, ckVars

LEMMA AgentCalm == ASSUME NEW a, AgentNext(a) PROVE Calm
<1>1. CASE UNCHANGED ckVars
  BY <1>1 DEF ckVars, Calm
<1>2. CASE \/ EnsureCheckpoints(a) \/ CrashInEnsureCheckpoints(a) \/ FinalizeCheckpoints(a)
           \/ ResetExpiredCheckpoints(a) \/ ResetOrphanCheckpoints(a)
  BY <1>2, SetCheckpointsCalm
  DEF EnsureCheckpoints, CrashInEnsureCheckpoints, FinalizeCheckpoints,
      ResetExpiredCheckpoints, ResetOrphanCheckpoints
<1> QED
  BY <1>1, <1>2, AgentNext(a)
  DEF AgentNext, Recover, Continue, EnqueueSnapshotBatch, QueuePrepared,
      RequestExecutionCancel, FinalizeCancelledRun, ResumeExecution, RecoverPreparing,
      FailPreparing, ListExpired, RequeueExpired, ListOrphan, RequeueOrphan,
      RecoverCancelRequested, AgentCrash

LEMMA WorkerCalm ==
  ASSUME NEW w, WorkerStep(w) \/ Heartbeat(w) \/ WorkerFault(w),
         \A c \in Checkpoints : ~ClaimCheckpoint(w, c)
  PROVE  Calm
<1>1. CASE UNCHANGED ckVars
  BY <1>1 DEF ckVars, Calm
<1>2. ASSUME NEW c \in Checkpoints,
             \/ CheckExistingResult(w, c) \/ SnapshotNotFound(w, c) \/ FinishBlocked(w, c)
             \/ AuthFailure(w, c) \/ FinishRecorded(w, c) \/ MarkFutureFailure(w, c)
      PROVE  Calm
  BY <1>1, <1>2, FinishCalm
  DEF CheckExistingResult, SnapshotNotFound, FinishBlocked, AuthFailure, FinishRecorded,
      MarkFutureFailure
<1>3. CASE \/ LeaveStopping(w) \/ LeavePaused(w) \/ LeaveCancelled(w) \/ ReleaseAfterFailure(w)
  BY <1>3, SetCheckpointsCalm
  DEF LeaveStopping, LeavePaused, LeaveCancelled, ReleaseAfterFailure, ReleaseCheckpoints
<1> QED
  BY <1>1, <1>2, <1>3
  DEF WorkerStep, ThreadStep, WorkerFault, StartRun, ListPending, Heartbeat, NoticeCancel,
      LeaveDone, ReturnFromRun, HandleDispatchFailure, Restart, ClaimNextExecution, Submit,
      Permit, Replay, RecordExecutionResult, PauseClaimedRun, RunFails, Crash, Stop

\* A task stays true to what it read: nothing vanishes, and dispatches count up.
LEMMA TaskStays ==
  ASSUME LeaseInv, NEW t, TaskOK(t), t \in [kind : TaskKinds, run : Runs \cup {NoRun}, token : Nat],
         \A c \in Checkpoints : ckStatus'[c] = "absent" => ckStatus[c] = "absent",
         \A r \in Runs : dispatch'[r] \in Nat /\ dispatch[r] <= dispatch'[r]
  PROVE  TaskOK(t)'
<1>1. t.kind # "idle" => t.run \in Runs
  BY DEF TaskOK
<1>2. t.kind = "queue" => NoneIn(t.run, {"absent"})'
  BY DEF TaskOK, NoneIn, CheckpointsOf
<1>3. ASSUME t.kind \in {"expired", "requeue"} PROVE t.token \in 1 .. dispatch'[t.run]
  <2>1. t.run \in Runs /\ t.token \in 1 .. dispatch[t.run]
    BY <1>1, <1>3 DEF TaskOK
  <2>2. dispatch'[t.run] \in Nat /\ dispatch[t.run] <= dispatch'[t.run] /\ dispatch[t.run] \in Nat
    BY <2>1 DEF LeaseInv, TypeOK, RunTypeOK
  <2> QED BY <2>1, <2>2
<1> QED BY <1>1, <1>2, <1>3 DEF TaskOK

LEMMA NextTasks ==
  ASSUME LeaseInv, SendInv, HandInv, [Next]_vars PROVE TasksOK'
<1> USE DEF LeaseInv, TypeOK, HandInv
<1>1. \A c \in Checkpoints : ckStatus'[c] = "absent" => ckStatus[c] = "absent"
  <2>1. Calm => \A c \in Checkpoints : ckStatus'[c] = "absent" => ckStatus[c] = "absent"
    BY DEF Calm
  <2>2. ASSUME NEW w \in Workers, NEW d \in Checkpoints, ClaimCheckpoint(w, d)
        PROVE  \A c \in Checkpoints : ckStatus'[c] = "absent" => ckStatus[c] = "absent"
    BY <2>2 DEF ClaimCheckpoint, CheckpointTypeOK, ckVars
  <2>3. CASE UNCHANGED ckVars
    BY <2>3 DEF ckVars
  <2> QED BY <2>1, <2>2, <2>3, AgentCalm, WorkerCalm DEF Next, ExpireLease, vars
<1>2. \A r \in Runs : dispatch'[r] \in Nat /\ dispatch[r] <= dispatch'[r]
  <2>1. CASE dispatch' = dispatch
    BY <2>1 DEF RunTypeOK
  <2>2. ASSUME NEW w \in Workers, NEW r \in Runs, ClaimNextExecution(w, r)
        PROVE  \A q \in Runs : dispatch'[q] \in Nat /\ dispatch[q] <= dispatch'[q]
    BY <2>2 DEF ClaimNextExecution, RunTypeOK
  <2>3. ASSUME NEW a \in Agents, AgentNext(a) PROVE dispatch' = dispatch
    BY <2>3
    DEF AgentNext, Recover, Continue, SetRun, SetRunIf, runVars, EnqueueSnapshotBatch,
        EnsureCheckpoints, CrashInEnsureCheckpoints, QueuePrepared, RequestExecutionCancel,
        FinalizeCheckpoints, FinalizeCancelledRun, ResumeExecution, RecoverPreparing,
        FailPreparing, ListExpired, ResetExpiredCheckpoints, RequeueExpired, ListOrphan,
        ResetOrphanCheckpoints, RequeueOrphan, RecoverCancelRequested, AgentCrash
  <2>4. ASSUME NEW w \in Workers, NEW c \in Checkpoints,
               Submit(w, c) \/ ThreadStep(w, c) \/ AuthFailure(w, c) \/ MarkFutureFailure(w, c)
        PROVE  dispatch' = dispatch
    BY <2>4
    DEF Submit, ThreadStep, ClaimCheckpoint, CheckExistingResult, SnapshotNotFound,
        FinishBlocked, Permit, Replay, RecordExecutionResult, FinishRecorded, AuthFailure,
        MarkFutureFailure, runVars
  <2>5. ASSUME NEW w \in Workers,
               \/ PauseClaimedRun(w) \/ ReturnFromRun(w) \/ HandleDispatchFailure(w)
               \/ StartRun(w) \/ Heartbeat(w)
        PROVE  dispatch' = dispatch
    BY <2>5 DEF PauseClaimedRun, ReturnFromRun, HandleDispatchFailure, SetRunIf, SetRun, runVars,
       StartRun, Heartbeat
  <2> QED
    BY <2>1, <2>2, <2>3, <2>4, <2>5
    DEF Next, WorkerStep, WorkerFault, ListPending, NoticeCancel,
        LeaveStopping, LeavePaused, LeaveCancelled, LeaveDone, ReleaseAfterFailure, Restart,
        RunFails, Crash, Stop, ExpireLease, runVars, vars
<1>3. ASSUME NEW a \in Agents PROVE TaskOK(task[a]) /\ task[a] \in [kind : TaskKinds, run : Runs \cup {NoRun}, token : Nat]
  BY DEF TasksOK, TaskTypeOK
<1>4. \A a \in Agents : TaskOK(task[a]) => \A t : t = task[a] => TaskOK(t)'
  BY <1>1, <1>2, <1>3, TaskStays
<1>5. CASE task' = task
  BY <1>3, <1>4, <1>5 DEF TasksOK, TaskOK, NoneIn
<1>6. ASSUME NEW a \in Agents, AgentNext(a) PROVE TasksOK'
  <2>1. ASSUME NEW t, TaskOK(t)', task' = [task EXCEPT ![a] = t] PROVE TasksOK'
    <3>1. \A b \in Agents : task'[b] = IF b = a THEN t ELSE task[b]
      BY <2>1 DEF TaskTypeOK
    <3> QED BY <1>3, <1>4, <2>1, <3>1 DEF TasksOK, TaskOK, NoneIn
  <2>2. CASE Done(a)
    <3>1. TaskOK(Idle)'
      BY DEF TaskOK, Idle, Task
    <3> QED BY <2>1, <2>2, <3>1 DEF Done
  <2>3. ASSUME NEW r \in Runs, NEW k \in {"prepare", "cancel", "cancelRun"}, SetTask(a, k, r, 0) PROVE TasksOK'
    <3>1. TaskOK(Task(k, r, 0))'
      BY <2>3 DEF TaskOK, Task
    <3> QED BY <2>1, <2>3, <3>1 DEF SetTask
  <2>4. CASE EnsureCheckpoints(a)
    <3>1. PICK r \in Runs : r = task[a].run
      BY <1>3, <2>4 DEF EnsureCheckpoints, Doing, TaskOK
    <3>2. NoneIn(r, {"absent"})'
      BY <2>4, <3>1 DEF EnsureCheckpoints, SetCheckpoints, NoneIn, CheckpointsOf
    <3>3. TaskOK(Task("queue", r, 0))'
      BY <3>2 DEF TaskOK, Task
    <3> QED BY <2>1, <2>4, <3>1, <3>3 DEF EnsureCheckpoints, SetTask
  <2>5. ASSUME NEW r \in Runs, ListExpired(a, r) PROVE TasksOK'
    <3>1. runToken[r] \in 1 .. dispatch[r]
      BY <2>5, LeaseParts DEF ListExpired, RunTokens, LeaseHasToken, RunTypeOK
    <3>2. dispatch' = dispatch
      BY <2>5 DEF ListExpired, runVars
    <3> PICK n : n = runToken[r]
      OBVIOUS
    <3>3. TaskOK(Task("expired", r, n))'
      BY <3>1, <3>2 DEF TaskOK, Task
    <3> QED BY <2>1, <2>5, <3>3 DEF ListExpired, SetTask
  <2>6. CASE ResetExpiredCheckpoints(a)
    <3> PICK r, n : r = task[a].run /\ n = task[a].token
      OBVIOUS
    <3>1. r \in Runs /\ n \in 1 .. dispatch[r]
      BY <1>3, <2>6 DEF ResetExpiredCheckpoints, Doing, TaskOK
    <3>2. dispatch' = dispatch
      BY <2>6 DEF ResetExpiredCheckpoints, runVars
    <3>3. TaskOK(Task("requeue", r, n))'
      BY <3>1, <3>2 DEF TaskOK, Task
    <3> QED BY <2>1, <2>6, <3>3 DEF ResetExpiredCheckpoints, SetTask
  <2>7. ASSUME NEW r \in Runs, ListOrphan(a, r) PROVE TasksOK'
    <3>1. r \in Orphans
      BY <2>7, LeaseParts DEF ListOrphan, RunTokens, LeaseHasToken, LeasedStatuses
    <3>2. TaskOK(Task("orphan", r, 0))'
      BY <3>1 DEF TaskOK, Task
    <3> QED BY <2>1, <2>7, <3>2 DEF ListOrphan, SetTask
  <2>8. CASE ResetOrphanCheckpoints(a)
    <3> PICK r : r = task[a].run
      OBVIOUS
    <3>1. r \in Runs /\ r \in Orphans
      BY <1>3, <2>8 DEF ResetOrphanCheckpoints, Doing, TaskOK
    <3>2. TaskOK(Task("requeueOrphan", r, 0))'
      BY <3>1 DEF TaskOK, Task
    <3> QED BY <2>1, <2>8, <3>2 DEF ResetOrphanCheckpoints, SetTask
  <2>9. CASE FinalizeCheckpoints(a)
    <3>1. task[a].run \in Runs
      BY <1>3, <2>9 DEF FinalizeCheckpoints, Doing, TaskOK
    <3> QED BY <2>3, <2>9, <3>1 DEF FinalizeCheckpoints
  <2>10. CASE \/ CrashInEnsureCheckpoints(a) \/ AgentCrash(a) \/ QueuePrepared(a)
              \/ FinalizeCancelledRun(a) \/ RequeueExpired(a) \/ RequeueOrphan(a)
    BY <2>2, <2>10 DEF CrashInEnsureCheckpoints, AgentCrash, QueuePrepared, FinalizeCancelledRun,
       RequeueExpired, RequeueOrphan
  <2>11. ASSUME NEW r \in Runs,
                \/ EnqueueSnapshotBatch(a, r) \/ RequestExecutionCancel(a, r)
                \/ RecoverPreparing(a, r) \/ RecoverCancelRequested(a, r)
         PROVE  TasksOK'
    BY <1>5, <2>3, <2>11 DEF EnqueueSnapshotBatch, RequestExecutionCancel, RecoverPreparing, RecoverCancelRequested
  <2>12. ASSUME NEW r \in Runs, ResumeExecution(a, r) \/ FailPreparing(a, r) PROVE TasksOK'
    BY <1>5, <2>12 DEF ResumeExecution, FailPreparing
  <2> QED
    BY <1>6, <2>4, <2>5, <2>6, <2>7, <2>8, <2>9, <2>10, <2>11, <2>12
    DEF AgentNext, Recover, Continue
<1>7. ASSUME NEW w \in Workers, WorkerStep(w) \/ Heartbeat(w) \/ WorkerFault(w)
      PROVE  task' = task
  <2>1. ASSUME NEW c \in Checkpoints,
               Submit(w, c) \/ ThreadStep(w, c) \/ AuthFailure(w, c) \/ MarkFutureFailure(w, c)
        PROVE  task' = task
    BY <2>1
    DEF Submit, ThreadStep, ClaimCheckpoint, CheckExistingResult, SnapshotNotFound,
        FinishBlocked, Permit, Replay, RecordExecutionResult, FinishRecorded, AuthFailure,
        MarkFutureFailure
  <2> QED
    BY <1>7, <2>1
    DEF WorkerStep, WorkerFault, StartRun, ListPending, Heartbeat, NoticeCancel,
        LeaveStopping, LeavePaused, LeaveCancelled, LeaveDone, ReturnFromRun,
        ReleaseAfterFailure, HandleDispatchFailure, Restart, ClaimNextExecution,
        PauseClaimedRun, RunFails, Crash, Stop
<1> QED BY <1>5, <1>6, <1>7 DEF Next, ExpireLease, vars

LEMMA AgentKeepsWorkers ==
  ASSUME NEW a, AgentNext(a)
  PROVE  UNCHANGED <<workerVars, results, slipped, dropped, sends, dispatch>>
  BY AgentNext(a)
  DEF AgentNext, Recover, Continue, SetRun, SetRunIf, runVars, ghostVars,
      EnqueueSnapshotBatch, EnsureCheckpoints, CrashInEnsureCheckpoints, QueuePrepared,
      RequestExecutionCancel, FinalizeCheckpoints, FinalizeCancelledRun, ResumeExecution,
      RecoverPreparing, FailPreparing, ListExpired, ResetExpiredCheckpoints, RequeueExpired,
      ListOrphan, ResetOrphanCheckpoints, RequeueOrphan, RecoverCancelRequested, AgentCrash

LEMMA WorkerKeepsTasks ==
  ASSUME NEW w, WorkerStep(w) \/ Heartbeat(w) \/ WorkerFault(w)
  PROVE  task' = task /\ slipped' = slipped
<1>1. ASSUME NEW c \in Checkpoints,
             Submit(w, c) \/ ThreadStep(w, c) \/ AuthFailure(w, c) \/ MarkFutureFailure(w, c)
      PROVE  task' = task /\ slipped' = slipped
  BY <1>1
  DEF Submit, ThreadStep, ClaimCheckpoint, CheckExistingResult, SnapshotNotFound,
      FinishBlocked, Permit, Replay, RecordExecutionResult, FinishRecorded, AuthFailure,
      MarkFutureFailure, ghostVars
<1> QED
  BY <1>1
  DEF WorkerStep, WorkerFault, StartRun, ListPending, Heartbeat, NoticeCancel,
      LeaveStopping, LeavePaused, LeaveCancelled, LeaveDone, ReturnFromRun,
      ReleaseAfterFailure, HandleDispatchFailure, Restart, ClaimNextExecution,
      PauseClaimedRun, RunFails, Crash, Stop, ghostVars

LEMMA NextHand ==
  ASSUME LeaseInv, SendInv, HandInv, [Next]_vars PROVE HandInv'
<1>1. LeaseHasToken'
  BY NextHasToken DEF HandInv
<1>2. TasksOK'
  BY NextTasks
<1>3. ThreadsActive'
  <2>1. CASE UNCHANGED <<pc, thread>>
    BY <2>1 DEF HandInv, ThreadsActive
  <2>2. ASSUME NEW w \in Workers, WorkerStep(w) \/ Heartbeat(w) \/ WorkerFault(w)
        PROVE  ThreadsActive'
    BY <2>2, WorkerActive DEF HandInv
  <2>3. ASSUME NEW a \in Agents, AgentNext(a) PROVE ThreadsActive'
    BY <2>1, <2>3, AgentKeepsWorkers DEF workerVars
  <2> QED BY <2>1, <2>2, <2>3 DEF Next, ExpireLease, vars, workerVars
<1> QED BY <1>1, <1>2, <1>3 DEF HandInv

-----------------------------------------------------------------------------
(* A dispatch that recovery found expired stays expired until it is        *)
(* requeued: nobody is left to renew it.                                   *)

ExpiredTask(t) == /\ t.kind \in {"expired", "requeue"}
                  /\ runToken[t.run] = t.token
ExpiryInv == ~slipped => \A a \in Agents : ExpiredTask(task[a]) => lease[task[a].run] = "expired"

\* A lease that expired is only renewed under a new token.
LeaseStays(r) == \/ runToken'[r] = runToken[r] /\ (lease[r] = "expired" => lease'[r] = "expired")
                 \/ runToken'[r] = 0
                 \/ runToken'[r] > dispatch[r]

LEMMA SetRunLeaseStays ==
  ASSUME RunTypeOK, NEW f, NEW r, NEW s, SetRunIf(f, r, s) PROVE \A q \in Runs : LeaseStays(q)
  BY DEF RunTypeOK, SetRunIf, SetRun, runVars, LeaseStays

LEMMA NextLeaseStays ==
  ASSUME LeaseInv, ExecInv, ~slipped, [Next]_vars, NEW r \in Runs PROVE LeaseStays(r)
<1> USE DEF LeaseInv, TypeOK
<1>1. CASE UNCHANGED <<lease, runToken>>
  BY <1>1 DEF LeaseStays
<1>2. ASSUME NEW f, NEW q, NEW s, SetRunIf(f, q, s) PROVE LeaseStays(r)
  BY <1>2, SetRunLeaseStays
<1>3. ASSUME NEW q, NEW s, SetRun(q, s) PROVE LeaseStays(r)
  <2>1. SetRunIf(TRUE, q, s)
    BY <1>3 DEF SetRunIf
  <2> QED BY <2>1, <1>2
<1>4. ASSUME NEW a \in Agents, AgentNext(a) PROVE LeaseStays(r)
  <2>1. CASE \/ Recover(a) \/ Continue(a) \/ CrashInEnsureCheckpoints(a) \/ AgentCrash(a)
    BY <1>1, <1>2, <1>3, <2>1
    DEF Recover, Continue, EnsureCheckpoints, CrashInEnsureCheckpoints,
        QueuePrepared, FinalizeCheckpoints, FinalizeCancelledRun, RecoverPreparing,
        ListExpired, ResetExpiredCheckpoints, RequeueExpired, ListOrphan,
        ResetOrphanCheckpoints, RequeueOrphan, RecoverCancelRequested, AgentCrash, runVars
  <2> QED
    BY <1>1, <1>3, <1>4, <2>1 DEF AgentNext, EnqueueSnapshotBatch, RequestExecutionCancel,
       ResumeExecution, FailPreparing, runVars
<1>5. ASSUME NEW w \in Workers, WorkerStep(w) \/ Heartbeat(w) \/ WorkerFault(w)
      PROVE  LeaseStays(r)
  <2>1. ASSUME NEW q \in Runs, ClaimNextExecution(w, q) PROVE LeaseStays(r)
    BY <2>1 DEF ClaimNextExecution, LeaseStays, RunTypeOK
  <2>2. CASE PauseClaimedRun(w) \/ ReturnFromRun(w) \/ HandleDispatchFailure(w)
    BY <1>2, <2>2 DEF PauseClaimedRun, ReturnFromRun, HandleDispatchFailure
  <2>3. CASE StartRun(w) \/ Heartbeat(w)
    <3>1. pc[w] # "idle" /\ runToken' = runToken
      BY <2>3 DEF StartRun, Heartbeat, InExecuteRun
    <3>2. CanRenew(w) => lease[job[w]] = "live"
      BY <3>1 DEF CanRenew, ClaimsOK, ExecInv, Secured, FINAL_RUN_STATUSES, LeasedStatuses
    <3>3. lease' = lease \/ (CanRenew(w) /\ lease' = [lease EXCEPT ![job[w]] = "live"])
      BY <2>3 DEF StartRun, Heartbeat
    <3> QED BY <3>1, <3>2, <3>3 DEF LeaseStays, RunTypeOK
  <2>4. CASE \E c \in Checkpoints : Submit(w, c) \/ ThreadStep(w, c) \/ AuthFailure(w, c)
                                    \/ MarkFutureFailure(w, c)
    BY <1>1, <2>4
    DEF Submit, ThreadStep, ClaimCheckpoint, CheckExistingResult, SnapshotNotFound,
        FinishBlocked, Permit, Replay, RecordExecutionResult, FinishRecorded, AuthFailure,
        MarkFutureFailure, runVars
  <2> QED
    BY <1>1, <1>5, <2>1, <2>2, <2>3, <2>4
    DEF WorkerStep, WorkerFault, ListPending, NoticeCancel, LeaveStopping, LeavePaused,
        LeaveCancelled, LeaveDone, ReleaseAfterFailure, Restart, RunFails, Crash, Stop, runVars
<1>6. ASSUME NEW q \in Runs, ExpireLease(q) PROVE LeaseStays(r)
  BY <1>6 DEF ExpireLease, LeaseStays, RunTypeOK
<1> QED BY <1>1, <1>4, <1>5, <1>6 DEF Next, vars, runVars

LEMMA SlippedStays == [Next]_vars /\ TypeOK /\ slipped => slipped'
<1> SUFFICES ASSUME [Next]_vars, TypeOK, slipped PROVE slipped'
  OBVIOUS
<1>1. ASSUME NEW r \in Runs, ExpireLease(r) PROVE slipped'
  BY <1>1 DEF ExpireLease
<1> QED BY <1>1, AgentKeepsWorkers, WorkerKeepsTasks DEF Next, vars, ghostVars

LEMMA NextExpiry ==
  ASSUME LeaseInv, ExecInv, HandInv, ExpiryInv, [Next]_vars PROVE ExpiryInv'
<1> SUFFICES ASSUME ~slipped', NEW a \in Agents, ExpiredTask(task[a])'
             PROVE  lease'[task'[a].run] = "expired"
  BY DEF ExpiryInv
<1>1. ~slipped
  BY SlippedStays DEF LeaseInv
<1>2. \A r \in Runs : LeaseStays(r)
  BY <1>1, NextLeaseStays
<1>3. ASSUME task'[a] = task[a] \/ (task[a].kind = "expired" /\ task'[a].run = task[a].run
                                      /\ task'[a].token = task[a].token)
      PROVE  lease'[task'[a].run] = "expired"
  <2>1. /\ task[a].kind \in {"expired", "requeue"} /\ task'[a].run = task[a].run
        /\ task'[a].token = task[a].token /\ runToken'[task[a].run] = task[a].token
    BY <1>3 DEF ExpiredTask
  <2>2. task[a].run \in Runs /\ task[a].token \in 1 .. dispatch[task[a].run]
    BY <2>1 DEF HandInv, TasksOK, TaskOK
  <2>3. runToken'[task[a].run] # 0 /\ ~(runToken'[task[a].run] > dispatch[task[a].run])
    BY <2>1, <2>2 DEF LeaseInv, TypeOK, RunTypeOK
  <2>4. LeaseStays(task[a].run)
    BY <1>2, <2>2
  <2>5. runToken'[task[a].run] = runToken[task[a].run]
    BY <2>3, <2>4 DEF LeaseStays
  <2>6. lease[task[a].run] = "expired"
    BY <1>1, <2>1, <2>5 DEF ExpiryInv, ExpiredTask
  <2> QED BY <2>1, <2>3, <2>4, <2>6 DEF LeaseStays
<1>4. ASSUME NEW r \in Runs, ListExpired(a, r) PROVE lease'[task'[a].run] = "expired"
  BY <1>4 DEF ListExpired, SetTask, Task, LeaseInv, TypeOK, TaskTypeOK, runVars
<1>5. CASE ResetExpiredCheckpoints(a)
  BY <1>3, <1>5 DEF ResetExpiredCheckpoints, SetTask, Task, Doing, LeaseInv, TypeOK, TaskTypeOK
<1>6. CASE task'[a].kind \notin {"expired", "requeue"}
  BY <1>6 DEF ExpiredTask
<1>7. CASE task'[a] = task[a]
  BY <1>3, <1>7
<1>8. CASE AgentNext(a)
  <2>1. ASSUME NEW k, NEW r, NEW t, k \notin {"expired", "requeue"}, SetTask(a, k, r, t)
        PROVE  task'[a].kind \notin {"expired", "requeue"}
    BY <2>1 DEF SetTask, Task, LeaseInv, TypeOK, TaskTypeOK
  <2>2. Done(a) => task'[a].kind \notin {"expired", "requeue"}
    BY DEF Done, Idle, Task, LeaseInv, TypeOK, TaskTypeOK
  <2>3. CASE \/ EnsureCheckpoints(a) \/ FinalizeCheckpoints(a) \/ ResetOrphanCheckpoints(a)
             \/ \E r \in Runs : \/ EnqueueSnapshotBatch(a, r) \/ RequestExecutionCancel(a, r)
                                \/ RecoverPreparing(a, r) \/ ListOrphan(a, r)
                                \/ RecoverCancelRequested(a, r)
    BY <1>6, <1>7, <2>1, <2>3
    DEF EnsureCheckpoints, FinalizeCheckpoints, ResetOrphanCheckpoints, EnqueueSnapshotBatch,
        RequestExecutionCancel, RecoverPreparing, ListOrphan, RecoverCancelRequested
  <2>4. CASE \/ CrashInEnsureCheckpoints(a) \/ AgentCrash(a) \/ QueuePrepared(a)
             \/ FinalizeCancelledRun(a) \/ RequeueExpired(a) \/ RequeueOrphan(a)
    BY <1>6, <2>2, <2>4 DEF CrashInEnsureCheckpoints, AgentCrash, QueuePrepared,
       FinalizeCancelledRun, RequeueExpired, RequeueOrphan
  <2>5. CASE \E r \in Runs : ResumeExecution(a, r) \/ FailPreparing(a, r)
    BY <1>7, <2>5 DEF ResumeExecution, FailPreparing
  <2> QED
    BY <1>4, <1>5, <1>8, <2>3, <2>4, <2>5 DEF AgentNext, Recover, Continue
<1>9. ASSUME NEW b \in Agents, b # a, AgentNext(b) PROVE task'[a] = task[a]
  BY <1>9 DEF AgentNext, Recover, Continue, SetTask, Done, LeaseInv, TypeOK, TaskTypeOK,
      EnqueueSnapshotBatch, EnsureCheckpoints, CrashInEnsureCheckpoints, QueuePrepared,
      RequestExecutionCancel, FinalizeCheckpoints, FinalizeCancelledRun, ResumeExecution,
      RecoverPreparing, FailPreparing, ListExpired, ResetExpiredCheckpoints, RequeueExpired,
      ListOrphan, ResetOrphanCheckpoints, RequeueOrphan, RecoverCancelRequested, AgentCrash
<1> QED BY <1>7, <1>8, <1>9, WorkerKeepsTasks DEF Next, ExpireLease, vars

-----------------------------------------------------------------------------
(* Results.  A checkpoint becomes done only from a recorded result; and    *)
(* while no worker has outlived its lease, nobody else writes the result a *)
(* pool thread looked up before it sent.                                   *)

ResultsBacked ==
    /\ \A w \in Workers : \A c \in Checkpoints :
          thread[w][c] \in {"recorded_ok", "recorded_err"} => results[c] # "none"
    /\ \A c \in Checkpoints : ckStatus[c] = "done" => results[c] # "none"

ThreadAgrees(w, c) ==
    /\ thread[w][c] \in {"checked", "permitted", "ok", "err"} => results[c] = "none"
    /\ thread[w][c] = "recorded_ok" => results[c] = "ok"
ResultsAgree ==
    /\ \A w \in Workers : \A c \in Checkpoints : ThreadAgrees(w, c)
    /\ \A c \in Checkpoints : ckStatus[c] = "done" => results[c] = "ok"

ResultInv == ResultsBacked /\ (~slipped => ResultsAgree)

NoNewDone == \A c \in Checkpoints : ckStatus'[c] = "done" => ckStatus[c] = "done"

LEMMA SetCheckpointsNoDone ==
  ASSUME NEW S, NEW s, s # "done", SetCheckpoints(S, s) PROVE NoNewDone
  BY DEF SetCheckpoints, NoNewDone

LEMMA FinishNoDone ==
  ASSUME NEW w, NEW c, NEW s, s # "done", FinishCheckpoint(w, c, s) PROVE NoNewDone
  BY SetCheckpointsNoDone DEF FinishCheckpoint, NoNewDone, ckVars

LEMMA FinishDone ==
  ASSUME NEW w, NEW c, NEW s, FinishCheckpoint(w, c, s)
  PROVE  \A d \in Checkpoints : ckStatus'[d] = "done" => ckStatus[d] = "done" \/ (d = c /\ s = "done")
  BY DEF FinishCheckpoint, SetCheckpoints, ckVars

LEMMA InitResults == Init => ResultInv
  BY DEF Init, ResultInv, ResultsBacked, ResultsAgree, ThreadAgrees, NoThreads

\* Every thread keeps its place, or starts over.
LEMMA SameResults ==
  ASSUME ResultInv, results' = results, NoNewDone, slipped => slipped',
         \A w \in Workers, c \in Checkpoints :
            thread'[w][c] = thread[w][c] \/ thread'[w][c] \in {"none", "submitted", "claimed"}
  PROVE  ResultInv'
  BY DEF ResultInv, ResultsBacked, ResultsAgree, ThreadAgrees, NoNewDone

\* The thread of w moves at c, and c may become done under its result.
LEMMA MoveResults ==
  ASSUME ResultInv, results' = results, slipped' = slipped, NEW w \in Workers,
         NEW c \in Checkpoints,
         \A v \in Workers, d \in Checkpoints : v # w \/ d # c => thread'[v][d] = thread[v][d],
         thread'[w][c] \notin {"recorded_ok", "recorded_err"},
         ~slipped /\ thread'[w][c] \in {"checked", "permitted", "ok", "err"} => results[c] = "none",
         \A d \in Checkpoints : ckStatus'[d] = "done" =>
            \/ ckStatus[d] = "done"
            \/ d = c /\ results[c] # "none" /\ (~slipped => results[c] = "ok")
  PROVE  ResultInv'
<1>1. ResultsBacked'
  BY DEF ResultInv, ResultsBacked
<1>2. ASSUME ~slipped PROVE ResultsAgree'
  <2>1. ASSUME NEW v \in Workers, NEW d \in Checkpoints PROVE ThreadAgrees(v, d)'
    <3>1. CASE v = w /\ d = c
      BY <1>2, <3>1 DEF ThreadAgrees
    <3>2. CASE v # w \/ d # c
      <4>1. ThreadAgrees(v, d)
        BY <1>2 DEF ResultInv, ResultsAgree
      <4>2. thread'[v][d] = thread[v][d]
        BY <3>2
      <4> QED BY <4>1, <4>2 DEF ThreadAgrees
    <3> QED BY <3>1, <3>2
  <2>2. \A d \in Checkpoints : ckStatus'[d] = "done" => results'[d] = "ok"
    BY <1>2 DEF ResultInv, ResultsAgree
  <2> QED BY <2>1, <2>2 DEF ResultsAgree
<1> QED BY <1>1, <1>2 DEF ResultInv

LEMMA ThreadResults ==
  ASSUME LeaseInv, ExecInv, SendInv, ResultInv, NEW w \in Workers, NEW c \in Checkpoints,
         ThreadStep(w, c) \/ AuthFailure(w, c) \/ MarkFutureFailure(w, c)
  PROVE  ResultInv'
<1> USE DEF LeaseInv, TypeOK, WorkerTypeOK
<1>0. slipped' = slipped
  BY DEF ThreadStep, ClaimCheckpoint, CheckExistingResult, SnapshotNotFound,
      FinishBlocked, Permit, Replay, RecordExecutionResult, FinishRecorded, AuthFailure,
      MarkFutureFailure, ghostVars
<1>1. ASSUME NEW s, SetThread(w, c, s), s \in {"none", "claimed"}, NoNewDone, results' = results
      PROVE  ResultInv'
  <2>1. \A v \in Workers, d \in Checkpoints :
            thread'[v][d] = thread[v][d] \/ thread'[v][d] \in {"none", "submitted", "claimed"}
    BY <1>1 DEF SetThread
  <2> QED BY <1>0, <1>1, <2>1, SameResults
<1>2. CASE ClaimCheckpoint(w, c)
  <2>1. NoNewDone /\ results' = results
    BY <1>2 DEF ClaimCheckpoint, NoNewDone, CheckpointTypeOK, ckVars
  <2> QED BY <1>1, <1>2, <2>1 DEF ClaimCheckpoint
<1>3. CASE CheckExistingResult(w, c)
  <2>1. CASE results[c] = "none"
    <3>1. NoNewDone
      BY <1>3, <2>1 DEF CheckExistingResult, NoNewDone, ckVars
    <3>2. /\ thread'[w][c] = "checked" /\ results' = results
          /\ \A v \in Workers, d \in Checkpoints : v # w \/ d # c => thread'[v][d] = thread[v][d]
      BY <1>3, <2>1 DEF CheckExistingResult, SetThread
    <3> QED BY <1>0, <2>1, <3>1, <3>2, MoveResults DEF NoNewDone
  <2>2. CASE results[c] = "ok"
    <3>1. FinishCheckpoint(w, c, "done") /\ SetThread(w, c, "none") /\ results' = results
      BY <1>3, <2>2 DEF CheckExistingResult
    <3>2. \A d \in Checkpoints : ckStatus'[d] = "done" => ckStatus[d] = "done" \/ d = c
      BY <3>1, FinishDone
    <3>3. /\ thread'[w][c] = "none"
          /\ \A v \in Workers, d \in Checkpoints : v # w \/ d # c => thread'[v][d] = thread[v][d]
      BY <3>1 DEF SetThread
    <3> QED BY <1>0, <2>2, <3>1, <3>2, <3>3, MoveResults
  <2>3. CASE results[c] \notin {"none", "ok"}
    BY <1>1, <1>3, <2>3, FinishNoDone DEF CheckExistingResult
  <2> QED BY <2>1, <2>2, <2>3
<1>4. CASE SnapshotNotFound(w, c) \/ FinishBlocked(w, c) \/ AuthFailure(w, c)
  BY <1>1, <1>4, FinishNoDone DEF SnapshotNotFound, FinishBlocked, AuthFailure
<1>5. CASE MarkFutureFailure(w, c)
  <2>1. NoNewDone
    BY <1>5, FinishNoDone DEF MarkFutureFailure, NoNewDone, ckVars
  <2> QED BY <1>1, <1>5, <2>1 DEF MarkFutureFailure
<1>6. CASE Permit(w, c) \/ Replay(w, c)
  <2>1. NoNewDone /\ results' = results
    BY <1>6 DEF Permit, Replay, NoNewDone, ckVars
  <2>2. /\ thread[w][c] \in {"checked", "permitted"}
        /\ thread'[w][c] \in {"permitted", "ok", "err"}
        /\ \A v \in Workers, d \in Checkpoints : v # w \/ d # c => thread'[v][d] = thread[v][d]
    BY <1>6 DEF Permit, Replay, SetThread, Outcomes
  <2>3. ~slipped => results[c] = "none"
    BY <2>2 DEF ResultInv, ResultsAgree, ThreadAgrees
  <2> QED BY <1>0, <2>1, <2>2, <2>3, MoveResults DEF NoNewDone
<1>7. CASE RecordExecutionResult(w, c)
  <2>1. /\ thread[w][c] \in {"ok", "err"}
        /\ results'[c] = IF results[c] = "none" THEN thread[w][c] ELSE results[c]
        /\ \A d \in Checkpoints \ {c} : results'[d] = results[d]
        /\ thread'[w][c] = IF thread[w][c] = "ok" THEN "recorded_ok" ELSE "recorded_err"
        /\ \A v \in Workers, d \in Checkpoints : v # w \/ d # c => thread'[v][d] = thread[v][d]
        /\ ckStatus' = ckStatus
    BY <1>7 DEF RecordExecutionResult, SetThread, Outcomes, ckVars
  <2>2. ResultsBacked'
    BY <2>1 DEF ResultInv, ResultsBacked
  <2>3. ASSUME ~slipped PROVE ResultsAgree'
    <3>1. RunOf[c] = job[w] /\ job[w] # NoRun
      BY <2>1, ConstantsAssumption DEF SendInv, ThreadsOK, ConstantsAssumption
    <3>2. \A v \in Workers \ {w} : thread[v][c] = "none"
      BY <2>3, <3>1 DEF SendInv, ThreadsOK, ExecInv, Alone
    <3>3. results[c] = "none" /\ ckStatus[c] # "done"
      BY <2>1, <2>3 DEF ResultInv, ResultsAgree, ThreadAgrees
    <3>4. ASSUME NEW v \in Workers, NEW d \in Checkpoints PROVE ThreadAgrees(v, d)'
      <4>1. CASE v = w /\ d = c
        BY <2>1, <3>3, <4>1 DEF ThreadAgrees
      <4>2. CASE v # w /\ d = c
        BY <2>1, <3>2, <4>2 DEF ThreadAgrees
      <4>3. CASE d # c
        BY <2>1, <2>3, <4>3 DEF ThreadAgrees, ResultInv, ResultsAgree
      <4> QED BY <4>1, <4>2, <4>3
    <3>5. \A d \in Checkpoints : ckStatus'[d] = "done" => results'[d] = "ok"
      BY <2>1, <2>3, <3>3 DEF ResultInv, ResultsAgree
    <3> QED BY <3>4, <3>5 DEF ResultsAgree
  <2> QED BY <1>0, <2>2, <2>3 DEF ResultInv
<1>8. CASE FinishRecorded(w, c)
  <2>1. CASE thread[w][c] = "recorded_ok"
    <3>1. FinishCheckpoint(w, c, "done") /\ SetThread(w, c, "none") /\ results' = results
      BY <1>8, <2>1 DEF FinishRecorded
    <3>2. \A d \in Checkpoints : ckStatus'[d] = "done" => ckStatus[d] = "done" \/ d = c
      BY <3>1, FinishDone
    <3>3. /\ thread'[w][c] = "none"
          /\ \A v \in Workers, d \in Checkpoints : v # w \/ d # c => thread'[v][d] = thread[v][d]
      BY <3>1 DEF SetThread
    <3>4. results[c] # "none" /\ (~slipped => results[c] = "ok")
      BY <2>1 DEF ResultInv, ResultsBacked, ResultsAgree, ThreadAgrees
    <3> QED BY <1>0, <3>1, <3>2, <3>3, <3>4, MoveResults
  <2>2. CASE thread[w][c] # "recorded_ok"
    BY <1>1, <1>8, <2>2, FinishNoDone DEF FinishRecorded
  <2> QED BY <2>1, <2>2
<1> QED BY <1>2, <1>3, <1>4, <1>5, <1>6, <1>7, <1>8 DEF ThreadStep

LEMMA NextResults ==
  ASSUME LeaseInv, ExecInv, SendInv, ResultInv, [Next]_vars PROVE ResultInv'
<1> USE DEF LeaseInv, TypeOK, WorkerTypeOK
<1>0. slipped => slipped'
  BY SlippedStays
<1>1. ASSUME UNCHANGED <<results, thread>>, NoNewDone PROVE ResultInv'
  BY <1>0, <1>1, SameResults
<1>2. UNCHANGED ckVars => NoNewDone
  BY DEF ckVars, NoNewDone
<1>3. ASSUME NEW a \in Agents, AgentNext(a) PROVE ResultInv'
  <2>1. NoNewDone
    <3>1. CASE \/ EnsureCheckpoints(a) \/ CrashInEnsureCheckpoints(a) \/ FinalizeCheckpoints(a)
               \/ ResetExpiredCheckpoints(a) \/ ResetOrphanCheckpoints(a)
      BY <3>1, SetCheckpointsNoDone
      DEF EnsureCheckpoints, CrashInEnsureCheckpoints, FinalizeCheckpoints,
          ResetExpiredCheckpoints, ResetOrphanCheckpoints
    <3> QED
      BY <1>2, <1>3, <3>1
      DEF AgentNext, Recover, Continue, EnqueueSnapshotBatch, QueuePrepared,
          RequestExecutionCancel, FinalizeCancelledRun, ResumeExecution, RecoverPreparing,
          FailPreparing, ListExpired, RequeueExpired, ListOrphan, RequeueOrphan,
          RecoverCancelRequested, AgentCrash
  <2> QED BY <1>1, <1>3, <2>1, AgentKeepsWorkers DEF workerVars
<1>4. ASSUME NEW w \in Workers, WorkerStep(w) \/ Heartbeat(w) \/ WorkerFault(w)
      PROVE  ResultInv'
  <2>1. ASSUME Return(w), UNCHANGED <<ckVars, results>> PROVE ResultInv'
    <3>1. \A v \in Workers, d \in Checkpoints :
            thread'[v][d] = thread[v][d] \/ thread'[v][d] \in {"none", "submitted", "claimed"}
      BY <2>1 DEF Return, NoThreads
    <3> QED BY <1>0, <1>2, <2>1, <3>1, SameResults
  <2>2. CASE PauseClaimedRun(w) \/ ReturnFromRun(w) \/ HandleDispatchFailure(w) \/ Crash(w)
    BY <2>1, <2>2 DEF PauseClaimedRun, ReturnFromRun, HandleDispatchFailure, Crash
  <2>3. CASE StartRun(w)
    BY <1>1, <1>2, <2>1, <2>3 DEF StartRun
  <2>4. ASSUME NEW c \in Checkpoints, Submit(w, c) PROVE ResultInv'
    <3>1. \A v \in Workers, d \in Checkpoints :
            thread'[v][d] = thread[v][d] \/ thread'[v][d] \in {"none", "submitted", "claimed"}
      BY <2>4 DEF Submit, SetThread
    <3> QED BY <1>0, <1>2, <2>4, <3>1, SameResults DEF Submit
  <2>5. CASE LeaveStopping(w) \/ LeavePaused(w) \/ LeaveCancelled(w) \/ ReleaseAfterFailure(w)
    BY <1>1, <2>5, SetCheckpointsNoDone
    DEF LeaveStopping, LeavePaused, LeaveCancelled, ReleaseAfterFailure, ReleaseCheckpoints
  <2>6. CASE \/ ListPending(w) \/ Heartbeat(w) \/ NoticeCancel(w) \/ LeaveDone(w) \/ Restart(w)
             \/ RunFails(w) \/ Stop(w) \/ \E r \in Runs : ClaimNextExecution(w, r)
    BY <1>1, <1>2, <2>6
    DEF ListPending, Heartbeat, NoticeCancel, LeaveDone, Restart, RunFails, Stop,
        ClaimNextExecution
  <2> QED
    BY <1>4, <2>2, <2>3, <2>4, <2>5, <2>6, ThreadResults DEF WorkerStep, WorkerFault
<1> QED BY <1>1, <1>2, <1>3, <1>4 DEF Next, ExpireLease, vars, workerVars

-----------------------------------------------------------------------------
(* Completeness.  The invariant follows the checkpoints of a run through   *)
(* its hand-overs, as long as no worker outlives its lease: at rest none   *)
(* is running; one that is running belongs to the claim the run carries;   *)
(* and what its holder has neither settled nor given up is in its hands.   *)

AllSettled(r) == \A c \in CheckpointsOf(r) : ckStatus[c] \in SettledStatuses

InHand(w, c) ==
    \/ ckStatus[c] \in SettledStatuses
    \/ ckStatus[c] = "pending" /\ (c \in todo[w] \/ thread[w][c] = "submitted")
    \/ ckStatus[c] = "running" /\ thread[w][c] \notin {"none", "submitted"}

HolderOK(w, r) ==
    /\ pc[w] \in {"claimed", "listing", "stopping", "pausing", "failed"} => NoneIn(r, {"running"})
    /\ ~dropped /\ pc[w] = "running" /\ ~ShouldAbort(w) => \A c \in CheckpointsOf(r) : InHand(w, c)
    /\ ~dropped /\ pc[w] = "finishing" => AllSettled(r)

Present(r) == runStatus[r] \in {"queued", "paused", "running", "cancel_requested", "done"}
                 => NoneIn(r, {"absent"})
AtRest(r) == runStatus[r] \in {"absent", "preparing", "queued", "paused"} => NoneIn(r, {"running"})
OneToken(r) == \A c \in CheckpointsOf(r) :
                  ckStatus[c] = "running" /\ runToken[r] # 0 => ckToken[c] = runToken[r]
DoneComplete(r) == ~dropped /\ runStatus[r] = "done" => AllSettled(r)
HoldersOK(r) == \A w \in Workers : job[w] = r /\ runToken[r] = token[w] => HolderOK(w, r)
RequeuesOK(r) ==
    \A a \in Agents : (task[a].kind = "requeue" /\ task[a].run = r /\ task[a].token = runToken[r])
                        => NoneIn(r, {"running"})

RunOK(r) == Present(r) /\ AtRest(r) /\ OneToken(r) /\ DoneComplete(r) /\ HoldersOK(r) /\ RequeuesOK(r)

DoneInv == ~slipped => \A r \in Runs \ Orphans : RunOK(r)

LEMMA InitDone == Init => DoneInv
<1> SUFFICES ASSUME Init, NEW r \in Runs \ Orphans PROVE RunOK(r)
  BY DEF DoneInv
<1>1. Present(r) /\ AtRest(r) /\ OneToken(r) /\ DoneComplete(r)
  BY DEF Init, Present, AtRest, OneToken, DoneComplete, NoneIn, CheckpointsOf
<1>2. HoldersOK(r)
  BY ConstantsAssumption DEF Init, HoldersOK, ConstantsAssumption
<1>3. RequeuesOK(r)
  BY DEF Init, RequeuesOK, Idle, Task
<1> QED BY <1>1, <1>2, <1>3 DEF RunOK

\* Nothing about r changes.
LEMMA FrameRun ==
  ASSUME NEW r \in Runs, RunOK(r), dropped => dropped', task' = task,
         runStatus'[r] = runStatus[r], runToken'[r] = runToken[r],
         \A c \in CheckpointsOf(r) : ckStatus'[c] = ckStatus[c] /\ ckToken'[c] = ckToken[c],
         \A v \in Workers : job'[v] = r =>
            /\ pc'[v] = pc[v] /\ job'[v] = job[v] /\ token'[v] = token[v]
            /\ todo'[v] = todo[v] /\ thread'[v] = thread[v]
            /\ ShouldAbort(v)' <=> ShouldAbort(v)
  PROVE  RunOK(r)'
<1>1. Present(r)' /\ AtRest(r)' /\ OneToken(r)' /\ DoneComplete(r)' /\ RequeuesOK(r)'
  BY DEF RunOK, Present, AtRest, OneToken, DoneComplete, RequeuesOK, NoneIn, AllSettled,
         CheckpointsOf
<1>2. ASSUME NEW w \in Workers, job'[w] = r, runToken'[r] = token'[w] PROVE HolderOK(w, r)'
  <2>1. HolderOK(w, r)
    BY <1>2 DEF RunOK, HoldersOK
  <2> QED BY <1>2, <2>1 DEF HolderOK, NoneIn, AllSettled, InHand, CheckpointsOf
<1>3. HoldersOK(r)'
  BY <1>2 DEF HoldersOK
<1> QED BY <1>1, <1>3 DEF RunOK

\* Under an unslipped lease a run that a worker executes is live or over.
LEMMA Executed ==
  ASSUME LeaseInv, ExecInv, ~slipped, NEW w \in Workers, job[w] # NoRun
  PROVE  /\ job[w] \in Runs /\ token[w] \in Nat \ {0}
         /\ \A v \in Workers : job[v] = job[w] => v = w
         /\ runStatus[job[w]] \in FINAL_RUN_STATUSES \cup LeasedStatuses
         /\ runToken[job[w]] # 0 => runToken[job[w]] = token[w] /\ lease[job[w]] = "live"
                                    /\ runStatus[job[w]] \in LeasedStatuses
<1>1. job[w] \in Runs /\ token[w] \in Nat \ {0}
  BY DEF LeaseInv, TypeOK, WorkerTypeOK, RunTypeOK, ClaimsOK
<1>2. \A v \in Workers : job[v] = job[w] => v = w
  BY DEF ExecInv, Alone
<1>3. Secured(w)
  BY DEF ExecInv
<1>4. runToken[job[w]] # 0 => runStatus[job[w]] \in LeasedStatuses
  BY <1>1, LeaseParts DEF LeaseInv, RunTokens
<1>5. runStatus[job[w]] \in LeasedStatuses => runStatus[job[w]] \notin FINAL_RUN_STATUSES
  BY DEF LeasedStatuses, FINAL_RUN_STATUSES
<1> QED BY <1>1, <1>2, <1>3, <1>4, <1>5 DEF Secured

\* A worker works on its own run and keeps its claim.
LEMMA OwnRun ==
  ASSUME LeaseInv, ExecInv, HandInv, ExpiryInv, ~slipped, NEW w \in Workers, job[w] # NoRun,
         RunOK(job[w]), SettledKept, task' = task, job' = job, token' = token,
         dropped => dropped',
         runStatus'[job[w]] = runStatus[job[w]], runToken'[job[w]] = runToken[job[w]],
         \A c \in CheckpointsOf(job[w]) :
            /\ ckStatus'[c] = "absent" => ckStatus[c] = "absent"
            /\ ckStatus'[c] = "running" => \/ ckStatus[c] = "running" /\ ckToken'[c] = ckToken[c]
                                           \/ ckToken'[c] = token[w],
         runToken[job[w]] = token[w] /\ HolderOK(w, job[w]) => HolderOK(w, job[w])'
  PROVE  RunOK(job[w])'
<1> DEFINE r == job[w]
<1> USE Executed
<1>1. Present(r)'
  BY DEF RunOK, Present, NoneIn, CheckpointsOf
<1>2. AtRest(r)'
  BY DEF AtRest, FINAL_RUN_STATUSES, LeasedStatuses
<1>3. OneToken(r)'
  <2>1. \A c \in CheckpointsOf(r) : ckStatus[c] = "running" /\ runToken[r] # 0 => ckToken[c] = runToken[r]
    BY DEF RunOK, OneToken
  <2>2. runToken[r] # 0 => runToken[r] = token[w]
    OBVIOUS
  <2> QED BY <2>1, <2>2 DEF OneToken, CheckpointsOf
<1>4. DoneComplete(r)'
  BY DEF RunOK, DoneComplete, AllSettled, SettledKept, CheckpointsOf
<1>5. HoldersOK(r)'
  <2> SUFFICES ASSUME NEW v \in Workers, job[v] = r, runToken[r] = token[v] PROVE HolderOK(v, r)'
    BY DEF HoldersOK
  <2>1. v = w
    OBVIOUS
  <2>2. HolderOK(w, r)
    BY <2>1 DEF RunOK, HoldersOK
  <2> QED BY <2>1, <2>2
<1>6. RequeuesOK(r)'
  <2> SUFFICES ASSUME NEW a \in Agents, task[a].kind = "requeue", task[a].run = r, task[a].token = runToken[r]
               PROVE  FALSE
    BY DEF RequeuesOK
  <2>1. task[a].token \in 1 .. dispatch[r]
    BY DEF HandInv, TasksOK, TaskOK
  <2>2. runToken[r] # 0
    BY <2>1 DEF LeaseInv, TypeOK, RunTypeOK
  <2>3. lease[r] = "expired"
    BY DEF ExpiryInv, ExpiredTask
  <2>4. lease[r] = "live"
    BY <2>2
  <2> QED BY <2>3, <2>4
<1> QED BY <1>1, <1>2, <1>3, <1>4, <1>5, <1>6 DEF RunOK

\* A run is set to a status by one that does not execute it, or returns.
LEMMA SetRunOK ==
  ASSUME LeaseInv, HandInv, NEW r \in Runs, RunOK(r), NEW f, NEW q, NEW s, SetRunIf(f, q, s),
         UNCHANGED <<ckStatus, ckToken, dropped>>,
         \A v \in Workers : job'[v] = r =>
            /\ pc'[v] = pc[v] /\ job'[v] = job[v] /\ token'[v] = token[v]
            /\ todo'[v] = todo[v] /\ thread'[v] = thread[v]
            /\ ShouldAbort(v)' <=> ShouldAbort(v),
         \A b \in Agents : task'[b] = task[b] \/ task'[b].kind # "requeue",
         s \in {"queued", "paused", "done", "failed", "cancelled"},
         f /\ q = r => /\ s \in {"queued", "paused", "done"} => NoneIn(r, {"absent"})
                       /\ s \in {"queued", "paused"} => NoneIn(r, {"running"})
                       /\ s = "done" /\ ~dropped => AllSettled(r)
  PROVE  RunOK(r)'
<1>1. CASE f /\ q = r
  <2>1. runStatus'[r] = s /\ runToken'[r] = 0
    BY <1>1 DEF SetRunIf, SetRun, LeaseInv, TypeOK, RunTypeOK
  <2>2. Present(r)' /\ AtRest(r)' /\ DoneComplete(r)'
    BY <1>1, <2>1 DEF Present, AtRest, DoneComplete, NoneIn, AllSettled, CheckpointsOf
  <2>3. OneToken(r)'
    BY <2>1 DEF OneToken
  <2>4. HoldersOK(r)'
    <3> SUFFICES ASSUME NEW v \in Workers, job'[v] = r, runToken'[r] = token'[v] PROVE FALSE
      BY DEF HoldersOK
    <3>1. job[v] = r /\ r # NoRun /\ token[v] = 0
      BY <2>1, ConstantsAssumption DEF ConstantsAssumption
    <3> QED BY <3>1 DEF LeaseInv, ClaimsOK, TypeOK, RunTypeOK
  <2>5. RequeuesOK(r)'
    <3> SUFFICES ASSUME NEW a \in Agents, task'[a].kind = "requeue", task'[a].run = r,
                        task'[a].token = runToken'[r]
                 PROVE  FALSE
      BY DEF RequeuesOK
    <3>1. task[a].kind = "requeue" /\ task[a].run = r /\ task[a].token = 0
      BY <2>1
    <3> QED BY <3>1 DEF HandInv, TasksOK, TaskOK, LeaseInv, TypeOK, RunTypeOK
  <2> QED BY <2>2, <2>3, <2>4, <2>5 DEF RunOK
<1>2. CASE ~f \/ q # r
  <2>1. runStatus'[r] = runStatus[r] /\ runToken'[r] = runToken[r]
    BY <1>2 DEF SetRunIf, SetRun, LeaseInv, TypeOK, RunTypeOK, runVars
  <2>2. Present(r)' /\ AtRest(r)' /\ OneToken(r)' /\ DoneComplete(r)'
    BY <2>1 DEF RunOK, Present, AtRest, OneToken, DoneComplete, NoneIn, AllSettled, CheckpointsOf
  <2>3. RequeuesOK(r)'
    BY <2>1 DEF RunOK, RequeuesOK, NoneIn, CheckpointsOf
  <2>4. HoldersOK(r)'
    <3> SUFFICES ASSUME NEW v \in Workers, job'[v] = r, runToken'[r] = token'[v] PROVE HolderOK(v, r)'
      BY DEF HoldersOK
    <3>1. HolderOK(v, r)
      BY <2>1 DEF RunOK, HoldersOK
    <3> QED BY <3>1 DEF HolderOK, NoneIn, AllSettled, InHand, CheckpointsOf
  <2> QED BY <2>2, <2>3, <2>4 DEF RunOK
<1> QED BY <1>1, <1>2

\* The pool thread of c moves: what was in hand stays in hand.
LEMMA ThreadInHand ==
  ASSUME LeaseInv, SendInv, NEW w \in Workers, NEW c \in Checkpoints,
         ThreadStep(w, c) \/ AuthFailure(w, c) \/ MarkFutureFailure(w, c),
         OneToken(job[w]), runToken[job[w]] = token[w], token[w] # 0, pc[w] = "running",
         ~dropped', ~ShouldAbort(w)', ~ShouldAbort(w),
         \A d \in CheckpointsOf(job[w]) : InHand(w, d)
  PROVE  \A d \in CheckpointsOf(job[w]) : InHand(w, d)'
<1> USE DEF LeaseInv, TypeOK
<1>1. PICK s : SetThread(w, c, s)
  BY DEF ThreadStep, ClaimCheckpoint, CheckExistingResult, SnapshotNotFound, FinishBlocked,
     Permit, Replay, RecordExecutionResult, FinishRecorded, AuthFailure, MarkFutureFailure
<1>2. thread'[w][c] = s /\ \A d \in Checkpoints \ {c} : thread'[w][d] = thread[w][d]
  BY <1>1 DEF SetThread, WorkerTypeOK
<1>3. todo' = todo
  BY DEF ThreadStep, ClaimCheckpoint, CheckExistingResult, SnapshotNotFound, FinishBlocked,
     Permit, Replay, RecordExecutionResult, FinishRecorded, AuthFailure, MarkFutureFailure
<1>4. c \in CheckpointsOf(job[w]) /\ c \notin todo[w]
  BY DEF ThreadStep, ClaimCheckpoint, CheckExistingResult, SnapshotNotFound, FinishBlocked,
     Permit, Replay, RecordExecutionResult, FinishRecorded, AuthFailure, MarkFutureFailure,
     SendInv, ThreadsOK, Outcomes, CheckpointsOf
<1>5. ASSUME NEW t, FinishCheckpoint(w, c, t) \/ UNCHANGED ckVars
      PROVE  \A d \in Checkpoints \ {c} : ckStatus'[d] = ckStatus[d]
  BY <1>5 DEF FinishCheckpoint, SetCheckpoints, ckVars
<1>6. (\A d \in Checkpoints \ {c} : ckStatus'[d] = ckStatus[d]) /\ InHand(w, c)'
      => \A d \in CheckpointsOf(job[w]) : InHand(w, d)'
  BY <1>2, <1>3 DEF InHand, CheckpointsOf
<1>7. ckStatus[c] = "running" => OwnsCheckpoint(w, c)
  BY <1>4 DEF OneToken, OwnsCheckpoint
<1>8. ASSUME NEW t \in SettledStatuses, FinishCheckpoint(w, c, t), thread[w][c] \notin {"none", "submitted"}
      PROVE  InHand(w, c)'
  <2>1. ckStatus[c] = "running" \/ ckStatus[c] \in SettledStatuses
    BY <1>4, <1>8 DEF InHand
  <2>2. ckStatus[c] = "running" => ckStatus'[c] = t
    BY <1>7, <1>8 DEF FinishCheckpoint, SetCheckpoints
  <2>3. ckStatus[c] # "running" => ckStatus'[c] = ckStatus[c]
    BY <1>8 DEF FinishCheckpoint, OwnsCheckpoint, ckVars
  <2> QED BY <2>1, <2>2, <2>3 DEF InHand
<1>9. ASSUME UNCHANGED ckVars, thread[w][c] \notin {"none", "submitted"}, s \notin {"none", "submitted"}
      PROVE  InHand(w, c)'
  BY <1>2, <1>4, <1>9 DEF InHand, ckVars
<1>10. CASE ClaimCheckpoint(w, c)
  <2>1. CASE ckStatus[c] = "pending"
    <3>1. ckStatus'[c] = "running" /\ thread'[w][c] = "claimed"
      BY <1>10, <2>1 DEF ClaimCheckpoint, SetThread, CheckpointTypeOK, WorkerTypeOK
    <3>2. \A d \in Checkpoints \ {c} : ckStatus'[d] = ckStatus[d]
      BY <1>10, <2>1 DEF ClaimCheckpoint, CheckpointTypeOK
    <3> QED BY <1>6, <3>1, <3>2 DEF InHand
  <2>2. CASE ckStatus[c] # "pending"
    <3>1. ckStatus[c] \in SettledStatuses
      BY <1>4, <1>10, <2>2 DEF ClaimCheckpoint, InHand
    <3>2. UNCHANGED ckVars
      BY <1>10, <2>2 DEF ClaimCheckpoint
    <3> QED BY <1>6, <3>1, <3>2 DEF InHand, ckVars
  <2> QED BY <2>1, <2>2
<1>11. CASE CheckExistingResult(w, c)
  <2>1. CASE results[c] = "none"
    <3>1. UNCHANGED ckVars /\ s \notin {"none", "submitted"} /\ thread[w][c] = "claimed"
      BY <1>2, <1>11, <2>1 DEF CheckExistingResult, SetThread, WorkerTypeOK
    <3> QED BY <1>5, <1>6, <1>9, <3>1
  <2>2. CASE results[c] # "none"
    <3>1. PICK t \in {"done", "error"} : FinishCheckpoint(w, c, t) /\ thread[w][c] = "claimed"
      BY <1>11, <2>2 DEF CheckExistingResult
    <3> QED BY <1>5, <1>6, <1>8, <3>1 DEF SettledStatuses
  <2> QED BY <2>1, <2>2
<1>12. CASE SnapshotNotFound(w, c)
  BY <1>5, <1>6, <1>8, <1>12 DEF SnapshotNotFound, SettledStatuses
<1>13. CASE FinishBlocked(w, c)
  BY <1>5, <1>6, <1>8, <1>13 DEF FinishBlocked, SettledStatuses
<1>14. CASE Permit(w, c) \/ Replay(w, c) \/ RecordExecutionResult(w, c)
  <2>1. UNCHANGED ckVars /\ thread[w][c] \notin {"none", "submitted"}
    BY <1>14 DEF Permit, Replay, RecordExecutionResult, Outcomes
  <2>2. thread'[w][c] \notin {"none", "submitted"}
    BY <1>4, <1>14 DEF Permit, Replay, RecordExecutionResult, Outcomes, SetThread, WorkerTypeOK
  <2> QED BY <1>2, <1>5, <1>6, <1>9, <2>1, <2>2
<1>15. CASE FinishRecorded(w, c)
  <2>1. PICK t \in {"done", "error"} : FinishCheckpoint(w, c, t)
    BY <1>15 DEF FinishRecorded
  <2>2. thread[w][c] \notin {"none", "submitted"}
    BY <1>15 DEF FinishRecorded
  <2> QED BY <1>5, <1>6, <1>8, <2>1, <2>2 DEF SettledStatuses
<1>16. CASE AuthFailure(w, c)
  BY <1>16 DEF AuthFailure, ShouldAbort
<1>17. CASE MarkFutureFailure(w, c)
  <2>1. thread[w][c] \notin {"none", "submitted"} /\ FinishCheckpoint(w, c, "error")
    BY <1>17 DEF MarkFutureFailure
  <2> QED BY <1>5, <1>6, <1>8, <2>1 DEF SettledStatuses
<1> QED
  BY <1>10, <1>11, <1>12, <1>13, <1>14, <1>15, <1>16, <1>17 DEF ThreadStep

\* The steps with which a worker keeps its claim.
Keeps(w) ==
    \/ StartRun(w) /\ CanRenew(w)
    \/ ListPending(w) \/ NoticeCancel(w) \/ Heartbeat(w) \/ RunFails(w) \/ Stop(w) \/ Restart(w)
    \/ LeaveStopping(w) \/ LeavePaused(w) \/ LeaveCancelled(w) \/ LeaveDone(w)
    \/ ReleaseAfterFailure(w)
    \/ \E c \in Checkpoints : \/ Submit(w, c) \/ ThreadStep(w, c)
                              \/ AuthFailure(w, c) \/ MarkFutureFailure(w, c)

LEMMA KeepsClaim ==
  ASSUME NEW w, Keeps(w)
  PROVE  job' = job /\ token' = token /\ runStatus' = runStatus /\ runToken' = runToken
<1>1. ASSUME NEW c \in Checkpoints,
             ThreadStep(w, c) \/ AuthFailure(w, c) \/ MarkFutureFailure(w, c)
      PROVE  job' = job /\ token' = token /\ runStatus' = runStatus /\ runToken' = runToken
  BY <1>1 DEF ThreadStep, ClaimCheckpoint, CheckExistingResult, SnapshotNotFound, FinishBlocked,
     Permit, Replay, RecordExecutionResult, FinishRecorded, AuthFailure, MarkFutureFailure,
     runVars
<1> QED
  BY <1>1 DEF Keeps, StartRun, ListPending, NoticeCancel, Heartbeat, RunFails, Stop, Restart,
     LeaveStopping, LeavePaused, LeaveCancelled, LeaveDone, ReleaseAfterFailure, Submit,
     runVars

LEMMA WorkerDrops ==
  ASSUME NEW w, WorkerStep(w) \/ Heartbeat(w) \/ WorkerFault(w), dropped PROVE dropped'
<1>1. ASSUME NEW c \in Checkpoints, MarkFutureFailure(w, c) PROVE dropped'
  BY <1>1 DEF MarkFutureFailure
<1>2. ASSUME NEW c \in Checkpoints, ThreadStep(w, c) \/ AuthFailure(w, c) PROVE dropped'
  <2>1. dropped' = dropped
    BY <1>2 DEF ThreadStep, ClaimCheckpoint, CheckExistingResult, SnapshotNotFound,
       FinishBlocked, Permit, Replay, RecordExecutionResult, FinishRecorded, AuthFailure,
       ghostVars
  <2> QED BY <2>1
<1>3. CASE dropped' = dropped
  BY <1>3
<1> QED
  BY <1>1, <1>2, <1>3 DEF WorkerStep, WorkerFault, StartRun, ListPending, Heartbeat,
     NoticeCancel, LeaveStopping, LeavePaused, LeaveCancelled, LeaveDone, ReturnFromRun,
     ReleaseAfterFailure, HandleDispatchFailure, Restart, ClaimNextExecution, Submit,
     PauseClaimedRun, RunFails, Crash, Stop, ghostVars

\* A step with which the worker keeps its claim keeps what its claim promises.
LEMMA KeepsHolder ==
  ASSUME LeaseInv, SendInv, HandInv, NEW w \in Workers, job[w] \in Runs, token[w] # 0,
         Keeps(w), RunOK(job[w]), runToken[job[w]] = token[w], dropped => dropped',
         HolderOK(w, job[w]), NEW r, r = job[w]
  PROVE  HolderOK(w, r)'
<1> USE DEF LeaseInv, TypeOK
<1>1. job'[w] = r /\ CheckpointsOf(r)' = CheckpointsOf(r)
  BY KeepsClaim DEF CheckpointsOf
<1>2. NoneIn(r, {"absent"}) /\ OneToken(r)
  <2>1. runStatus[r] \in LeasedStatuses
    BY LeaseParts DEF RunTokens
  <2> QED BY <2>1 DEF RunOK, Present, LeasedStatuses
<1>3. CASE StartRun(w) /\ CanRenew(w)
  BY <1>3 DEF StartRun, Goto, HolderOK, NoneIn, ckVars, WorkerTypeOK, CheckpointsOf
<1>4. CASE ListPending(w)
  <2>1. pc[w] = "listing" /\ pc'[w] = "running" /\ UNCHANGED ckVars
    BY <1>4 DEF ListPending, Goto, WorkerTypeOK
  <2>2. todo'[w] = {c \in CheckpointsOf(r) : ckStatus[c] = "pending"}
    BY <1>4 DEF ListPending, WorkerTypeOK
  <2>3. ASSUME NEW c \in CheckpointsOf(r) PROVE InHand(w, c)'
    <3>1. ckStatus[c] \in SettledStatuses \cup {"pending"}
      BY <1>2, <2>1 DEF HolderOK, NoneIn, CheckpointTypeOK, CkStatuses, OpenStatuses, CheckpointsOf
    <3> QED BY <2>1, <2>2, <3>1 DEF InHand, ckVars
  <2> QED BY <2>1, <2>3, <1>1 DEF HolderOK
<1>5. CASE NoticeCancel(w) \/ Heartbeat(w) \/ Stop(w) \/ Restart(w)
  <2>1. UNCHANGED <<pc, todo, thread, ckStatus>>
    BY <1>5 DEF NoticeCancel, Heartbeat, Stop, Restart, ckVars
  <2>2. pc[w] # "idle"
    BY ConstantsAssumption DEF ConstantsAssumption, ClaimsOK
  <2>3. ~ShouldAbort(w)' => ~ShouldAbort(w)
    BY <1>5, <2>2 DEF NoticeCancel, Heartbeat, Stop, Restart, ShouldAbort
  <2> QED BY <1>1, <2>1, <2>3 DEF HolderOK, NoneIn, InHand, AllSettled, CheckpointsOf
<1>6. ASSUME NEW c \in Checkpoints, Submit(w, c) PROVE HolderOK(w, r)'
  <2>1. pc[w] = "running" /\ UNCHANGED <<pc, ckStatus>>
    BY <1>6 DEF Submit, ckVars
  <2>2. c \in todo[w] /\ thread[w][c] = "none"
    BY <1>6 DEF Submit, SendInv, ThreadsOK
  <2>3. todo'[w] = todo[w] \ {c} /\ thread'[w][c] = "submitted"
        /\ \A d \in Checkpoints \ {c} : thread'[w][d] = thread[w][d]
    BY <1>6 DEF Submit, SetThread, WorkerTypeOK
  <2>4. ShouldAbort(w)' <=> ShouldAbort(w)
    BY <1>6 DEF Submit, ShouldAbort, eventVars
  <2>5. ASSUME NEW d \in CheckpointsOf(r), InHand(w, d) PROVE InHand(w, d)'
    BY <2>1, <2>2, <2>3, <2>5 DEF InHand, CheckpointsOf
  <2> QED BY <1>1, <2>1, <2>4, <2>5 DEF HolderOK
<1>7. CASE LeaveStopping(w) \/ LeavePaused(w) \/ ReleaseAfterFailure(w)
  <2>1. SetCheckpoints(RunningUnder(r, token[w]), "pending")
    BY <1>7 DEF LeaveStopping, LeavePaused, ReleaseAfterFailure, ReleaseCheckpoints
  <2>2. pc'[w] \in {"stopping", "pausing", "failed"}
    BY <1>7 DEF LeaveStopping, LeavePaused, ReleaseAfterFailure, Goto, WorkerTypeOK
  <2>3. NoneIn(r, {"running"})'
    BY <1>1, <1>2, <2>1 DEF NoneIn, SetCheckpoints, RunningUnder, OneToken, CheckpointsOf
  <2> QED BY <2>2, <2>3 DEF HolderOK
<1>8. CASE LeaveCancelled(w) \/ RunFails(w)
  <2>1. pc'[w] \in {"cancelling", "failing"}
    BY <1>8 DEF LeaveCancelled, RunFails, Goto, WorkerTypeOK
  <2> QED BY <2>1 DEF HolderOK
<1>9. CASE LeaveDone(w)
  <2>1. pc[w] = "running" /\ pc'[w] = "finishing" /\ UNCHANGED ckVars
    BY <1>9 DEF LeaveDone, LoopEnded, Goto, WorkerTypeOK
  <2>2. ~ShouldAbort(w) /\ todo[w] = {}
    BY <1>9 DEF LeaveDone, LoopEnded, MaySubmit, ShouldAbort
  <2>3. \A c \in Checkpoints : thread[w][c] = "none"
    BY <1>9 DEF LeaveDone, LoopEnded, Quiet, NoThreads
  <2>4. ~dropped => AllSettled(r)
    BY <2>1, <2>2, <2>3 DEF HolderOK, InHand, AllSettled, CheckpointsOf
  <2> QED BY <1>1, <2>1, <2>4 DEF HolderOK, AllSettled, ckVars
<1>10. ASSUME NEW c \in Checkpoints,
              ThreadStep(w, c) \/ AuthFailure(w, c) \/ MarkFutureFailure(w, c)
       PROVE  HolderOK(w, r)'
  <2>1. pc' = pc /\ thread[w][c] # "none"
    BY <1>10
    DEF ThreadStep, ClaimCheckpoint, CheckExistingResult, SnapshotNotFound, FinishBlocked,
        Permit, Replay, RecordExecutionResult, FinishRecorded, AuthFailure,
        MarkFutureFailure, Outcomes
  <2>2. pc[w] \in {"running", "failing"}
    BY <2>1 DEF HandInv, ThreadsActive
  <2>3. ~ShouldAbort(w)' => ~ShouldAbort(w)
    BY <1>10
    DEF ThreadStep, ClaimCheckpoint, CheckExistingResult, SnapshotNotFound, FinishBlocked,
        Permit, Replay, RecordExecutionResult, FinishRecorded, AuthFailure,
        MarkFutureFailure, eventVars, ShouldAbort
  <2>4. ASSUME pc[w] = "running", ~dropped', ~ShouldAbort(w)'
        PROVE  \A d \in CheckpointsOf(r) : InHand(w, d)'
    <3>1. \A d \in CheckpointsOf(r) : InHand(w, d)
      BY <2>3, <2>4 DEF HolderOK
    <3> QED BY <1>2, <1>10, <2>3, <2>4, <3>1, ThreadInHand
  <2> QED BY <1>1, <2>1, <2>2, <2>4 DEF HolderOK
<1> QED
  BY <1>3, <1>4, <1>5, <1>6, <1>7, <1>8, <1>9, <1>10 DEF Keeps

\* The worker gives its run a last status, or none.
LEMMA LeavesRun ==
  ASSUME LeaseInv, SendInv, HandInv, ExecInv, ~slipped, NEW w \in Workers,
         \/ PauseClaimedRun(w) \/ ReturnFromRun(w) \/ HandleDispatchFailure(w) \/ Crash(w)
         \/ StartRun(w) /\ ~CanRenew(w),
         NEW r \in Runs, r = job[w], RunOK(r)
  PROVE  RunOK(r)'
<1> USE DEF LeaseInv, TypeOK
<1>1. Return(w) /\ UNCHANGED <<ckStatus, ckToken, task, dropped>>
  BY DEF PauseClaimedRun, ReturnFromRun, HandleDispatchFailure, Crash, StartRun, ckVars, ghostVars
<1>2. ASSUME NEW v \in Workers PROVE job'[v] # r
  <2>1. v = w => job'[v] = NoRun
    BY <1>1 DEF Return, WorkerTypeOK
  <2>2. v # w => job'[v] = job[v]
    BY <1>1 DEF Return, WorkerTypeOK
  <2>3. v # w => job[v] # r
    BY ConstantsAssumption DEF ConstantsAssumption, ExecInv, Alone
  <2> QED BY <2>1, <2>2, <2>3, ConstantsAssumption DEF ConstantsAssumption
<1>3. CASE UNCHANGED <<runStatus, runToken>>
  BY <1>1, <1>2, <1>3, FrameRun
<1>4. ASSUME NEW f, NEW s \in {"queued", "paused", "done", "failed", "cancelled"},
             SetRunIf(f, r, s),
             f => /\ s \in {"queued", "paused", "done"} => NoneIn(r, {"absent"})
                  /\ s \in {"queued", "paused"} => NoneIn(r, {"running"})
                  /\ s = "done" /\ ~dropped => AllSettled(r)
      PROVE  RunOK(r)'
  BY <1>1, <1>2, <1>4, SetRunOK
<1>5. HoldsLease(w) => NoneIn(r, {"absent"}) /\ HolderOK(w, r)
  <2>1. SUFFICES ASSUME HoldsLease(w) PROVE NoneIn(r, {"absent"}) /\ HolderOK(w, r)
    OBVIOUS
  <2>2. token[w] # 0
    BY ConstantsAssumption DEF ConstantsAssumption, ClaimsOK, RunTypeOK
  <2>3. runStatus[r] \in LeasedStatuses
    BY <2>1, <2>2, LeaseParts DEF RunTokens, HoldsLease
  <2> QED BY <2>1, <2>3 DEF RunOK, Present, HoldersOK, LeasedStatuses, HoldsLease
<1>6. CASE PauseClaimedRun(w)
  BY <1>4, <1>5, <1>6 DEF PauseClaimedRun, HolderOK
<1>7. CASE ReturnFromRun(w)
  <2>1. CASE pc[w] = "stopping"
    BY <1>4, <1>5, <1>7, <2>1 DEF ReturnFromRun, HolderOK
  <2>2. CASE pc[w] = "pausing"
    BY <1>4, <1>5, <1>7, <2>2 DEF ReturnFromRun, HolderOK
  <2>3. CASE pc[w] = "cancelling"
    BY <1>4, <1>7, <2>3 DEF ReturnFromRun
  <2>4. CASE pc[w] = "finishing"
    BY <1>4, <1>5, <1>7, <2>4 DEF ReturnFromRun, HolderOK
  <2> QED BY <1>7, <2>1, <2>2, <2>3, <2>4 DEF ReturnFromRun
<1>8. CASE HandleDispatchFailure(w)
  <2>1. PICK s \in {"queued", "failed"} : SetRunIf(HoldsLease(w), r, s)
    BY <1>8 DEF HandleDispatchFailure
  <2>2. pc[w] = "failed"
    BY <1>8 DEF HandleDispatchFailure
  <2> QED BY <1>4, <1>5, <2>1, <2>2 DEF HolderOK
<1> QED
  BY <1>3, <1>6, <1>7, <1>8 DEF Crash, StartRun, runVars

\* A queued run is given to a worker: nobody else has it.
LEMMA ClaimedRun ==
  ASSUME LeaseInv, SendInv, HandInv, ExecInv, ~slipped, NEW w \in Workers, NEW q \in Runs,
         ClaimNextExecution(w, q), NEW r \in Runs, RunOK(r)
  PROVE  RunOK(r)'
<1> USE DEF LeaseInv, TypeOK
<1>1. /\ runStatus[q] = "queued" /\ job'[w] = q /\ token'[w] = dispatch[q] + 1 /\ pc'[w] = "claimed"
      /\ UNCHANGED <<ckStatus, ckToken, dropped, task>>
  BY DEF ClaimNextExecution, Queued, Goto, WorkerTypeOK, ckVars, ghostVars
<1>2. CASE r = q
  <2>1. runStatus'[r] = "running" /\ runToken'[r] = dispatch[r] + 1
    BY <1>2 DEF ClaimNextExecution, RunTypeOK
  <2>2. NoneIn(r, {"absent"}) /\ NoneIn(r, {"running"})
    BY <1>1, <1>2 DEF RunOK, Present, AtRest
  <2>3. NoneIn(r, {"absent"})' /\ NoneIn(r, {"running"})'
    BY <1>1, <2>2 DEF NoneIn, CheckpointsOf
  <2>4. Present(r)' /\ AtRest(r)' /\ OneToken(r)' /\ DoneComplete(r)' /\ RequeuesOK(r)'
    BY <2>1, <2>3 DEF Present, AtRest, OneToken, DoneComplete, RequeuesOK, NoneIn
  <2>5. HoldersOK(r)'
    <3> SUFFICES ASSUME NEW v \in Workers, job'[v] = r PROVE HolderOK(v, r)'
      BY DEF HoldersOK
    <3>1. v # w => job[v] = r
      BY DEF ClaimNextExecution, WorkerTypeOK
    <3>2. job[v] # r
      <4> SUFFICES ASSUME job[v] = r PROVE FALSE
        OBVIOUS
      <4>1. Secured(v)
        BY ConstantsAssumption DEF ConstantsAssumption, ExecInv
      <4> QED BY <1>1, <1>2, <4>1 DEF Secured, FINAL_RUN_STATUSES, LeasedStatuses
    <3> QED BY <1>1, <2>3, <3>1, <3>2 DEF HolderOK
  <2> QED BY <2>4, <2>5 DEF RunOK
<1>3. CASE r # q
  <2>1. runStatus'[r] = runStatus[r] /\ runToken'[r] = runToken[r]
    BY <1>3 DEF ClaimNextExecution, RunTypeOK
  <2>2. ASSUME NEW v \in Workers, job'[v] = r
        PROVE  /\ pc'[v] = pc[v] /\ job'[v] = job[v] /\ token'[v] = token[v]
               /\ todo'[v] = todo[v] /\ thread'[v] = thread[v]
               /\ ShouldAbort(v)' <=> ShouldAbort(v)
    <3>1. v # w
      BY <1>1, <1>3, <2>2
    <3>2. ShouldAbort(v)' <=> ShouldAbort(v)
      BY DEF ClaimNextExecution, ShouldAbort, eventVars
    <3> QED BY <3>1, <3>2 DEF ClaimNextExecution, Goto, WorkerTypeOK
  <2> QED BY <1>1, <2>1, <2>2, FrameRun
<1> QED BY <1>2, <1>3

LEMMA WorkerDone ==
  ASSUME LeaseInv, SendInv, ExecInv, HandInv, ExpiryInv, ~slipped, Next, NEW w \in Workers,
         WorkerStep(w) \/ Heartbeat(w) \/ WorkerFault(w), NEW r \in Runs, RunOK(r)
  PROVE  RunOK(r)'
<1> USE DEF LeaseInv
<1>1. CASE \E q \in Runs : ClaimNextExecution(w, q)
  BY <1>1, ClaimedRun
<1>2. CASE \A q \in Runs : ~ClaimNextExecution(w, q)
  <2>1. OtherWorkers(w) /\ OtherCheckpoints(job[w]) /\ OtherRuns(job[w])
    BY <1>2, WorkerFrame
  <2>2. task' = task /\ (dropped => dropped')
    BY WorkerKeepsTasks, WorkerDrops
  <2>3. \/ Keeps(w)
        \/ PauseClaimedRun(w) \/ ReturnFromRun(w) \/ HandleDispatchFailure(w) \/ Crash(w)
        \/ StartRun(w) /\ ~CanRenew(w)
    BY <1>2 DEF Keeps, WorkerStep, WorkerFault
  <2>4. CASE r # job[w]
    <3>1. job'[w] \in {job[w], NoRun}
      <4>1. CASE Keeps(w)
        BY <4>1, KeepsClaim
      <4>2. CASE Return(w)
        BY <4>2 DEF Return, TypeOK, WorkerTypeOK
      <4> QED BY <2>3, <4>1, <4>2
              DEF PauseClaimedRun, ReturnFromRun, HandleDispatchFailure, Crash, StartRun
    <3>2. runStatus'[r] = runStatus[r] /\ runToken'[r] = runToken[r]
      BY <2>1, <2>4 DEF OtherRuns
    <3>3. \A c \in CheckpointsOf(r) : ckStatus'[c] = ckStatus[c] /\ ckToken'[c] = ckToken[c]
      BY <2>1, <2>4 DEF OtherCheckpoints, CheckpointsOf
    <3>4. \A v \in Workers : job'[v] = r => v # w
      BY <2>4, <3>1, ConstantsAssumption DEF ConstantsAssumption
    <3>5. \A v \in Workers : job'[v] = r =>
            /\ pc'[v] = pc[v] /\ job'[v] = job[v] /\ token'[v] = token[v]
            /\ todo'[v] = todo[v] /\ thread'[v] = thread[v]
            /\ ShouldAbort(v)' <=> ShouldAbort(v)
      BY <2>1, <3>4 DEF OtherWorkers
    <3> QED BY <2>2, <3>2, <3>3, <3>5, FrameRun
  <2>5. CASE r = job[w] /\ Keeps(w)
    <3>1. job[w] # NoRun
      BY <2>5, ConstantsAssumption DEF ConstantsAssumption
    <3>2. job' = job /\ token' = token /\ runStatus' = runStatus /\ runToken' = runToken
      BY <2>5, KeepsClaim
    <3>3. SettledKept
      BY NextSettled
    <3>4. \A c \in CheckpointsOf(job[w]) :
            /\ ckStatus'[c] = "absent" => ckStatus[c] = "absent"
            /\ ckStatus'[c] = "running" => \/ ckStatus[c] = "running" /\ ckToken'[c] = ckToken[c]
                                           \/ ckToken'[c] = token[w]
      <4>1. CASE \A d \in Checkpoints : ~ClaimCheckpoint(w, d)
        BY <4>1, WorkerCalm DEF Calm, CheckpointsOf
      <4>2. ASSUME NEW d \in Checkpoints, ClaimCheckpoint(w, d)
            PROVE  \A c \in CheckpointsOf(job[w]) :
                    /\ ckStatus'[c] = "absent" => ckStatus[c] = "absent"
                    /\ ckStatus'[c] = "running" => \/ ckStatus[c] = "running" /\ ckToken'[c] = ckToken[c]
                                                   \/ ckToken'[c] = token[w]
        BY <4>2 DEF ClaimCheckpoint, TypeOK, CheckpointTypeOK, ckVars, CheckpointsOf
      <4> QED BY <4>1, <4>2
    <3>5. runToken[job[w]] = token[w] /\ HolderOK(w, job[w]) => HolderOK(w, r)'
      <4>1. token[w] # 0
        BY <3>1, Executed
      <4> QED BY <2>2, <2>5, <4>1, KeepsHolder
    <3>6. HolderOK(w, job[w])' <=> HolderOK(w, r)'
      BY <2>5, <3>2 DEF HolderOK, NoneIn, AllSettled, CheckpointsOf
    <3>7. RunOK(job[w])'
      BY <2>2, <2>5, <3>1, <3>2, <3>3, <3>4, <3>5, <3>6, OwnRun
    <3> QED BY <2>5, <3>2, <3>7 DEF RunOK, Present, AtRest, OneToken, DoneComplete, HoldersOK,
               RequeuesOK, HolderOK, NoneIn, AllSettled, CheckpointsOf
  <2>6. CASE r = job[w] /\ ~Keeps(w)
    BY <2>3, <2>6, LeavesRun
  <2> QED BY <2>4, <2>5, <2>6
<1> QED BY <1>1, <1>2

LEMMA InitExpiry == Init => ExpiryInv
  BY DEF Init, ExpiryInv, ExpiredTask, Idle, Task

\* An agent updates checkpoints of q, and no run.  What it touches settles, was
\* missing, or belonged to a dispatch that is over.
LEMMA AgentCheckpoints ==
  ASSUME LeaseInv, ExecInv, HandInv, ExpiryInv, ~slipped, UNCHANGED <<runVars, workerVars, dropped>>,
         Calm, SettledKept, NEW r \in Runs, RunOK(r),
         \A c \in CheckpointsOf(r) :
            \/ ckStatus'[c] = ckStatus[c]
            \/ ckStatus[c] = "absent" /\ ckStatus'[c] = "pending"
            \/ ckStatus'[c] \in SettledStatuses
            \/ lease[r] # "live",
         \A b \in Agents : \/ task'[b] = task[b] \/ task'[b].kind # "requeue" \/ task'[b].run # r
                           \/ task'[b].token = runToken[r] => NoneIn(r, {"running"})'
  PROVE  RunOK(r)'
<1> USE DEF LeaseInv, TypeOK
<1>1. CheckpointsOf(r)' = CheckpointsOf(r) /\ \A c \in CheckpointsOf(r) : c \in Checkpoints
  BY DEF CheckpointsOf
<1>2. runStatus' = runStatus /\ runToken' = runToken /\ job' = job /\ token' = token
      /\ pc' = pc /\ todo' = todo /\ thread' = thread
  BY DEF runVars, workerVars
<1>3. \A S \in {{"absent"}, {"running"}} : NoneIn(r, S) => NoneIn(r, S)'
  BY <1>1 DEF NoneIn, Calm
<1>4. Present(r)' /\ AtRest(r)'
  BY <1>2, <1>3 DEF RunOK, Present, AtRest
<1>5. OneToken(r)'
  BY <1>1, <1>2 DEF RunOK, OneToken, Calm
<1>6. AllSettled(r) => AllSettled(r)'
  BY <1>1 DEF AllSettled, SettledKept
<1>7. DoneComplete(r)'
  BY <1>2, <1>6 DEF RunOK, DoneComplete
<1>8. HoldersOK(r)'
  <2> SUFFICES ASSUME NEW w \in Workers, job[w] = r, runToken[r] = token[w] PROVE HolderOK(w, r)'
    BY <1>2 DEF HoldersOK
  <2>1. HolderOK(w, r)
    BY DEF RunOK, HoldersOK
  <2>2. token[w] # 0 /\ lease[r] = "live" /\ runStatus[r] \in LeasedStatuses
    BY Executed, ConstantsAssumption DEF ConstantsAssumption
  <2>3. NoneIn(r, {"absent"})
    BY <2>2 DEF RunOK, Present, LeasedStatuses
  <2>4. ASSUME NEW c \in CheckpointsOf(r), InHand(w, c) PROVE InHand(w, c)'
    BY <1>2, <2>2, <2>3, <2>4 DEF InHand, NoneIn
  <2>5. ShouldAbort(w)' <=> ShouldAbort(w)
    BY DEF ShouldAbort, workerVars, eventVars
  <2> QED BY <1>1, <1>2, <1>3, <1>6, <2>1, <2>4, <2>5 DEF HolderOK
<1>9. RequeuesOK(r)'
  <2> SUFFICES ASSUME NEW b \in Agents, task'[b].kind = "requeue", task'[b].run = r,
                      task'[b].token = runToken[r]
               PROVE  NoneIn(r, {"running"})'
    BY <1>2 DEF RequeuesOK
  <2> QED BY <1>3 DEF RunOK, RequeuesOK
<1> QED BY <1>4, <1>5, <1>7, <1>8, <1>9 DEF RunOK

\* An agent gives a run a new status.
LEMMA AgentSetRun ==
  ASSUME LeaseInv, HandInv, NEW r \in Runs, RunOK(r), NEW f, NEW q, NEW s, SetRunIf(f, q, s),
         UNCHANGED <<ckVars, workerVars, dropped>>,
         \A b \in Agents : task'[b] = task[b] \/ task'[b].kind # "requeue",
         s \in {"queued", "failed", "cancelled"},
         f /\ q = r /\ s = "queued" => NoneIn(r, {"absent"}) /\ NoneIn(r, {"running"})
  PROVE  RunOK(r)'
<1>1. UNCHANGED <<ckStatus, ckToken, dropped>>
  BY DEF ckVars
<1>2. \A v \in Workers : job'[v] = r =>
            /\ pc'[v] = pc[v] /\ job'[v] = job[v] /\ token'[v] = token[v]
            /\ todo'[v] = todo[v] /\ thread'[v] = thread[v]
            /\ ShouldAbort(v)' <=> ShouldAbort(v)
  BY DEF workerVars, eventVars, ShouldAbort
<1> QED BY <1>1, <1>2, SetRunOK

\* A status that leaves the checkpoints and the claim of r alone.
LEMMA AgentStatus ==
  ASSUME LeaseInv, NEW r \in Runs, RunOK(r), UNCHANGED <<ckVars, workerVars, dropped>>,
         runToken' = runToken,
         \A b \in Agents : task'[b] = task[b] \/ task'[b].kind # "requeue",
         \/ runStatus'[r] = runStatus[r]
         \/ runStatus[r] \in {"absent", "preparing"} /\ runStatus'[r] = "preparing"
         \/ runStatus[r] = "running" /\ runStatus'[r] = "cancel_requested"
  PROVE  RunOK(r)'
<1>1. CheckpointsOf(r)' = CheckpointsOf(r) /\ UNCHANGED <<ckStatus, ckToken>>
  BY DEF CheckpointsOf, ckVars
<1>2. Present(r)' /\ AtRest(r)' /\ OneToken(r)' /\ DoneComplete(r)'
  BY <1>1 DEF RunOK, Present, AtRest, OneToken, DoneComplete, NoneIn, AllSettled
<1>3. RequeuesOK(r)'
  BY <1>1 DEF RunOK, RequeuesOK, NoneIn
<1>4. HoldersOK(r)'
  BY <1>1 DEF RunOK, HoldersOK, HolderOK, NoneIn, AllSettled, InHand, ShouldAbort, workerVars, eventVars
<1> QED BY <1>2, <1>3, <1>4 DEF RunOK

LEMMA TaskSet ==
  ASSUME TaskTypeOK, NEW a \in Agents, NEW k, k # "requeue", NEW r, NEW t,
         SetTask(a, k, r, t) \/ Done(a) \/ task' = task
  PROVE  \A b \in Agents : task'[b] = task[b] \/ task'[b].kind # "requeue"
  BY DEF TaskTypeOK, SetTask, Done, Idle, Task

\* The checkpoints of an expired dispatch go back to pending.
LEMMA ResetExpiredDone ==
  ASSUME LeaseInv, SendInv, ExecInv, HandInv, ExpiryInv, ~slipped, Next, NEW a \in Agents,
         ResetExpiredCheckpoints(a), AgentNext(a), NEW r \in Runs, RunOK(r)
  PROVE  RunOK(r)'
<1> USE DEF LeaseInv, TypeOK
<1>1. UNCHANGED <<runVars, workerVars, dropped>> /\ Calm /\ SettledKept
  BY AgentCalm, NextSettled DEF ResetExpiredCheckpoints, ghostVars
<1>2. PICK q, t : q = task[a].run /\ t = task[a].token
  OBVIOUS
<1>3. q \in Runs /\ t \in 1 .. dispatch[q] /\ task[a].kind = "expired"
  BY <1>2 DEF ResetExpiredCheckpoints, Doing, HandInv, TasksOK, TaskOK
<1>4. \A b \in Agents : task'[b] = IF b = a THEN Task("requeue", q, t) ELSE task[b]
  BY <1>2 DEF ResetExpiredCheckpoints, SetTask, TaskTypeOK
<1>5. SetCheckpoints(RunningUnder(q, t), "pending")
  BY <1>2 DEF ResetExpiredCheckpoints
<1>6. runToken[r] # 0 => \A c \in CheckpointsOf(r) : ckStatus[c] = "running" => ckToken[c] = runToken[r]
  BY DEF RunOK, OneToken
<1>7. t # 0
  BY <1>3 DEF RunTypeOK
<1>8. CASE q # r
  <2>1. \A c \in CheckpointsOf(r) : ckStatus'[c] = ckStatus[c]
    BY <1>5, <1>8 DEF SetCheckpoints, RunningUnder, CheckpointsOf
  <2>2. \A b \in Agents : task'[b] = task[b] \/ task'[b].run # r
    BY <1>4, <1>8 DEF Task
  <2> QED BY <1>1, <2>1, <2>2, AgentCheckpoints
<1>9. CASE q = r /\ runToken[r] # t
  <2>1. lease[r] = "live" => runToken[r] # 0
    BY DEF HandInv, LeaseHasToken
  <2>2. \A c \in CheckpointsOf(r) : ckStatus'[c] = ckStatus[c] \/ lease[r] # "live"
    BY <1>5, <1>6, <1>9, <2>1 DEF SetCheckpoints, RunningUnder, CheckpointsOf
  <2>3. \A b \in Agents : task'[b] = task[b] \/ task'[b].token # runToken[r]
    BY <1>4, <1>9 DEF Task
  <2> QED BY <1>1, <2>2, <2>3, AgentCheckpoints
<1>10. CASE q = r /\ runToken[r] = t
  <2>1. lease[r] # "live"
    BY <1>2, <1>3, <1>10 DEF ExpiryInv, ExpiredTask
  <2>2. NoneIn(r, {"running"})'
    BY <1>5, <1>6, <1>7, <1>10 DEF NoneIn, SetCheckpoints, RunningUnder, CheckpointsOf
  <2> QED BY <1>1, <2>1, <2>2, AgentCheckpoints
<1> QED BY <1>8, <1>9, <1>10

LEMMA AgentDone ==
  ASSUME LeaseInv, SendInv, ExecInv, HandInv, ExpiryInv, ~slipped, Next, NEW a \in Agents,
         AgentNext(a), NEW r \in Runs \ Orphans, RunOK(r)
  PROVE  RunOK(r)'
<1> USE DEF LeaseInv, TypeOK
<1>1. UNCHANGED <<workerVars, dropped>>
  BY AgentKeepsWorkers
<1>2. Calm /\ SettledKept
  BY AgentCalm, NextSettled
<1>3. ASSUME NEW k, k # "requeue", NEW q, NEW t, SetTask(a, k, q, t) \/ Done(a) \/ task' = task
      PROVE  \A b \in Agents : task'[b] = task[b] \/ task'[b].kind # "requeue"
  BY <1>3, TaskSet
<1>4. CASE EnsureCheckpoints(a) \/ CrashInEnsureCheckpoints(a)
  <2>1. \A c \in CheckpointsOf(r) : \/ ckStatus'[c] = ckStatus[c]
                                    \/ ckStatus[c] = "absent" /\ ckStatus'[c] = "pending"
    BY <1>4 DEF EnsureCheckpoints, CrashInEnsureCheckpoints, SetCheckpoints, CheckpointsOf
  <2>2. UNCHANGED runVars /\ \A b \in Agents : task'[b] = task[b] \/ task'[b].kind # "requeue"
    BY <1>3, <1>4 DEF EnsureCheckpoints, CrashInEnsureCheckpoints
  <2> QED BY <1>1, <1>2, <2>1, <2>2, AgentCheckpoints
<1>5. CASE FinalizeCheckpoints(a)
  <2>1. \A c \in CheckpointsOf(r) : ckStatus'[c] = ckStatus[c] \/ ckStatus'[c] \in SettledStatuses
    BY <1>5 DEF FinalizeCheckpoints, SetCheckpoints, CheckpointsOf, SettledStatuses
  <2>2. UNCHANGED runVars /\ \A b \in Agents : task'[b] = task[b] \/ task'[b].kind # "requeue"
    BY <1>3, <1>5 DEF FinalizeCheckpoints
  <2> QED BY <1>1, <1>2, <2>1, <2>2, AgentCheckpoints
<1>6. CASE ResetOrphanCheckpoints(a)
  <2>1. task[a].run \in Orphans
    BY <1>6 DEF ResetOrphanCheckpoints, Doing, HandInv, TasksOK, TaskOK
  <2>2. \A c \in CheckpointsOf(r) : ckStatus'[c] = ckStatus[c]
    BY <1>6, <2>1 DEF ResetOrphanCheckpoints, SetCheckpoints, CheckpointsOf
  <2>3. UNCHANGED runVars /\ \A b \in Agents : task'[b] = task[b] \/ task'[b].kind # "requeue"
    BY <1>3, <1>6 DEF ResetOrphanCheckpoints
  <2> QED BY <1>1, <1>2, <2>2, <2>3, AgentCheckpoints
<1>7. CASE QueuePrepared(a)
  <2>1. PICK q : q = task[a].run
    OBVIOUS
  <2>2. NoneIn(q, {"absent"})
    BY <1>7, <2>1 DEF QueuePrepared, Doing, HandInv, TasksOK, TaskOK
  <2>3. SetRunIf(runStatus[q] = "preparing", q, "queued") /\ UNCHANGED ckVars
        /\ \A b \in Agents : task'[b] = task[b] \/ task'[b].kind # "requeue"
    BY <1>3, <1>7, <2>1 DEF QueuePrepared
  <2>4. runStatus[r] = "preparing" => NoneIn(r, {"running"})
    BY DEF RunOK, AtRest
  <2> QED BY <1>1, <2>2, <2>3, <2>4, AgentSetRun
<1>8. CASE FinalizeCancelledRun(a)
  <2>1. SetRunIf(TRUE, task[a].run, "cancelled") /\ UNCHANGED ckVars
        /\ \A b \in Agents : task'[b] = task[b] \/ task'[b].kind # "requeue"
    BY <1>3, <1>8 DEF FinalizeCancelledRun, SetRunIf
  <2> QED BY <1>1, <2>1, AgentSetRun
<1>9. CASE RequeueExpired(a)
  <2>1. PICK q, t : q = task[a].run /\ t = task[a].token
    OBVIOUS
  <2> DEFINE f == runStatus[q] = "running" /\ runToken[q] = t /\ lease[q] = "expired"
  <2>2. SetRunIf(f, q, "queued") /\ UNCHANGED ckVars
    BY <1>9, <2>1 DEF RequeueExpired, SetRunIf
  <2>5. \A b \in Agents : task'[b] = task[b] \/ task'[b].kind # "requeue"
    BY <1>3, <1>9 DEF RequeueExpired
  <2>3. runToken[q] = t /\ q = r => NoneIn(r, {"running"})
    BY <1>9, <2>1 DEF RequeueExpired, Doing, RunOK, RequeuesOK
  <2>4. runStatus[r] = "running" => NoneIn(r, {"absent"})
    BY DEF RunOK, Present
  <2> QED BY <1>1, <2>2, <2>3, <2>4, <2>5, AgentSetRun
<1>10. CASE RequeueOrphan(a)
  <2>1. PICK q : q = task[a].run
    OBVIOUS
  <2>2. q \in Orphans
    BY <1>10, <2>1 DEF RequeueOrphan, Doing, HandInv, TasksOK, TaskOK
  <2>3. SetRunIf(runStatus[q] = "running" /\ lease[q] = "none", q, "queued") /\ UNCHANGED ckVars
        /\ \A b \in Agents : task'[b] = task[b] \/ task'[b].kind # "requeue"
    BY <1>3, <1>10, <2>1 DEF RequeueOrphan
  <2> QED BY <1>1, <2>2, <2>3, AgentSetRun
<1>11. ASSUME NEW q \in Runs, ResumeExecution(a, q) \/ FailPreparing(a, q) PROVE RunOK(r)'
  <2>1. PICK s \in {"queued", "failed"} : SetRunIf(TRUE, q, s) /\ (s = "queued" => runStatus[q] = "paused")
    BY <1>11 DEF ResumeExecution, FailPreparing, SetRunIf
  <2>2. task' = task /\ UNCHANGED ckVars
    BY <1>11 DEF ResumeExecution, FailPreparing
  <2>3. runStatus[r] = "paused" => NoneIn(r, {"running"}) /\ NoneIn(r, {"absent"})
    BY DEF RunOK, AtRest, Present
  <2> QED BY <1>1, <2>1, <2>2, <2>3, AgentSetRun
<1>12. ASSUME NEW q \in Runs, EnqueueSnapshotBatch(a, q) \/ RequestExecutionCancel(a, q)
       PROVE  RunOK(r)'
  <2>1. /\ UNCHANGED ckVars /\ runToken' = runToken
        /\ \A b \in Agents : task'[b] = task[b] \/ task'[b].kind # "requeue"
    BY <1>3, <1>12 DEF EnqueueSnapshotBatch, RequestExecutionCancel
  <2>2. \/ runStatus'[r] = runStatus[r]
        \/ runStatus[r] \in {"absent", "preparing"} /\ runStatus'[r] = "preparing"
        \/ runStatus[r] = "running" /\ runStatus'[r] = "cancel_requested"
    BY <1>12 DEF EnqueueSnapshotBatch, RequestExecutionCancel, RunTypeOK
  <2> QED BY <1>1, <2>1, <2>2, AgentStatus
<1>13. ASSUME NEW q \in Runs, \/ RecoverPreparing(a, q) \/ ListExpired(a, q) \/ ListOrphan(a, q)
                              \/ RecoverCancelRequested(a, q)
       PROVE  RunOK(r)'
  <2>1. /\ UNCHANGED <<ckVars, runVars>>
        /\ \A b \in Agents : task'[b] = task[b] \/ task'[b].kind # "requeue"
    BY <1>3, <1>13 DEF RecoverPreparing, ListExpired, ListOrphan, RecoverCancelRequested
  <2> QED BY <1>1, <2>1, AgentStatus DEF runVars
<1>14. CASE AgentCrash(a)
  <2>1. /\ UNCHANGED <<ckVars, runVars>>
        /\ \A b \in Agents : task'[b] = task[b] \/ task'[b].kind # "requeue"
    BY <1>3, <1>14 DEF AgentCrash
  <2> QED BY <1>1, <2>1, AgentStatus DEF runVars
<1> QED
  BY <1>4, <1>5, <1>6, <1>7, <1>8, <1>9, <1>10, <1>11, <1>12, <1>13, <1>14, ResetExpiredDone
  DEF AgentNext, Recover, Continue

LEMMA NextDone ==
  ASSUME LeaseInv, SendInv, ExecInv, HandInv, ExpiryInv, DoneInv, [Next]_vars PROVE DoneInv'
<1>1. SUFFICES ASSUME ~slipped', NEW r \in Runs \ Orphans PROVE RunOK(r)'
  BY DEF DoneInv
<1>2. ~slipped
  BY <1>1, SlippedStays DEF LeaseInv
<1>3. RunOK(r)
  BY <1>2 DEF DoneInv
<1>4. CASE UNCHANGED vars
  BY <1>3, <1>4, FrameRun DEF vars, runVars, ckVars, workerVars, eventVars, ghostVars, ShouldAbort
<1>5. ASSUME Next PROVE RunOK(r)'
  <2>1. ASSUME NEW a \in Agents, AgentNext(a) PROVE RunOK(r)'
    BY <1>2, <1>3, <1>5, <2>1, AgentDone
  <2>2. ASSUME NEW w \in Workers, WorkerStep(w) \/ Heartbeat(w) \/ WorkerFault(w) PROVE RunOK(r)'
    BY <1>2, <1>3, <1>5, <2>2, WorkerDone
  <2>3. ASSUME NEW q \in Runs, ExpireLease(q) PROVE RunOK(r)'
    BY <1>3, <2>3, FrameRun DEF ExpireLease, ckVars, workerVars, eventVars, ShouldAbort
  <2> QED BY <1>5, <2>1, <2>2, <2>3 DEF Next
<1> QED BY <1>4, <1>5

\* Whatever crashes, stops, is cancelled or is given to another worker, what is
\* reported done was done: a done checkpoint has a result, and it is the result
\* the checkpoint reports; a done run has settled every checkpoint.
THEOREM DoneRecorded == Spec => []DoneIsRecorded
<1> DEFINE I == LeaseInv /\ SendInv /\ ExecInv /\ HandInv /\ ExpiryInv /\ ResultInv /\ DoneInv
<1>1. Init => I
  BY InitLeaseInv, InitSends, InitExec, InitHand, InitExpiry, InitResults, InitDone
<1>2. I /\ [Next]_vars => I'
  BY NextLeaseInv, NextSends, NextExec, NextHand, NextExpiry, NextResults, NextDone
<1>3. I => DoneIsRecorded
  <2> SUFFICES ASSUME I PROVE DoneCheckpointHasResult /\ DoneRunIsComplete
    BY DEF DoneIsRecorded, LeaseInv
  <2>1. DoneCheckpointHasResult
    BY DEF DoneCheckpointHasResult, ResultInv, ResultsBacked, ResultsAgree
  <2>2. DoneRunIsComplete
    BY DEF DoneRunIsComplete, DoneInv, RunOK, DoneComplete, AllSettled
  <2> QED BY <2>1, <2>2
<1> QED BY <1>1, <1>2, <1>3, PTL DEF Spec

-----------------------------------------------------------------------------
(* The scheduler implements RunContract.  A run that somebody works on was  *)
(* accepted; every step is a step of the contract or invisible to it.       *)

AcceptedInv ==
    /\ \A w \in Workers : job[w] # NoRun => runStatus[job[w]] # "absent"
    /\ \A a \in Agents : task[a].kind # "idle" => runStatus[task[a].run] # "absent"

\* The refinement mapping, by its parts.
PhaseOf(s) == CASE s = "absent" -> "absent"
                [] s = "paused" -> "paused"
                [] s \in FINAL_RUN_STATUSES -> "closed"
                [] OTHER -> "open"
OutcomeOf(s) == IF s \in SettledStatuses THEN s ELSE "open"
Phases == [r \in Runs |-> PhaseOf(runStatus[r])]
OutcomesShown == [c \in Checkpoints |-> OutcomeOf(ckStatus[c])]

\* What the contract lets a run do in one step.
PhaseStep(from, to) ==
    \/ from = "absent" /\ to = "open"
    \/ from = "open" /\ to = "paused"
    \/ from = "paused" /\ to = "open"
    \/ from \in {"open", "paused"} /\ to = "closed"

Visible == Contract!ContractNext \/ UNCHANGED <<Phases, OutcomesShown, results>>

LEMMA VisibleStep == Visible => [Contract!ContractNext]_(Contract!contractVars)
  BY DEF Visible, Contract!contractVars, Phases, OutcomesShown, PhaseOf, OutcomeOf

LEMMA InitContract == Init => Contract!ContractInit
<1> SUFFICES ASSUME Init PROVE Contract!ContractInit
  OBVIOUS
<1>1. \A r \in Runs : runStatus[r] = IF r \in Orphans THEN "running" ELSE "absent"
  BY DEF Init
<1>2. \A c \in Checkpoints : ckStatus[c] \in {"running", "absent"}
  BY DEF Init
<1> QED BY <1>1, <1>2 DEF Contract!ContractInit, Init, FINAL_RUN_STATUSES, SettledStatuses

LEMMA MoveVisible ==
  ASSUME NEW r \in Runs, NEW t, PhaseStep(Phases[r], t), Phases' = [Phases EXCEPT ![r] = t],
         UNCHANGED <<OutcomesShown, results>>
  PROVE  Visible
<1>1. ASSUME NEW S, Phases[r] \in S PROVE Contract!Move(r, S, t)
  BY <1>1 DEF Contract!Move, Phases, OutcomesShown, PhaseOf, OutcomeOf
<1>2. Contract!Accept(r) \/ Contract!Pause(r) \/ Contract!Resume(r) \/ Contract!Close(r)
  BY <1>1 DEF PhaseStep, Contract!Accept, Contract!Pause, Contract!Resume, Contract!Close
<1> QED BY <1>2 DEF Visible, Contract!ContractNext

\* One run changes its status.
LEMMA StatusVisible ==
  ASSUME TypeOK, NEW q \in Runs, NEW s, runStatus' = [runStatus EXCEPT ![q] = s],
         UNCHANGED <<ckStatus, results>>,
         \/ PhaseOf(runStatus[q]) = PhaseOf(s)
         \/ PhaseStep(PhaseOf(runStatus[q]), PhaseOf(s))
  PROVE  Visible
<1>1. \A r \in Runs : runStatus'[r] = IF r = q THEN s ELSE runStatus[r]
  BY DEF TypeOK, RunTypeOK
<1>2. \A r \in Runs : Phases'[r] = IF r = q THEN PhaseOf(s) ELSE Phases[r]
  BY <1>1 DEF Phases
<1>3. Phases' = [Phases EXCEPT ![q] = PhaseOf(s)]
  BY <1>2 DEF Phases
<1>4. UNCHANGED <<OutcomesShown, results>>
  BY DEF OutcomesShown
<1>5. Phases[q] = PhaseOf(runStatus[q])
  BY DEF Phases
<1>6. CASE PhaseStep(PhaseOf(runStatus[q]), PhaseOf(s))
  BY <1>3, <1>4, <1>5, <1>6, MoveVisible
<1>7. CASE PhaseOf(runStatus[q]) = PhaseOf(s)
  <2>1. Phases' = Phases
    BY <1>2, <1>5, <1>7 DEF Phases
  <2> QED BY <1>4, <2>1 DEF Visible
<1> QED BY <1>6, <1>7

\* Checkpoints of one accepted run change their status.
LEMMA CheckpointsVisible ==
  ASSUME TypeOK, NEW q \in Runs, runStatus[q] # "absent", NEW S \in SUBSET CheckpointsOf(q),
         NEW s \in CkStatuses, \A c \in S : ckStatus[c] \notin SettledStatuses,
         s = "done" => \A c \in S : results[c] # "none",
         \A c \in Checkpoints : ckStatus'[c] = IF c \in S THEN s ELSE ckStatus[c],
         UNCHANGED <<runStatus, results>>
  PROVE  Visible
<1>1. Phases' = Phases
  BY DEF Phases
<1>2. \A c \in Checkpoints : OutcomesShown'[c] = IF c \in S THEN OutcomeOf(s) ELSE OutcomesShown[c]
  BY DEF OutcomesShown
<1>3. \A c \in S : OutcomesShown[c] = "open" /\ c \in Checkpoints /\ RunOf[c] = q
  BY DEF OutcomesShown, OutcomeOf, CheckpointsOf
<1>4. CASE s \notin SettledStatuses
  <2>1. OutcomesShown' = OutcomesShown
    BY <1>2, <1>3, <1>4 DEF OutcomesShown, OutcomeOf
  <2> QED BY <1>1, <2>1 DEF Visible
<1>5. CASE s \in SettledStatuses
  <2>1. Phases[q] # "absent"
    BY DEF Phases, PhaseOf
  <2>2. OutcomesShown' = [c \in Checkpoints |-> IF c \in S THEN s ELSE OutcomesShown[c]]
    BY <1>2, <1>5 DEF OutcomesShown, OutcomeOf
  <2>3. Contract!Settle(q, S, s)
    BY <1>1, <1>3, <2>1, <2>2 DEF Contract!Settle, Phases, OutcomesShown, PhaseOf, OutcomeOf
  <2>4. S \in SUBSET Checkpoints
    BY <1>3
  <2> QED BY <1>5, <2>3, <2>4 DEF Visible, Contract!ContractNext, SettledStatuses
<1> QED BY <1>4, <1>5

\* A result is recorded for a checkpoint of an accepted run.
LEMMA RecordVisible ==
  ASSUME TypeOK, NEW c \in Checkpoints, NEW o \in Outcomes, runStatus[RunOf[c]] # "absent",
         results' = [results EXCEPT ![c] = IF @ = "none" THEN o ELSE @],
         UNCHANGED <<runStatus, ckStatus>>
  PROVE  Visible
<1>1. UNCHANGED <<Phases, OutcomesShown>>
  BY DEF Phases, OutcomesShown
<1>2. CASE results[c] # "none"
  <2>1. results' = results
    BY <1>2 DEF TypeOK
  <2> QED BY <1>1, <2>1 DEF Visible
<1>3. CASE results[c] = "none"
  <2>1. RunOf[c] \in Runs
    BY ConstantsAssumption DEF ConstantsAssumption
  <2>2. Phases[RunOf[c]] # "absent"
    BY <2>1 DEF Phases, PhaseOf
  <2>3. results' = [results EXCEPT ![c] = o]
    BY <1>3
  <2>4. Contract!Record(c, o)
    BY <1>1, <1>3, <2>2, <2>3 DEF Contract!Record, Phases, OutcomesShown, PhaseOf, OutcomeOf
  <2> QED BY <2>4 DEF Visible, Contract!ContractNext, Outcomes
<1> QED BY <1>2, <1>3

LEMMA SameVisible == UNCHANGED <<runStatus, ckStatus, results>> => Visible
  BY DEF Visible, Phases, OutcomesShown

LEMMA PhaseOfStatus ==
  /\ PhaseOf("absent") = "absent" /\ PhaseOf("paused") = "paused"
  /\ \A s \in {"preparing", "queued", "running", "cancel_requested"} : PhaseOf(s) = "open"
  /\ \A s \in FINAL_RUN_STATUSES : PhaseOf(s) = "closed"
  /\ \A s \in RunStatuses : s # "absent" => PhaseOf(s) \in {"open", "paused", "closed"}
  BY DEF PhaseOf, FINAL_RUN_STATUSES, RunStatuses

LEMMA SetRunVisible ==
  ASSUME TypeOK, NEW q \in Runs, NEW s, NEW f, SetRunIf(f, q, s), UNCHANGED <<ckVars, results>>,
         f => PhaseOf(runStatus[q]) = PhaseOf(s) \/ PhaseStep(PhaseOf(runStatus[q]), PhaseOf(s))
  PROVE  Visible
<1>1. CASE f
  BY <1>1, StatusVisible DEF SetRunIf, SetRun, ckVars
<1>2. CASE ~f
  BY <1>2, SameVisible DEF SetRunIf, runVars, ckVars
<1> QED BY <1>1, <1>2

LEMMA SetCheckpointsVisible ==
  ASSUME TypeOK, NEW q \in Runs, runStatus[q] # "absent", NEW S \in SUBSET CheckpointsOf(q),
         NEW s \in CkStatuses, \A c \in S : ckStatus[c] \notin SettledStatuses,
         s = "done" => \A c \in S : results[c] # "none",
         SetCheckpoints(S, s), UNCHANGED <<runVars, results>>
  PROVE  Visible
<1>1. \A c \in Checkpoints : ckStatus'[c] = IF c \in S THEN s ELSE ckStatus[c]
  BY DEF SetCheckpoints
<1>2. UNCHANGED <<runStatus, results>>
  BY DEF runVars
<1> QED BY <1>1, <1>2, CheckpointsVisible

LEMMA FinishVisible ==
  ASSUME TypeOK, NEW w \in Workers, NEW c \in Checkpoints, runStatus[RunOf[c]] # "absent",
         NEW s \in CkStatuses, FinishCheckpoint(w, c, s), s = "done" => results[c] # "none",
         UNCHANGED <<runVars, results>>
  PROVE  Visible
<1>1. RunOf[c] \in Runs /\ {c} \in SUBSET CheckpointsOf(RunOf[c])
  BY ConstantsAssumption DEF ConstantsAssumption, CheckpointsOf
<1>2. CASE OwnsCheckpoint(w, c)
  <2>1. ckStatus[c] \notin SettledStatuses /\ SetCheckpoints({c}, s)
    BY <1>2 DEF OwnsCheckpoint, SettledStatuses, FinishCheckpoint
  <2> QED BY <1>1, <2>1, SetCheckpointsVisible
<1>3. CASE ~OwnsCheckpoint(w, c)
  BY <1>3, SameVisible DEF FinishCheckpoint, ckVars, runVars
<1> QED BY <1>2, <1>3

LEMMA AgentVisible ==
  ASSUME LeaseInv, HandInv, AcceptedInv, NEW a \in Agents, AgentNext(a) PROVE Visible
<1> USE DEF LeaseInv
<1> USE PhaseOfStatus
<1>1. task[a].kind # "idle" => task[a].run \in Runs /\ runStatus[task[a].run] # "absent"
  BY DEF HandInv, TasksOK, TaskOK, AcceptedInv
<1>2. results' = results
  BY AgentKeepsWorkers
<1>3. \A r \in Runs : runStatus[r] \in RunStatuses
  BY DEF TypeOK, RunTypeOK
<1>4. "pending" \in CkStatuses /\ "cancelled" \in CkStatuses
  BY DEF CkStatuses, OpenStatuses, SettledStatuses
<1>5. CASE \/ EnsureCheckpoints(a) \/ CrashInEnsureCheckpoints(a)
           \/ FinalizeCheckpoints(a) \/ ResetExpiredCheckpoints(a) \/ ResetOrphanCheckpoints(a)
  <2>1. PICK q : q = task[a].run
    OBVIOUS
  <2>2. q \in Runs /\ runStatus[q] # "absent"
    BY <1>1, <1>5, <2>1 DEF EnsureCheckpoints, CrashInEnsureCheckpoints, FinalizeCheckpoints,
       ResetExpiredCheckpoints, ResetOrphanCheckpoints, Doing
  <2>3. \E S \in SUBSET CheckpointsOf(q), s \in {"pending", "cancelled"} :
           SetCheckpoints(S, s) /\ \A c \in S : ckStatus[c] \notin SettledStatuses
    BY <1>5, <2>1 DEF EnsureCheckpoints, CrashInEnsureCheckpoints, FinalizeCheckpoints,
       ResetExpiredCheckpoints, ResetOrphanCheckpoints, RunningUnder, OpenOf, OpenStatuses,
       SettledStatuses
  <2>4. UNCHANGED runVars
    BY <1>5 DEF EnsureCheckpoints, CrashInEnsureCheckpoints, FinalizeCheckpoints,
       ResetExpiredCheckpoints, ResetOrphanCheckpoints
  <2> QED BY <1>2, <1>4, <2>2, <2>3, <2>4, SetCheckpointsVisible
<1>6. CASE QueuePrepared(a) \/ RequeueExpired(a) \/ RequeueOrphan(a) \/ FinalizeCancelledRun(a)
  <2>1. PICK q : q = task[a].run
    OBVIOUS
  <2>2. q \in Runs /\ runStatus[q] # "absent"
    BY <1>1, <1>6, <2>1 DEF QueuePrepared, RequeueExpired, RequeueOrphan, FinalizeCancelledRun, Doing
  <2>3. \/ \E f : SetRunIf(f, q, "queued") /\ (f => runStatus[q] \in {"preparing", "running"})
        \/ SetRunIf(TRUE, q, "cancelled")
    <3>1. CASE QueuePrepared(a)
      BY <2>1, <3>1 DEF QueuePrepared
    <3>2. CASE RequeueExpired(a)
      <4> DEFINE f == runStatus[q] = "running" /\ runToken[q] = task[a].token /\ lease[q] = "expired"
      <4>1. SetRunIf(f, q, "queued")
        BY <2>1, <3>2 DEF RequeueExpired, SetRunIf
      <4> QED BY <4>1
    <3>3. CASE RequeueOrphan(a)
      BY <2>1, <3>3 DEF RequeueOrphan
    <3>4. CASE FinalizeCancelledRun(a)
      BY <2>1, <3>4 DEF FinalizeCancelledRun, SetRunIf
    <3> QED BY <1>6, <3>1, <3>2, <3>3, <3>4
  <2>4. UNCHANGED ckVars
    BY <1>6 DEF QueuePrepared, RequeueExpired, RequeueOrphan, FinalizeCancelledRun
  <2>5. CASE \E f : SetRunIf(f, q, "queued") /\ (f => runStatus[q] \in {"preparing", "running"})
    <3>1. PICK f : SetRunIf(f, q, "queued") /\ (f => runStatus[q] \in {"preparing", "running"})
      BY <2>5
    <3>2. f => PhaseOf(runStatus[q]) = PhaseOf("queued")
      BY <3>1
    <3> QED BY <1>2, <2>2, <2>4, <3>1, <3>2, SetRunVisible
  <2>6. CASE SetRunIf(TRUE, q, "cancelled")
    <3>1. PhaseOf("cancelled") = "closed" /\ PhaseOf(runStatus[q]) \in {"open", "paused", "closed"}
      BY <1>3, <2>2 DEF FINAL_RUN_STATUSES
    <3> QED BY <1>2, <2>2, <2>4, <2>6, <3>1, SetRunVisible DEF PhaseStep
  <2> QED BY <2>3, <2>5, <2>6
<1>7. ASSUME NEW q \in Runs, ResumeExecution(a, q) \/ FailPreparing(a, q) PROVE Visible
  <2>1. PICK s \in {"queued", "failed"} : SetRunIf(TRUE, q, s)
                 /\ (s = "queued" => runStatus[q] = "paused")
                 /\ (s = "failed" => runStatus[q] = "preparing")
    BY <1>7 DEF ResumeExecution, FailPreparing, SetRunIf
  <2>2. UNCHANGED ckVars
    BY <1>7 DEF ResumeExecution, FailPreparing
  <2>3. PhaseStep(PhaseOf(runStatus[q]), PhaseOf(s))
    BY <2>1 DEF PhaseStep, FINAL_RUN_STATUSES
  <2> QED BY <1>2, <2>1, <2>2, <2>3, SetRunVisible
<1>8. ASSUME NEW q \in Runs, EnqueueSnapshotBatch(a, q) PROVE Visible
  <2>1. runStatus' = [runStatus EXCEPT ![q] = "preparing"] /\ UNCHANGED <<ckStatus, results>>
        /\ runStatus[q] \in {"absent", "preparing"}
    BY <1>8 DEF EnqueueSnapshotBatch, ckVars
  <2> QED BY <2>1, StatusVisible DEF PhaseStep
<1>9. ASSUME NEW q \in Runs, RequestExecutionCancel(a, q) PROVE Visible
  <2>1. CASE runStatus' = runStatus
    BY <1>9, <2>1, SameVisible DEF RequestExecutionCancel, ckVars
  <2>2. CASE runStatus[q] = "running" /\ runStatus' = [runStatus EXCEPT ![q] = "cancel_requested"]
    BY <1>9, <2>2, StatusVisible DEF RequestExecutionCancel, ckVars
  <2> QED BY <1>9, <2>1, <2>2 DEF RequestExecutionCancel
<1>10. CASE UNCHANGED <<runVars, ckVars>>
  BY <1>2, <1>10, SameVisible DEF runVars, ckVars
<1> HIDE PhaseOfStatus
<1> QED
  BY <1>5, <1>6, <1>7, <1>8, <1>9, <1>10
  DEF AgentNext, Recover, Continue, RecoverPreparing, ListExpired, ListOrphan,
      RecoverCancelRequested, AgentCrash

LEMMA WorkerVisible ==
  ASSUME LeaseInv, SendInv, ResultInv, AcceptedInv, NEW w \in Workers,
         WorkerStep(w) \/ Heartbeat(w) \/ WorkerFault(w)
  PROVE  Visible
<1> USE DEF LeaseInv
<1>1. CASE UNCHANGED <<runVars, ckVars, results>>
  BY <1>1, SameVisible DEF runVars, ckVars
<1>2. ASSUME NEW q \in Runs, ClaimNextExecution(w, q) PROVE Visible
  <2>1. runStatus' = [runStatus EXCEPT ![q] = "running"] /\ UNCHANGED <<ckStatus, results>>
        /\ runStatus[q] = "queued"
    BY <1>2 DEF ClaimNextExecution, Queued, ckVars
  <2> QED BY <2>1, StatusVisible, PhaseOfStatus
<1>3. CASE StartRun(w) \/ Heartbeat(w)
  BY <1>3, SameVisible DEF StartRun, Heartbeat, ckVars
<1>4. CASE PauseClaimedRun(w) \/ ReturnFromRun(w) \/ HandleDispatchFailure(w)
  <2>1. pc[w] # "idle" /\ UNCHANGED <<ckVars, results>>
    BY <1>4 DEF PauseClaimedRun, ReturnFromRun, HandleDispatchFailure
  <2>2. PICK r : r = job[w]
    OBVIOUS
  <2>3. r \in Runs /\ token[w] # 0
    BY <2>1, <2>2 DEF ClaimsOK, TypeOK, WorkerTypeOK, RunTypeOK
  <2>4. HoldsLease(w) => runStatus[r] \in LeasedStatuses
    BY <2>2, <2>3, LeaseParts DEF RunTokens, HoldsLease
  <2>5. \E s \in {"queued", "paused", "cancelled", "done", "failed"} :
           (HoldsLease(w) /\ SetRun(r, s)) \/ UNCHANGED runVars
    BY <1>4, <2>2 DEF PauseClaimedRun, ReturnFromRun, HandleDispatchFailure, SetRunIf
  <2>6. PICK s \in {"queued", "paused", "cancelled", "done", "failed"} :
           (HoldsLease(w) /\ SetRun(r, s)) \/ UNCHANGED runVars
    BY <2>5
  <2>7. PhaseOf(s) \in {"open", "paused", "closed"}
    BY <2>6, PhaseOfStatus DEF FINAL_RUN_STATUSES
  <2>8. HoldsLease(w) => PhaseOf(runStatus[r]) = "open"
    BY <2>4, PhaseOfStatus DEF LeasedStatuses
  <2>9. CASE HoldsLease(w) /\ SetRun(r, s)
    <3>1. SetRunIf(TRUE, r, s)
      BY <2>9 DEF SetRunIf
    <3> QED BY <2>1, <2>3, <2>7, <2>8, <2>9, <3>1, SetRunVisible DEF PhaseStep
  <2> QED BY <1>1, <2>1, <2>6, <2>9
<1>5. CASE LeaveStopping(w) \/ LeavePaused(w) \/ LeaveCancelled(w) \/ ReleaseAfterFailure(w)
  <2>1. pc[w] # "idle" /\ UNCHANGED <<runVars, results>>
    BY <1>5 DEF LeaveStopping, LeavePaused, LeaveCancelled, ReleaseAfterFailure, LoopEnded
  <2>2. PICK r : r = job[w]
    OBVIOUS
  <2>3. r \in Runs /\ runStatus[r] # "absent"
    BY <2>1, <2>2 DEF ClaimsOK, TypeOK, WorkerTypeOK, AcceptedInv
  <2>4. \E S \in SUBSET CheckpointsOf(r), s \in {"pending", "cancelled"} :
           SetCheckpoints(S, s) /\ \A c \in S : ckStatus[c] \notin SettledStatuses
    BY <1>5, <2>2 DEF LeaveStopping, LeavePaused, LeaveCancelled, ReleaseAfterFailure,
       ReleaseCheckpoints, RunningUnder, OpenOf, OpenStatuses, SettledStatuses
  <2>5. "pending" \in CkStatuses /\ "cancelled" \in CkStatuses
    BY DEF CkStatuses, OpenStatuses, SettledStatuses
  <2> QED BY <2>1, <2>3, <2>4, <2>5, SetCheckpointsVisible
<1>6. ASSUME NEW c \in Checkpoints, ThreadStep(w, c) \/ AuthFailure(w, c) \/ MarkFutureFailure(w, c)
      PROVE  Visible
  <2>1. RunOf[c] = job[w] /\ pc[w] # "idle"
    BY <1>6 DEF ThreadStep, ClaimCheckpoint, CheckExistingResult, SnapshotNotFound, FinishBlocked,
       Permit, Replay, RecordExecutionResult, FinishRecorded, AuthFailure, MarkFutureFailure,
       SendInv, ThreadsOK, Outcomes
  <2>2. runStatus[RunOf[c]] # "absent"
    BY <2>1 DEF ClaimsOK, AcceptedInv
  <2>3. ASSUME NEW s \in SettledStatuses \cup {"pending"}, FinishCheckpoint(w, c, s),
               s = "done" => results[c] # "none", UNCHANGED <<runVars, results>>
        PROVE  Visible
    BY <2>2, <2>3, FinishVisible DEF CkStatuses, OpenStatuses
  <2>4. CASE ClaimCheckpoint(w, c)
    <3>1. CASE ckStatus[c] = "pending"
      <4>1. \A d \in Checkpoints : ckStatus'[d] = IF d \in {c} THEN "running" ELSE ckStatus[d]
        BY <2>4, <3>1 DEF ClaimCheckpoint, TypeOK, CheckpointTypeOK
      <4>2. UNCHANGED <<runStatus, results>> /\ "running" \in CkStatuses
        BY <2>4 DEF ClaimCheckpoint, runVars, CkStatuses, OpenStatuses
      <4>3. RunOf[c] \in Runs /\ {c} \in SUBSET CheckpointsOf(RunOf[c])
        BY ConstantsAssumption DEF ConstantsAssumption, CheckpointsOf
      <4>4. ckStatus[c] \notin SettledStatuses
        BY <3>1 DEF SettledStatuses
      <4> QED BY <2>2, <4>1, <4>2, <4>3, <4>4, CheckpointsVisible
    <3>2. CASE ckStatus[c] # "pending"
      BY <1>1, <2>4, <3>2 DEF ClaimCheckpoint
    <3> QED BY <3>1, <3>2
  <2>5. CASE CheckExistingResult(w, c)
    BY <1>1, <2>3, <2>5 DEF CheckExistingResult, SettledStatuses
  <2>6. CASE SnapshotNotFound(w, c) \/ FinishBlocked(w, c) \/ AuthFailure(w, c)
    BY <2>3, <2>6 DEF SnapshotNotFound, FinishBlocked, AuthFailure, SettledStatuses
  <2>7. CASE FinishRecorded(w, c)
    <3>1. results[c] # "none"
      BY <2>7 DEF FinishRecorded, ResultInv, ResultsBacked
    <3> QED BY <2>3, <2>7, <3>1 DEF FinishRecorded, SettledStatuses
  <2>8. CASE MarkFutureFailure(w, c)
    BY <1>1, <2>3, <2>8 DEF MarkFutureFailure, SettledStatuses
  <2>9. CASE RecordExecutionResult(w, c)
    <3>1. UNCHANGED <<runStatus, ckStatus>>
      BY <2>9 DEF RecordExecutionResult, runVars, ckVars
    <3> QED BY <2>2, <2>9, <3>1, RecordVisible DEF RecordExecutionResult
  <2>10. CASE Permit(w, c) \/ Replay(w, c)
    BY <1>1, <2>10 DEF Permit, Replay
  <2> QED BY <1>6, <2>4, <2>5, <2>6, <2>7, <2>8, <2>9, <2>10 DEF ThreadStep
<1> QED
  BY <1>1, <1>2, <1>3, <1>4, <1>5, <1>6
  DEF WorkerStep, WorkerFault, ListPending, NoticeCancel, LeaveDone, Restart, Submit,
      RunFails, Crash, Stop

LEMMA SetRunStays ==
  ASSUME TypeOK, NEW q, NEW s, SetRun(q, s), s # "absent", NEW r \in Runs, runStatus'[r] = "absent"
  PROVE  runStatus[r] = "absent"
  BY DEF SetRun, TypeOK, RunTypeOK

\* An accepted run stays accepted.
LEMMA StaysAccepted ==
  ASSUME TypeOK, [Next]_vars, NEW r \in Runs, runStatus'[r] = "absent" PROVE runStatus[r] = "absent"
<1>1. CASE runStatus' = runStatus
  BY <1>1
<1>2. CASE \E q, s : SetRun(q, s) /\ s # "absent"
  BY <1>2, SetRunStays
<1>4. ASSUME NEW a \in Agents, AgentNext(a) PROVE runStatus[r] = "absent"
  <2>1. ASSUME NEW q \in Runs, EnqueueSnapshotBatch(a, q) \/ RequestExecutionCancel(a, q)
        PROVE  runStatus[r] = "absent"
    BY <2>1 DEF EnqueueSnapshotBatch, RequestExecutionCancel, TypeOK, RunTypeOK
  <2>2. CASE UNCHANGED runVars
    BY <1>1, <2>2 DEF runVars
  <2>3. CASE QueuePrepared(a) \/ RequeueExpired(a) \/ RequeueOrphan(a)
    BY <1>2, <2>2, <2>3 DEF QueuePrepared, RequeueExpired, RequeueOrphan, SetRunIf
  <2>4. CASE FinalizeCancelledRun(a) \/ \E q \in Runs : ResumeExecution(a, q) \/ FailPreparing(a, q)
    BY <1>2, <2>4 DEF FinalizeCancelledRun, ResumeExecution, FailPreparing
  <2> QED
    BY <1>4, <2>1, <2>2, <2>3, <2>4
    DEF AgentNext, Recover, Continue, EnsureCheckpoints, CrashInEnsureCheckpoints,
        FinalizeCheckpoints, ResetExpiredCheckpoints, ResetOrphanCheckpoints,
        RecoverPreparing, ListExpired, ListOrphan, RecoverCancelRequested, AgentCrash
<1>5. ASSUME NEW w \in Workers, WorkerStep(w) \/ Heartbeat(w) \/ WorkerFault(w)
      PROVE  runStatus[r] = "absent"
  <2>1. ASSUME NEW q \in Runs, ClaimNextExecution(w, q) PROVE runStatus[r] = "absent"
    BY <2>1 DEF ClaimNextExecution, TypeOK, RunTypeOK
  <2>2. CASE Keeps(w)
    BY <1>1, <2>2, KeepsClaim
  <2>3. CASE PauseClaimedRun(w) \/ ReturnFromRun(w) \/ HandleDispatchFailure(w)
    BY <1>1, <1>2, <2>3 DEF PauseClaimedRun, ReturnFromRun, HandleDispatchFailure, SetRunIf, runVars
  <2> QED
    BY <1>1, <1>5, <2>1, <2>2, <2>3
    DEF Keeps, WorkerStep, WorkerFault, StartRun, Crash, runVars
<1>6. CASE \E q \in Runs : ExpireLease(q)
  BY <1>1, <1>6 DEF ExpireLease
<1> QED BY <1>1, <1>4, <1>5, <1>6 DEF Next, vars, runVars

LEMMA InitAccepted == Init => AcceptedInv
  BY DEF Init, AcceptedInv, Idle, Task

LEMMA NextAccepted ==
  ASSUME LeaseInv, SendInv, HandInv, AcceptedInv, [Next]_vars PROVE AcceptedInv'
<1> USE DEF LeaseInv, TypeOK
<1>1. \A r \in Runs : runStatus[r] # "absent" => runStatus'[r] # "absent"
  BY StaysAccepted
<1>2. ASSUME NEW w \in Workers, job'[w] # NoRun PROVE runStatus'[job'[w]] # "absent"
  <2>1. CASE job'[w] = job[w]
    BY <1>1, <1>2, <2>1 DEF AcceptedInv, WorkerTypeOK
  <2>2. ASSUME NEW v \in Workers, NEW q \in Runs, ClaimNextExecution(v, q)
        PROVE  runStatus'[job'[w]] # "absent"
    <3>1. CASE v = w
      BY <2>2, <3>1 DEF ClaimNextExecution, WorkerTypeOK, RunTypeOK
    <3>2. CASE v # w
      BY <2>1, <2>2, <3>2 DEF ClaimNextExecution, WorkerTypeOK
    <3> QED BY <3>1, <3>2
  <2>3. ASSUME NEW v \in Workers, WorkerStep(v) \/ Heartbeat(v) \/ WorkerFault(v),
               \A q \in Runs : ~ClaimNextExecution(v, q)
        PROVE  job'[w] = job[w]
    <3>1. CASE v # w
      BY <2>3, <3>1, WorkerFrame DEF OtherWorkers
    <3>2. CASE v = w /\ Keeps(w)
      BY <3>2, KeepsClaim
    <3>3. CASE v = w /\ Return(w)
      BY <1>2, <3>3 DEF Return, WorkerTypeOK
    <3> QED
      BY <2>3, <3>1, <3>2, <3>3
      DEF Keeps, WorkerStep, WorkerFault, StartRun, PauseClaimedRun, ReturnFromRun,
          HandleDispatchFailure, Crash
  <2>4. ASSUME NEW a \in Agents, AgentNext(a) PROVE job'[w] = job[w]
    BY <2>4, AgentKeepsWorkers DEF workerVars
  <2>5. CASE \E q \in Runs : ExpireLease(q)
    BY <2>1, <2>5 DEF ExpireLease, workerVars
  <2>6. CASE UNCHANGED vars
    BY <2>1, <2>6 DEF vars, workerVars
  <2> QED BY <2>1, <2>2, <2>3, <2>4, <2>5, <2>6 DEF Next
<1>3. ASSUME NEW a \in Agents, task'[a].kind # "idle" PROVE runStatus'[task'[a].run] # "absent"
  <2>1. CASE task'[a] = task[a]
    BY <1>1, <1>3, <2>1 DEF AcceptedInv, HandInv, TasksOK, TaskOK
  <2>2. ASSUME NEW b \in Agents, AgentNext(b) PROVE runStatus'[task'[a].run] # "absent"
    <3>1. ASSUME NEW k, NEW r \in Runs, NEW t, SetTask(b, k, r, t), runStatus'[r] # "absent"
          PROVE  runStatus'[task'[a].run] # "absent"
      BY <2>1, <3>1 DEF SetTask, Task, TaskTypeOK
    <3>2. CASE Done(b)
      BY <1>3, <2>1, <3>2 DEF Done, Idle, Task, TaskTypeOK
    <3>3. ASSUME NEW k, NEW t, task[b].kind # "idle", SetTask(b, k, task[b].run, t)
          PROVE  runStatus'[task'[a].run] # "absent"
      BY <1>1, <3>1, <3>3 DEF AcceptedInv, HandInv, TasksOK, TaskOK
    <3>4. CASE \/ EnsureCheckpoints(b) \/ FinalizeCheckpoints(b)
               \/ ResetExpiredCheckpoints(b) \/ ResetOrphanCheckpoints(b)
      BY <3>3, <3>4 DEF EnsureCheckpoints, FinalizeCheckpoints, ResetExpiredCheckpoints,
         ResetOrphanCheckpoints, Doing
    <3>5. ASSUME NEW r \in Runs, \/ RecoverPreparing(b, r) \/ ListExpired(b, r) \/ ListOrphan(b, r)
                                 \/ RecoverCancelRequested(b, r)
          PROVE  runStatus'[task'[a].run] # "absent"
      <4>1. \E k, t : SetTask(b, k, r, t)
        BY <3>5 DEF RecoverPreparing, ListExpired, ListOrphan, RecoverCancelRequested
      <4>2. runStatus[r] # "absent"
        BY <3>5 DEF RecoverPreparing, ListExpired, ListOrphan, RecoverCancelRequested
      <4> QED BY <1>1, <3>1, <4>1, <4>2
    <3>6. ASSUME NEW r \in Runs, EnqueueSnapshotBatch(b, r) PROVE runStatus'[task'[a].run] # "absent"
      BY <3>1, <3>6 DEF EnqueueSnapshotBatch, RunTypeOK
    <3>7. ASSUME NEW r \in Runs, RequestExecutionCancel(b, r) PROVE runStatus'[task'[a].run] # "absent"
      <4>1. CASE task' = task
        BY <2>1, <4>1
      <4>2. CASE SetTask(b, "cancel", r, 0) /\ runStatus[r] # "absent"
        BY <1>1, <3>1, <4>2
      <4> QED BY <3>7, <4>1, <4>2 DEF RequestExecutionCancel
    <3>8. CASE task' = task
      BY <2>1, <3>8
    <3> QED
      BY <2>2, <3>2, <3>4, <3>5, <3>6, <3>7, <3>8
      DEF AgentNext, Recover, Continue, CrashInEnsureCheckpoints, AgentCrash, QueuePrepared,
          FinalizeCancelledRun, RequeueExpired, RequeueOrphan, ResumeExecution, FailPreparing
  <2>3. ASSUME NEW w \in Workers, WorkerStep(w) \/ Heartbeat(w) \/ WorkerFault(w)
        PROVE  task' = task
    BY <2>3, WorkerKeepsTasks
  <2>4. CASE \E q \in Runs : ExpireLease(q)
    BY <2>1, <2>4 DEF ExpireLease
  <2>5. CASE UNCHANGED vars
    BY <2>1, <2>5 DEF vars
  <2> QED BY <2>1, <2>2, <2>3, <2>4, <2>5 DEF Next
<1> QED BY <1>2, <1>3 DEF AcceptedInv

\* The scheduler implements the contract its callers rely on: leases, claims,
\* retries, recovery and the races between cancel and execution only ever show
\* as a run that opens, pauses, resumes or closes once, checkpoints that settle
\* once, and one result per execution key.
THEOREM ContractImplemented == Spec => ImplementsContract
<1> DEFINE I == LeaseInv /\ SendInv /\ ExecInv /\ HandInv /\ ResultInv /\ AcceptedInv
<1>1. Init => I
  BY InitLeaseInv, InitSends, InitExec, InitHand, InitResults, InitAccepted
<1>2. I /\ [Next]_vars => I'
  BY NextLeaseInv, NextSends, NextExec, NextHand, NextResults, NextAccepted
<1>3. I /\ [Next]_vars => [Contract!ContractNext]_(Contract!contractVars)
  <2> SUFFICES ASSUME I, [Next]_vars PROVE Visible
    BY VisibleStep
  <2>1. CASE UNCHANGED vars
    BY <2>1, SameVisible DEF vars, runVars, ckVars
  <2>2. CASE \E r \in Runs : ExpireLease(r)
    BY <2>2, SameVisible DEF ExpireLease, ckVars
  <2> QED BY <2>1, <2>2, AgentVisible, WorkerVisible DEF Next
<1> QED BY <1>1, <1>2, <1>3, InitContract, PTL DEF Spec, ImplementsContract, Contract!ContractSpec
=============================================================================
