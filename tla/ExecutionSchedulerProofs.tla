---------------------- MODULE ExecutionSchedulerProofs ----------------------
(* Proofs about the execution scheduler for any number of runs,            *)
(* checkpoints, workers, agents and faults.                                *)
EXTENDS ExecutionScheduler, FiniteSetTheorems, TLAPS

-----------------------------------------------------------------------------
(* Types.  Each shared update keeps the types of what it writes.           *)

LEMMA SetRunType ==
  ASSUME RunTypeOK, NEW r, NEW s \in RunStatuses, SetRun(r, s) PROVE RunTypeOK'
  BY DEF RunTypeOK, SetRun, Queued

LEMMA SetRunIfType ==
  ASSUME RunTypeOK, NEW r, NEW f, NEW s \in RunStatuses, SetRunIf(f, r, s)
  PROVE  RunTypeOK'
<1>1. CASE f
  BY <1>1, SetRunType DEF SetRunIf
<1>2. CASE ~f
  BY <1>2 DEF SetRunIf, runVars, RunTypeOK
<1> QED BY <1>1, <1>2

LEMMA SetCheckpointsType ==
  ASSUME CheckpointTypeOK, NEW S, NEW s \in CkStatuses, SetCheckpoints(S, s)
  PROVE  CheckpointTypeOK'
  BY DEF CheckpointTypeOK, SetCheckpoints

LEMMA FinishCheckpointType ==
  ASSUME CheckpointTypeOK, NEW w, NEW c, NEW s \in CkStatuses, FinishCheckpoint(w, c, s)
  PROVE  CheckpointTypeOK'
<1>1. CASE OwnsCheckpoint(w, c)
  BY <1>1, SetCheckpointsType DEF FinishCheckpoint
<1>2. CASE ~OwnsCheckpoint(w, c)
  BY <1>2 DEF FinishCheckpoint, ckVars, CheckpointTypeOK
<1> QED BY <1>1, <1>2

LEMMA ReturnType ==
  ASSUME WorkerTypeOK, NEW w \in Workers, Return(w), stopped' \in SUBSET Workers
  PROVE  WorkerTypeOK'
<1>1. NoThreads \in [Checkpoints -> ThreadStates]
  BY DEF NoThreads, ThreadStates
<1>2. NoRun \in Runs \cup {NoRun} /\ 0 \in Nat /\ "idle" \in PcStates
  BY DEF PcStates
<1> QED BY <1>1, <1>2 DEF WorkerTypeOK, Return, Goto

LEMMA SetThreadType ==
  ASSUME WorkerTypeOK, NEW w \in Workers, NEW c, NEW s \in ThreadStates,
         SetThread(w, c, s)
  PROVE  thread' \in [Workers -> [Checkpoints -> ThreadStates]]
  BY DEF WorkerTypeOK, SetThread

LEMMA FaultType == ASSUME MaxFaults \in Nat, faults \in 0 .. MaxFaults, Fault
                   PROVE  faults' \in 0 .. MaxFaults
  BY DEF Fault

LEMMA StatusNames ==
  /\ \A s \in {"preparing", "queued", "paused", "running", "cancel_requested",
               "done", "failed", "cancelled"} : s \in RunStatuses
  /\ \A s \in {"pending", "running", "done", "error", "skipped", "cancelled"} :
        s \in CkStatuses
  BY DEF RunStatuses, CkStatuses, LeasedStatuses, FINAL_RUN_STATUSES, OpenStatuses,
         SettledStatuses

LEMMA InitTypeOK == Init => TypeOK
<1> SUFFICES ASSUME Init PROVE TypeOK
  OBVIOUS
<1> USE ConstantsAssumption DEF Init
<1>1. RunTypeOK
  BY DEF RunTypeOK, RunStatuses, LeasedStatuses
<1>2. CheckpointTypeOK /\ results \in [Checkpoints -> Outcomes \cup {"none"}]
  BY DEF CheckpointTypeOK, CkStatuses, OpenStatuses
<1>3. WorkerTypeOK
  BY DEF WorkerTypeOK, PcStates, NoThreads, ThreadStates
<1>4. TaskTypeOK
  BY DEF TaskTypeOK, Idle, Task, TaskKinds
<1>5. sends \in [Checkpoints -> Nat] /\ faults \in 0 .. MaxFaults
  BY DEF ConstantsAssumption
<1>6. slipped \in BOOLEAN /\ dropped \in BOOLEAN
  OBVIOUS
<1> QED BY <1>1, <1>2, <1>3, <1>4, <1>5, <1>6 DEF TypeOK, GhostTypeOK

\* What a step does not write keeps its type.
LEMMA UnchangedType ==
  /\ RunTypeOK /\ UNCHANGED runVars => RunTypeOK'
  /\ CheckpointTypeOK /\ UNCHANGED ckVars => CheckpointTypeOK'
  /\ WorkerTypeOK /\ UNCHANGED workerVars => WorkerTypeOK'
  /\ TaskTypeOK /\ UNCHANGED task => TaskTypeOK'
  /\ GhostTypeOK /\ UNCHANGED ghostVars => GhostTypeOK'
<1>1. RunTypeOK /\ UNCHANGED runVars => RunTypeOK'
  BY DEF RunTypeOK, runVars
<1>2. CheckpointTypeOK /\ UNCHANGED ckVars => CheckpointTypeOK'
  BY DEF CheckpointTypeOK, ckVars
<1>3. WorkerTypeOK /\ UNCHANGED workerVars => WorkerTypeOK'
  BY DEF WorkerTypeOK, workerVars, eventVars
<1>4. TaskTypeOK /\ UNCHANGED task => TaskTypeOK'
  BY DEF TaskTypeOK
<1>5. GhostTypeOK /\ UNCHANGED ghostVars => GhostTypeOK'
  BY DEF GhostTypeOK, ghostVars
<1> QED BY <1>1, <1>2, <1>3, <1>4, <1>5

\* An agent that moves on to another task, or to none.
LEMMA TaskType ==
  ASSUME ConstantsAssumption, TaskTypeOK, NEW a \in Agents
  PROVE  /\ \A k \in TaskKinds, r \in Runs \cup {NoRun}, t \in Nat : SetTask(a, k, r, t) => TaskTypeOK'
         /\ Done(a) => TaskTypeOK'
         /\ task[a].run \in Runs \cup {NoRun} /\ task[a].token \in Nat
<1>1. ASSUME NEW k \in TaskKinds, NEW r \in Runs \cup {NoRun}, NEW t \in Nat,
             SetTask(a, k, r, t)
      PROVE  TaskTypeOK'
  BY <1>1 DEF TaskTypeOK, SetTask, Task
<1>2. ASSUME Done(a) PROVE TaskTypeOK'
  BY <1>2 DEF TaskTypeOK, Done, Task, Idle, TaskKinds
<1>3. task[a].run \in Runs \cup {NoRun} /\ task[a].token \in Nat
  BY DEF TaskTypeOK
<1> QED BY <1>1, <1>2, <1>3

LEMMA AgentTypeOK ==
  ASSUME ConstantsAssumption, TypeOK, NEW a \in Agents, AgentNext(a) PROVE TypeOK'
<1> USE DEF TypeOK
<1>1. ASSUME NEW r \in Runs, EnqueueSnapshotBatch(a, r) PROVE TypeOK'
  <2>1. RunTypeOK'
    BY <1>1, StatusNames DEF EnqueueSnapshotBatch, RunTypeOK
  <2>2. TaskTypeOK'
    BY <1>1, TaskType DEF EnqueueSnapshotBatch, TaskKinds
  <2> QED
    BY <1>1, <2>1, <2>2, UnchangedType DEF EnqueueSnapshotBatch
<1>2. CASE EnsureCheckpoints(a)
  <2>1. CheckpointTypeOK'
    BY <1>2, StatusNames, SetCheckpointsType DEF EnsureCheckpoints
  <2>2. TaskTypeOK'
    BY <1>2, TaskType DEF EnsureCheckpoints, TaskKinds
  <2> QED
    BY <1>2, <2>1, <2>2, UnchangedType DEF EnsureCheckpoints
<1>3. CASE CrashInEnsureCheckpoints(a)
  <2>1. CheckpointTypeOK'
    BY <1>3, StatusNames, SetCheckpointsType DEF CrashInEnsureCheckpoints
  <2>2. TaskTypeOK'
    BY <1>3, TaskType DEF CrashInEnsureCheckpoints, TaskKinds
  <2>3. GhostTypeOK'
    BY <1>3, FaultType DEF CrashInEnsureCheckpoints, GhostTypeOK, ConstantsAssumption
  <2> QED
    BY <1>3, <2>1, <2>2, <2>3, UnchangedType DEF CrashInEnsureCheckpoints
<1>4. CASE QueuePrepared(a)
  <2>1. RunTypeOK'
    BY <1>4, StatusNames, SetRunIfType DEF QueuePrepared
  <2>2. TaskTypeOK'
    BY <1>4, TaskType DEF QueuePrepared, TaskKinds
  <2> QED
    BY <1>4, <2>1, <2>2, UnchangedType DEF QueuePrepared
<1>5. ASSUME NEW r \in Runs, RequestExecutionCancel(a, r) PROVE TypeOK'
  <2>1. RunTypeOK'
    BY <1>5, StatusNames DEF RequestExecutionCancel, RunTypeOK
  <2>2. TaskTypeOK'
    BY <1>5, TaskType, UnchangedType DEF RequestExecutionCancel, TaskKinds
  <2> QED
    BY <1>5, <2>1, <2>2, UnchangedType DEF RequestExecutionCancel
<1>6. CASE FinalizeCheckpoints(a)
  <2>1. CheckpointTypeOK'
    BY <1>6, StatusNames, SetCheckpointsType DEF FinalizeCheckpoints
  <2>2. TaskTypeOK'
    BY <1>6, TaskType DEF FinalizeCheckpoints, TaskKinds
  <2> QED
    BY <1>6, <2>1, <2>2, UnchangedType DEF FinalizeCheckpoints
<1>7. CASE FinalizeCancelledRun(a)
  <2>1. RunTypeOK'
    BY <1>7, StatusNames, SetRunType DEF FinalizeCancelledRun
  <2>2. TaskTypeOK'
    BY <1>7, TaskType DEF FinalizeCancelledRun, TaskKinds
  <2> QED
    BY <1>7, <2>1, <2>2, UnchangedType DEF FinalizeCancelledRun
<1>8. ASSUME NEW r \in Runs, ResumeExecution(a, r) PROVE TypeOK'
  <2>1. RunTypeOK'
    BY <1>8, StatusNames, SetRunType DEF ResumeExecution
  <2> QED
    BY <1>8, <2>1, UnchangedType DEF ResumeExecution
<1>9. ASSUME NEW r \in Runs, RecoverPreparing(a, r) PROVE TypeOK'
  <2>1. TaskTypeOK'
    BY <1>9, TaskType DEF RecoverPreparing, TaskKinds
  <2> QED
    BY <1>9, <2>1, UnchangedType DEF RecoverPreparing
<1>10. ASSUME NEW r \in Runs, FailPreparing(a, r) PROVE TypeOK'
  <2>1. RunTypeOK'
    BY <1>10, StatusNames, SetRunType DEF FailPreparing
  <2> QED
    BY <1>10, <2>1, UnchangedType DEF FailPreparing
<1>11. ASSUME NEW r \in Runs, ListExpired(a, r) PROVE TypeOK'
  <2>1. TaskTypeOK'
    BY <1>11, TaskType DEF ListExpired, TaskKinds, RunTypeOK
  <2> QED
    BY <1>11, <2>1, UnchangedType DEF ListExpired
<1>12. CASE ResetExpiredCheckpoints(a)
  <2>1. CheckpointTypeOK'
    BY <1>12, StatusNames, SetCheckpointsType DEF ResetExpiredCheckpoints
  <2>2. TaskTypeOK'
    BY <1>12, TaskType DEF ResetExpiredCheckpoints, TaskKinds
  <2> QED
    BY <1>12, <2>1, <2>2, UnchangedType DEF ResetExpiredCheckpoints
<1>13. CASE RequeueExpired(a)
  <2>1. RunTypeOK'
    BY <1>13, StatusNames, SetRunIfType DEF RequeueExpired
  <2>2. TaskTypeOK'
    BY <1>13, TaskType DEF RequeueExpired, TaskKinds
  <2> QED
    BY <1>13, <2>1, <2>2, UnchangedType DEF RequeueExpired
<1>14. ASSUME NEW r \in Runs, ListOrphan(a, r) PROVE TypeOK'
  <2>1. TaskTypeOK'
    BY <1>14, TaskType DEF ListOrphan, TaskKinds
  <2> QED
    BY <1>14, <2>1, UnchangedType DEF ListOrphan
<1>15. CASE ResetOrphanCheckpoints(a)
  <2>1. CheckpointTypeOK'
    BY <1>15, StatusNames, SetCheckpointsType DEF ResetOrphanCheckpoints
  <2>2. TaskTypeOK'
    BY <1>15, TaskType DEF ResetOrphanCheckpoints, TaskKinds
  <2> QED
    BY <1>15, <2>1, <2>2, UnchangedType DEF ResetOrphanCheckpoints
<1>16. CASE RequeueOrphan(a)
  <2>1. RunTypeOK'
    BY <1>16, StatusNames, SetRunIfType DEF RequeueOrphan
  <2>2. TaskTypeOK'
    BY <1>16, TaskType DEF RequeueOrphan, TaskKinds
  <2> QED
    BY <1>16, <2>1, <2>2, UnchangedType DEF RequeueOrphan
<1>17. ASSUME NEW r \in Runs, RecoverCancelRequested(a, r) PROVE TypeOK'
  <2>1. TaskTypeOK'
    BY <1>17, TaskType DEF RecoverCancelRequested, TaskKinds
  <2> QED
    BY <1>17, <2>1, UnchangedType DEF RecoverCancelRequested
<1>18. CASE AgentCrash(a)
  <2>1. TaskTypeOK'
    BY <1>18, TaskType DEF AgentCrash, TaskKinds
  <2>2. GhostTypeOK'
    BY <1>18, FaultType DEF AgentCrash, GhostTypeOK, ConstantsAssumption
  <2> QED
    BY <1>18, <2>1, <2>2, UnchangedType DEF AgentCrash
<1> QED
  BY <1>1, <1>2, <1>3, <1>4, <1>5, <1>6, <1>7, <1>8, <1>9, <1>10, <1>11, <1>12, <1>13, <1>14, <1>15, <1>16, <1>17, <1>18, AgentNext(a)
  DEF AgentNext, Recover, Continue
LEMMA WorkerStepTypeOK ==
  ASSUME ConstantsAssumption, TypeOK, NEW w \in Workers, WorkerStep(w) PROVE TypeOK'
<1> USE DEF TypeOK
<1>1. ASSUME NEW r \in Runs, ClaimNextExecution(w, r) PROVE TypeOK'
  <2>1. RunTypeOK'
    BY <1>1, StatusNames DEF ClaimNextExecution, RunTypeOK
  <2>2. WorkerTypeOK'
    BY <1>1 DEF ClaimNextExecution, WorkerTypeOK, RunTypeOK, Goto, PcStates, eventVars, CheckpointsOf
  <2> QED
    BY <1>1, <2>1, <2>2, UnchangedType DEF ClaimNextExecution
<1>2. CASE StartRun(w)
  <2>1. RunTypeOK'
    BY <1>2 DEF StartRun, RunTypeOK
  <2>2. WorkerTypeOK'
    BY <1>2, ReturnType DEF StartRun, WorkerTypeOK, Goto, PcStates
  <2> QED
    BY <1>2, <2>1, <2>2, UnchangedType DEF StartRun
<1>3. CASE ListPending(w)
  <2>1. WorkerTypeOK'
    BY <1>3 DEF ListPending, WorkerTypeOK, RunTypeOK, Goto, PcStates, eventVars, CheckpointsOf
  <2> QED
    BY <1>3, <2>1, UnchangedType DEF ListPending
<1>4. CASE NoticeCancel(w)
  <2>1. WorkerTypeOK'
    BY <1>4 DEF NoticeCancel, WorkerTypeOK, RunTypeOK, Goto, PcStates, eventVars, CheckpointsOf
  <2> QED
    BY <1>4, <2>1, UnchangedType DEF NoticeCancel
<1>5. ASSUME NEW c \in Checkpoints, Submit(w, c) PROVE TypeOK'
  <2>1. WorkerTypeOK'
    BY <1>5, SetThreadType DEF Submit, WorkerTypeOK, ThreadStates, eventVars
  <2> QED
    BY <1>5, <2>1, UnchangedType DEF Submit
<1>6. ASSUME NEW c \in Checkpoints, ClaimCheckpoint(w, c) PROVE TypeOK'
  <2>1. WorkerTypeOK'
    BY <1>6, SetThreadType DEF ClaimCheckpoint, WorkerTypeOK, ThreadStates, Outcomes, eventVars
  <2>2. CheckpointTypeOK'
    <3>1. token[w] \in Nat /\ "running" \in CkStatuses
      BY StatusNames DEF WorkerTypeOK
    <3>2. CASE ckStatus[c] = "pending"
      BY <1>6, <3>1, <3>2 DEF ClaimCheckpoint, CheckpointTypeOK
    <3>3. CASE ckStatus[c] # "pending"
      BY <1>6, <3>3, UnchangedType DEF ClaimCheckpoint
    <3> QED BY <3>2, <3>3
  <2> QED
    BY <1>6, <2>1, <2>2, UnchangedType DEF ClaimCheckpoint
<1>7. ASSUME NEW c \in Checkpoints, CheckExistingResult(w, c) PROVE TypeOK'
  <2>1. WorkerTypeOK'
    BY <1>7, SetThreadType DEF CheckExistingResult, WorkerTypeOK, ThreadStates, Outcomes, eventVars
  <2>2. CheckpointTypeOK'
    BY <1>7, StatusNames, FinishCheckpointType, UnchangedType DEF CheckExistingResult
  <2> QED
    BY <1>7, <2>1, <2>2, UnchangedType DEF CheckExistingResult
<1>8. ASSUME NEW c \in Checkpoints, SnapshotNotFound(w, c) PROVE TypeOK'
  <2>1. WorkerTypeOK'
    BY <1>8, SetThreadType DEF SnapshotNotFound, WorkerTypeOK, ThreadStates, eventVars
  <2>2. CheckpointTypeOK'
    BY <1>8, StatusNames, FinishCheckpointType DEF SnapshotNotFound
  <2> QED
    BY <1>8, <2>1, <2>2, UnchangedType DEF SnapshotNotFound
<1>9. ASSUME NEW c \in Checkpoints, FinishBlocked(w, c) PROVE TypeOK'
  <2>1. WorkerTypeOK'
    BY <1>9, SetThreadType DEF FinishBlocked, WorkerTypeOK, ThreadStates, eventVars
  <2>2. CheckpointTypeOK'
    BY <1>9, StatusNames, FinishCheckpointType DEF FinishBlocked
  <2> QED
    BY <1>9, <2>1, <2>2, UnchangedType DEF FinishBlocked
<1>10. ASSUME NEW c \in Checkpoints, Permit(w, c) PROVE TypeOK'
  <2>1. WorkerTypeOK'
    BY <1>10, SetThreadType DEF Permit, WorkerTypeOK, ThreadStates, eventVars
  <2> QED
    BY <1>10, <2>1, UnchangedType DEF Permit
<1>11. ASSUME NEW c \in Checkpoints, Replay(w, c) PROVE TypeOK'
  <2>1. WorkerTypeOK'
    BY <1>11, SetThreadType DEF Replay, WorkerTypeOK, ThreadStates, Outcomes, eventVars
  <2>2. GhostTypeOK'
    BY <1>11 DEF Replay, GhostTypeOK
  <2> QED
    BY <1>11, <2>1, <2>2, UnchangedType DEF Replay
<1>12. ASSUME NEW c \in Checkpoints, RecordExecutionResult(w, c) PROVE TypeOK'
  <2>1. WorkerTypeOK'
    BY <1>12, SetThreadType DEF RecordExecutionResult, WorkerTypeOK, ThreadStates, Outcomes, eventVars
  <2>2. results' \in [Checkpoints -> Outcomes \cup {"none"}]
    BY <1>12 DEF RecordExecutionResult
  <2> QED
    BY <1>12, <2>1, <2>2, UnchangedType DEF RecordExecutionResult
<1>13. ASSUME NEW c \in Checkpoints, FinishRecorded(w, c) PROVE TypeOK'
  <2>1. WorkerTypeOK'
    BY <1>13, SetThreadType DEF FinishRecorded, WorkerTypeOK, ThreadStates, eventVars
  <2>2. CheckpointTypeOK'
    BY <1>13, StatusNames, FinishCheckpointType DEF FinishRecorded
  <2> QED
    BY <1>13, <2>1, <2>2, UnchangedType DEF FinishRecorded
<1>14. CASE LeaveStopping(w)
  <2>1. WorkerTypeOK'
    BY <1>14 DEF LeaveStopping, WorkerTypeOK, Goto, PcStates, eventVars
  <2>2. CheckpointTypeOK'
    BY <1>14, StatusNames, SetCheckpointsType DEF LeaveStopping, ReleaseCheckpoints
  <2> QED
    BY <1>14, <2>1, <2>2, UnchangedType DEF LeaveStopping
<1>15. CASE LeavePaused(w)
  <2>1. WorkerTypeOK'
    BY <1>15 DEF LeavePaused, WorkerTypeOK, Goto, PcStates, eventVars
  <2>2. CheckpointTypeOK'
    BY <1>15, StatusNames, SetCheckpointsType DEF LeavePaused, ReleaseCheckpoints
  <2> QED
    BY <1>15, <2>1, <2>2, UnchangedType DEF LeavePaused
<1>16. CASE LeaveCancelled(w)
  <2>1. WorkerTypeOK'
    BY <1>16 DEF LeaveCancelled, WorkerTypeOK, Goto, PcStates, eventVars
  <2>2. CheckpointTypeOK'
    BY <1>16, StatusNames, SetCheckpointsType DEF LeaveCancelled, ReleaseCheckpoints
  <2> QED
    BY <1>16, <2>1, <2>2, UnchangedType DEF LeaveCancelled
<1>17. CASE LeaveDone(w)
  <2>1. WorkerTypeOK'
    BY <1>17 DEF LeaveDone, WorkerTypeOK, Goto, PcStates, eventVars
  <2> QED
    BY <1>17, <2>1, UnchangedType DEF LeaveDone
<1>18. CASE ReturnFromRun(w)
  <2>1. RunTypeOK'
    BY <1>18, StatusNames, SetRunIfType DEF ReturnFromRun
  <2>2. WorkerTypeOK'
    BY <1>18, ReturnType DEF ReturnFromRun, WorkerTypeOK
  <2> QED
    BY <1>18, <2>1, <2>2, UnchangedType DEF ReturnFromRun
<1>19. CASE ReleaseAfterFailure(w)
  <2>1. WorkerTypeOK'
    BY <1>19 DEF ReleaseAfterFailure, WorkerTypeOK, Goto, PcStates, eventVars
  <2>2. CheckpointTypeOK'
    BY <1>19, StatusNames, SetCheckpointsType DEF ReleaseAfterFailure, ReleaseCheckpoints
  <2> QED
    BY <1>19, <2>1, <2>2, UnchangedType DEF ReleaseAfterFailure
<1>20. CASE HandleDispatchFailure(w)
  <2>1. RunTypeOK'
    BY <1>20, StatusNames, SetRunIfType DEF HandleDispatchFailure
  <2>2. WorkerTypeOK'
    BY <1>20, ReturnType DEF HandleDispatchFailure, WorkerTypeOK
  <2> QED
    BY <1>20, <2>1, <2>2, UnchangedType DEF HandleDispatchFailure
<1>21. CASE Restart(w)
  <2>1. WorkerTypeOK'
    BY <1>21 DEF Restart, WorkerTypeOK, RunTypeOK, Goto, PcStates, eventVars, CheckpointsOf
  <2> QED
    BY <1>21, <2>1, UnchangedType DEF Restart
<1> QED
  BY <1>1, <1>2, <1>3, <1>4, <1>5, <1>6, <1>7, <1>8, <1>9, <1>10, <1>11, <1>12, <1>13, <1>14, <1>15, <1>16, <1>17, <1>18, <1>19, <1>20, <1>21, WorkerStep(w)
  DEF WorkerStep, ThreadStep

LEMMA WorkerFaultTypeOK ==
  ASSUME ConstantsAssumption, TypeOK, NEW w \in Workers, WorkerFault(w) PROVE TypeOK'
<1> USE DEF TypeOK
<1>1. CASE PauseClaimedRun(w)
  <2>1. RunTypeOK'
    BY <1>1, StatusNames, SetRunIfType DEF PauseClaimedRun
  <2>2. WorkerTypeOK'
    BY <1>1, ReturnType DEF PauseClaimedRun, WorkerTypeOK
  <2>3. GhostTypeOK'
    BY <1>1, FaultType DEF PauseClaimedRun, GhostTypeOK, ConstantsAssumption
  <2> QED
    BY <1>1, <2>1, <2>2, <2>3, UnchangedType DEF PauseClaimedRun
<1>2. ASSUME NEW c \in Checkpoints, AuthFailure(w, c) PROVE TypeOK'
  <2>1. WorkerTypeOK'
    BY <1>2, SetThreadType DEF AuthFailure, WorkerTypeOK, ThreadStates, eventVars
  <2>2. CheckpointTypeOK'
    BY <1>2, StatusNames, FinishCheckpointType DEF AuthFailure
  <2>3. GhostTypeOK'
    BY <1>2, FaultType DEF AuthFailure, GhostTypeOK, ConstantsAssumption
  <2> QED
    BY <1>2, <2>1, <2>2, <2>3, UnchangedType DEF AuthFailure
<1>3. ASSUME NEW c \in Checkpoints, MarkFutureFailure(w, c) PROVE TypeOK'
  <2>1. WorkerTypeOK'
    BY <1>3, SetThreadType DEF MarkFutureFailure, WorkerTypeOK, ThreadStates, eventVars
  <2>2. CheckpointTypeOK'
    BY <1>3, StatusNames, FinishCheckpointType, UnchangedType DEF MarkFutureFailure
  <2>3. faults' \in 0 .. MaxFaults
    BY <1>3, FaultType DEF MarkFutureFailure, GhostTypeOK, ConstantsAssumption
  <2>4. dropped' \in BOOLEAN
    BY <1>3 DEF MarkFutureFailure
  <2>5. GhostTypeOK'
    BY <1>3, <2>3, <2>4 DEF MarkFutureFailure, GhostTypeOK
  <2> QED
    BY <1>3, <2>1, <2>2, <2>3, <2>4, <2>5, UnchangedType DEF MarkFutureFailure
<1>4. CASE RunFails(w)
  <2>1. WorkerTypeOK'
    BY <1>4 DEF RunFails, WorkerTypeOK, Goto, PcStates, eventVars
  <2>2. GhostTypeOK'
    BY <1>4, FaultType DEF RunFails, GhostTypeOK, ConstantsAssumption
  <2> QED
    BY <1>4, <2>1, <2>2, UnchangedType DEF RunFails
<1>5. CASE Crash(w)
  <2>1. WorkerTypeOK'
    BY <1>5, ReturnType DEF Crash, WorkerTypeOK
  <2>2. GhostTypeOK'
    BY <1>5, FaultType DEF Crash, GhostTypeOK, ConstantsAssumption
  <2> QED
    BY <1>5, <2>1, <2>2, UnchangedType DEF Crash
<1>6. CASE Stop(w)
  <2>1. WorkerTypeOK'
    BY <1>6 DEF Stop, WorkerTypeOK, RunTypeOK, Goto, PcStates, eventVars, CheckpointsOf
  <2>2. GhostTypeOK'
    BY <1>6, FaultType DEF Stop, GhostTypeOK, ConstantsAssumption
  <2> QED
    BY <1>6, <2>1, <2>2, UnchangedType DEF Stop
<1> QED
  BY <1>1, <1>2, <1>3, <1>4, <1>5, <1>6, WorkerFault(w)
  DEF WorkerFault

LEMMA HeartbeatTypeOK ==
  ASSUME ConstantsAssumption, TypeOK, NEW w \in Workers, Heartbeat(w) PROVE TypeOK'
<1> USE DEF TypeOK
<1>1. CASE Heartbeat(w)
  <2>1. RunTypeOK'
    BY <1>1, StatusNames DEF Heartbeat, RunTypeOK
  <2>2. WorkerTypeOK'
    BY <1>1 DEF Heartbeat, WorkerTypeOK, RunTypeOK, Goto, PcStates, eventVars, CheckpointsOf
  <2> QED
    BY <1>1, <2>1, <2>2, UnchangedType DEF Heartbeat
<1> QED
  BY <1>1, Heartbeat(w)
  DEF Heartbeat

LEMMA ExpireLeaseTypeOK ==
  ASSUME ConstantsAssumption, TypeOK, NEW r \in Runs, ExpireLease(r) PROVE TypeOK'
<1> USE DEF TypeOK
<1>1. RunTypeOK'
  BY DEF ExpireLease, RunTypeOK
<1>2. faults' \in 0 .. MaxFaults
  BY FaultType DEF ExpireLease, GhostTypeOK, ConstantsAssumption
<1>3. slipped' \in BOOLEAN
  BY DEF ExpireLease, GhostTypeOK
<1>4. GhostTypeOK'
  BY <1>2, <1>3 DEF ExpireLease, GhostTypeOK
<1> QED
  BY <1>1, <1>4, UnchangedType DEF ExpireLease

LEMMA NextTypeOK == TypeOK /\ [Next]_vars => TypeOK'
<1> SUFFICES ASSUME TypeOK, [Next]_vars PROVE TypeOK'
  OBVIOUS
<1>1. ConstantsAssumption
  BY ConstantsAssumption
<1>2. CASE Next
  BY <1>1, <1>2, AgentTypeOK, WorkerStepTypeOK, WorkerFaultTypeOK, HeartbeatTypeOK,
     ExpireLeaseTypeOK
  DEF Next
<1>3. CASE UNCHANGED vars
  BY <1>3, UnchangedType DEF vars, TypeOK
<1> QED BY <1>2, <1>3

\* Type correctness of the scheduler.
THEOREM TypeCorrect == Spec => []TypeOK
<1>1. Init => TypeOK
  BY InitTypeOK
<1>2. TypeOK /\ [Next]_vars => TypeOK'
  BY NextTypeOK
<1> QED BY <1>1, <1>2, PTL DEF Spec

-----------------------------------------------------------------------------
(* Leases.  The inductive invariant: a worker has a claim exactly while it *)
(* is not idle, its token is one that was handed out for its run, no other *)
(* worker has it, and the token a run carries is the last one handed out.  *)

ClaimsOK ==
    /\ \A w \in Workers : pc[w] # "idle" <=> job[w] # NoRun
    /\ \A w \in Workers : job[w] # NoRun => token[w] \in 1 .. dispatch[job[w]]

LeaseInv == TypeOK /\ ClaimsOK /\ LeaseIsExclusive

RunTokens ==
    \A r \in Runs :
       /\ runToken[r] # 0 => runStatus[r] \in LeasedStatuses /\ runToken[r] = dispatch[r]
       /\ runStatus[r] \in LeasedStatuses /\ runToken[r] = 0
             => r \in Orphans /\ dispatch[r] = 0
ClaimsDistinct ==
    \A v, w \in Workers : v # w /\ job[v] # NoRun /\ job[v] = job[w] => token[v] # token[w]

LEMMA LeaseParts == LeaseIsExclusive <=> RunTokens /\ ClaimsDistinct
  BY DEF LeaseIsExclusive, RunTokens, ClaimsDistinct

\* Any run may give up its lease, as long as it is not left in a leased status.
LEMMA SetRunTokens ==
  ASSUME RunTypeOK, RunTokens, NEW r, NEW s \in RunStatuses \ LeasedStatuses, SetRun(r, s)
  PROVE  RunTokens' /\ dispatch' = dispatch
  BY DEF RunTypeOK, RunTokens, SetRun

LEMMA SetRunIfTokens ==
  ASSUME RunTypeOK, RunTokens, NEW f, NEW r, NEW s \in RunStatuses \ LeasedStatuses,
         SetRunIf(f, r, s)
  PROVE  RunTokens' /\ dispatch' = dispatch
<1>1. CASE f
  BY <1>1, SetRunTokens DEF SetRunIf
<1>2. CASE ~f
  BY <1>2 DEF SetRunIf, runVars, RunTokens
<1> QED BY <1>1, <1>2

\* The claims of the workers only depend on these variables.
LEMMA SameClaims ==
  ASSUME ClaimsOK, ClaimsDistinct, job' = job, token' = token, dispatch' = dispatch,
         \A w \in Workers : pc'[w] # "idle" <=> pc[w] # "idle"
  PROVE  ClaimsOK' /\ ClaimsDistinct'
  BY DEF ClaimsOK, ClaimsDistinct

\* A worker that returns gives up its claim.
LEMMA ReturnClaims ==
  ASSUME WorkerTypeOK, ClaimsOK, ClaimsDistinct, NEW w \in Workers, Return(w),
         dispatch' = dispatch
  PROVE  ClaimsOK' /\ ClaimsDistinct'
  BY DEF WorkerTypeOK, ClaimsOK, ClaimsDistinct, Return, Goto

LEMMA ReleasedStatuses ==
  \A s \in {"preparing", "queued", "paused", "done", "failed", "cancelled"} :
     s \in RunStatuses \ LeasedStatuses
  BY DEF RunStatuses, LeasedStatuses, FINAL_RUN_STATUSES

LEMMA InitLeaseInv == Init => LeaseInv
<1> SUFFICES ASSUME Init PROVE LeaseInv
  OBVIOUS
<1>1. ClaimsOK /\ ClaimsDistinct
  BY DEF Init, ClaimsOK, ClaimsDistinct
<1>2. RunTokens
  BY DEF Init, RunTokens, LeasedStatuses
<1> QED BY <1>1, <1>2, InitTypeOK, LeaseParts DEF LeaseInv
LEMMA AgentLease ==
  ASSUME LeaseInv, NEW a \in Agents, AgentNext(a)
  PROVE  RunTokens' /\ ClaimsOK' /\ ClaimsDistinct'
<1> USE ReleasedStatuses, LeaseParts DEF LeaseInv, TypeOK
<1>1. dispatch' = dispatch /\ UNCHANGED workerVars
  BY AgentNext(a)
  DEF AgentNext, Recover, Continue, SetRun, SetRunIf, runVars, EnqueueSnapshotBatch, EnsureCheckpoints, CrashInEnsureCheckpoints, QueuePrepared, RequestExecutionCancel, FinalizeCheckpoints, FinalizeCancelledRun, ResumeExecution, RecoverPreparing, FailPreparing, ListExpired, ResetExpiredCheckpoints, RequeueExpired, ListOrphan, ResetOrphanCheckpoints, RequeueOrphan, RecoverCancelRequested, AgentCrash
<1>2. ClaimsOK' /\ ClaimsDistinct'
  BY <1>1, SameClaims DEF workerVars
<1>3. ASSUME NEW r \in Runs, EnqueueSnapshotBatch(a, r) PROVE RunTokens'
  BY <1>3 DEF EnqueueSnapshotBatch, RunTokens, RunTypeOK, LeasedStatuses
<1>4. ASSUME NEW r \in Runs, RequestExecutionCancel(a, r) PROVE RunTokens'
  BY <1>4 DEF RequestExecutionCancel, RunTokens, RunTypeOK, LeasedStatuses
<1>5. CASE QueuePrepared(a) \/ RequeueExpired(a) \/ RequeueOrphan(a)
  BY <1>2, <1>5, SetRunIfTokens DEF QueuePrepared, RequeueExpired, RequeueOrphan
<1>6. CASE FinalizeCancelledRun(a)
  BY <1>2, <1>6, SetRunTokens DEF FinalizeCancelledRun
<1>7. ASSUME NEW r \in Runs, ResumeExecution(a, r) \/ FailPreparing(a, r) PROVE RunTokens'
  BY <1>7, SetRunTokens DEF ResumeExecution, FailPreparing
<1>8. CASE UNCHANGED runVars
  BY <1>2, <1>8 DEF runVars, RunTokens
<1> QED
  BY <1>2, <1>3, <1>4, <1>5, <1>6, <1>7, <1>8, AgentNext(a)
  DEF AgentNext, Recover, Continue, EnsureCheckpoints, CrashInEnsureCheckpoints,
      FinalizeCheckpoints, RecoverPreparing, ListExpired, ResetExpiredCheckpoints,
      ListOrphan, ResetOrphanCheckpoints, RecoverCancelRequested, AgentCrash

LEMMA ClaimLease ==
  ASSUME LeaseInv, NEW w \in Workers, NEW r \in Runs, ClaimNextExecution(w, r)
  PROVE  RunTokens' /\ ClaimsOK' /\ ClaimsDistinct'
<1> USE LeaseParts, ConstantsAssumption
    DEF LeaseInv, TypeOK, ClaimNextExecution, Goto, RunTypeOK, WorkerTypeOK,
        ConstantsAssumption
<1>1. RunTokens'
  BY DEF RunTokens, LeasedStatuses, Queued
<1>2. ClaimsOK'
  BY DEF ClaimsOK
<1>3. ClaimsDistinct'
  BY DEF ClaimsOK, ClaimsDistinct
<1> QED BY <1>1, <1>2, <1>3

\* A worker whose token is the run's holds a run in a leased status.
LEMMA HolderIsLeased ==
  ASSUME LeaseInv, NEW w \in Workers, pc[w] # "idle", HoldsLease(w)
  PROVE  job[w] \in Runs /\ runStatus[job[w]] \in LeasedStatuses
  BY LeaseParts DEF LeaseInv, TypeOK, WorkerTypeOK, RunTypeOK, ClaimsOK, RunTokens, HoldsLease

LEMMA WorkerLease ==
  ASSUME LeaseInv, NEW w \in Workers, WorkerStep(w) \/ Heartbeat(w) \/ WorkerFault(w)
  PROVE  RunTokens' /\ ClaimsOK' /\ ClaimsDistinct'
<1> USE ReleasedStatuses, LeaseParts DEF LeaseInv, TypeOK
<1>1. ASSUME NEW r \in Runs, ClaimNextExecution(w, r)
      PROVE  RunTokens' /\ ClaimsOK' /\ ClaimsDistinct'
  BY <1>1, ClaimLease
<1>2. CASE PauseClaimedRun(w)
  BY <1>2, SetRunIfTokens, ReturnClaims DEF PauseClaimedRun
<1>3. CASE ReturnFromRun(w)
  <2>1. RunTokens' /\ dispatch' = dispatch
    BY <1>3, SetRunIfTokens DEF ReturnFromRun
  <2> QED BY <1>3, <2>1, ReturnClaims DEF ReturnFromRun
<1>4. CASE HandleDispatchFailure(w)
  <2>1. RunTokens' /\ dispatch' = dispatch
    BY <1>4, SetRunIfTokens DEF HandleDispatchFailure
  <2> QED BY <1>4, <2>1, ReturnClaims DEF HandleDispatchFailure
<1>5. CASE StartRun(w)
  <2>1. RunTokens' /\ dispatch' = dispatch
    BY <1>5 DEF StartRun, RunTokens
  <2>2. CASE CanRenew(w)
    <3>1. \A v \in Workers : pc'[v] # "idle" <=> pc[v] # "idle"
      BY <1>5, <2>2 DEF StartRun, Goto, WorkerTypeOK
    <3> QED BY <1>5, <2>1, <2>2, <3>1, SameClaims DEF StartRun
  <2>3. CASE ~CanRenew(w)
    BY <1>5, <2>1, <2>3, ReturnClaims DEF StartRun
  <2> QED BY <2>1, <2>2, <2>3
<1>6. CASE Crash(w)
  <2>1. RunTokens' /\ dispatch' = dispatch
    BY <1>6 DEF Crash, RunTokens, runVars
  <2> QED BY <1>6, <2>1, ReturnClaims DEF Crash
<1>7. ASSUME UNCHANGED <<runStatus, runToken, dispatch, job, token>>,
             pc' = pc \/ \E p \in PcStates \ {"idle"} : pc[w] # "idle" /\ Goto(w, p)
      PROVE  RunTokens' /\ ClaimsOK' /\ ClaimsDistinct'
  <2>1. \A v \in Workers : pc'[v] # "idle" <=> pc[v] # "idle"
    BY <1>7 DEF Goto, WorkerTypeOK
  <2> QED BY <1>7, <2>1, SameClaims DEF RunTokens
<1>8. CASE \E c \in Checkpoints : ThreadStep(w, c) \/ AuthFailure(w, c) \/ MarkFutureFailure(w, c)
  BY <1>7, <1>8
  DEF ThreadStep, ClaimCheckpoint, CheckExistingResult, SnapshotNotFound, FinishBlocked,
      Permit, Replay, RecordExecutionResult, FinishRecorded, AuthFailure,
      MarkFutureFailure, runVars
<1>9. CASE NoticeCancel(w) \/ Stop(w) \/ Restart(w) \/ (\E c \in Checkpoints : Submit(w, c))
  BY <1>7, <1>9 DEF NoticeCancel, Stop, Restart, Submit, runVars
<1>10. CASE Heartbeat(w)
  BY <1>7, <1>10 DEF Heartbeat
<1>11. CASE LeaveStopping(w) \/ LeavePaused(w) \/ LeaveCancelled(w) \/ LeaveDone(w)
  BY <1>7, <1>11
  DEF LeaveStopping, LeavePaused, LeaveCancelled, LeaveDone, LoopEnded, runVars, PcStates
<1>12. CASE ListPending(w) \/ RunFails(w) \/ ReleaseAfterFailure(w)
  BY <1>7, <1>12
  DEF ListPending, RunFails, ReleaseAfterFailure, InExecuteRun, runVars, PcStates
<1> QED
  BY <1>1, <1>2, <1>3, <1>4, <1>5, <1>6, <1>8, <1>9, <1>10, <1>11, <1>12
  DEF WorkerStep, WorkerFault

LEMMA NextLeaseInv == LeaseInv /\ [Next]_vars => LeaseInv'
<1> SUFFICES ASSUME LeaseInv, [Next]_vars PROVE LeaseInv'
  OBVIOUS
<1>1. TypeOK'
  BY NextTypeOK DEF LeaseInv
<1>2. ASSUME NEW r \in Runs, ExpireLease(r) PROVE RunTokens' /\ ClaimsOK' /\ ClaimsDistinct'
  BY <1>2, SameClaims, LeaseParts DEF ExpireLease, LeaseInv, RunTokens, workerVars
<1>3. CASE UNCHANGED vars
  <2>1. UNCHANGED <<runStatus, runToken, dispatch, pc, job, token>>
    BY <1>3 DEF vars, runVars, workerVars
  <2>2. RunTokens'
    BY <2>1, LeaseParts DEF LeaseInv, RunTokens
  <2>3. ClaimsOK' /\ ClaimsDistinct'
    BY <2>1, SameClaims, LeaseParts DEF LeaseInv
  <2>4. LeaseIsExclusive'
    BY <2>2, <2>3, LeaseParts, PTL
  <2> QED BY <1>1, <2>3, <2>4 DEF LeaseInv
<1>4. CASE Next
  <2>1. RunTokens' /\ ClaimsOK' /\ ClaimsDistinct'
    BY <1>2, <1>4, AgentLease, WorkerLease DEF Next
  <2>2. LeaseIsExclusive'
    BY <2>1, LeaseParts, PTL
  <2> QED BY <1>1, <2>1, <2>2 DEF LeaseInv
<1> QED BY <1>3, <1>4

\* At any time at most one worker holds a given claim, and the token a run
\* carries is the last one handed out, whatever expires, crashes or races.
THEOREM LeaseExclusive == Spec => []LeaseIsExclusive
<1>1. Init => LeaseInv
  BY InitLeaseInv
<1>2. LeaseInv /\ [Next]_vars => LeaseInv'
  BY NextLeaseInv
<1>3. LeaseInv => LeaseIsExclusive
  BY DEF LeaseInv
<1> QED BY <1>1, <1>2, <1>3, PTL DEF Spec

-----------------------------------------------------------------------------
(* What a step may never do.                                               *)

FinalKept == \A r \in Runs : runStatus[r] \in FINAL_RUN_STATUSES
                             => runStatus'[r] \in FINAL_RUN_STATUSES

\* A run that is set to a status keeps being final if it was.
LEMMA SetRunFinal ==
  ASSUME RunTypeOK, NEW f, NEW r, NEW s, SetRunIf(f, r, s),
         f => \/ s \in FINAL_RUN_STATUSES
              \/ r \in Runs /\ runStatus[r] \notin FINAL_RUN_STATUSES
  PROVE  FinalKept
  BY DEF RunTypeOK, SetRunIf, SetRun, FinalKept, runVars

LEMMA AgentFinal == ASSUME LeaseInv, NEW a \in Agents, AgentNext(a) PROVE FinalKept
<1> USE DEF LeaseInv, TypeOK, RunTypeOK, FINAL_RUN_STATUSES
<1>1. ASSUME NEW r \in Runs, EnqueueSnapshotBatch(a, r) PROVE FinalKept
  BY <1>1 DEF EnqueueSnapshotBatch, FinalKept
<1>2. ASSUME NEW r \in Runs, RequestExecutionCancel(a, r) PROVE FinalKept
  BY <1>2 DEF RequestExecutionCancel, FinalKept
<1>3. CASE QueuePrepared(a) \/ RequeueExpired(a) \/ RequeueOrphan(a)
  BY <1>3 DEF QueuePrepared, RequeueExpired, RequeueOrphan, SetRunIf, SetRun, FinalKept, runVars
<1>4. CASE FinalizeCancelledRun(a)
  BY <1>4 DEF FinalizeCancelledRun, SetRun, FinalKept
<1>5. ASSUME NEW r \in Runs, ResumeExecution(a, r) \/ FailPreparing(a, r) PROVE FinalKept
  BY <1>5 DEF ResumeExecution, FailPreparing, SetRun, FinalKept
<1>6. CASE UNCHANGED runVars
  BY <1>6 DEF runVars, FinalKept
<1> QED
  BY <1>1, <1>2, <1>3, <1>4, <1>5, <1>6, AgentNext(a)
  DEF AgentNext, Recover, Continue, EnsureCheckpoints, CrashInEnsureCheckpoints,
      FinalizeCheckpoints, RecoverPreparing, ListExpired, ResetExpiredCheckpoints,
      ListOrphan, ResetOrphanCheckpoints, RecoverCancelRequested, AgentCrash

LEMMA WorkerFinal ==
  ASSUME LeaseInv, NEW w \in Workers, WorkerStep(w) \/ Heartbeat(w) \/ WorkerFault(w)
  PROVE  FinalKept
<1>1. ASSUME NEW r \in Runs, ClaimNextExecution(w, r) PROVE FinalKept
  BY <1>1 DEF ClaimNextExecution, Queued, FinalKept, FINAL_RUN_STATUSES, LeaseInv, TypeOK, RunTypeOK
<1>2. ASSUME pc[w] # "idle", NEW f, NEW s, f => HoldsLease(w), SetRunIf(f, job[w], s)
      PROVE  FinalKept
  <2>1. f => job[w] \in Runs /\ runStatus[job[w]] \notin FINAL_RUN_STATUSES
    BY <1>2, HolderIsLeased DEF LeasedStatuses, FINAL_RUN_STATUSES
  <2> QED BY <1>2, <2>1, SetRunFinal DEF LeaseInv, TypeOK
<1>3. CASE PauseClaimedRun(w)
  BY <1>2, <1>3 DEF PauseClaimedRun
<1>4. CASE ReturnFromRun(w)
  <2>1. CASE pc[w] = "stopping"
    BY <1>2, <1>4, <2>1 DEF ReturnFromRun
  <2>2. CASE pc[w] = "pausing"
    BY <1>2, <1>4, <2>2 DEF ReturnFromRun
  <2>3. CASE pc[w] = "cancelling"
    BY <1>2, <1>4, <2>3 DEF ReturnFromRun
  <2>4. CASE pc[w] = "finishing"
    BY <1>2, <1>4, <2>4 DEF ReturnFromRun
  <2> QED BY <1>4, <2>1, <2>2, <2>3, <2>4 DEF ReturnFromRun
<1>5. CASE HandleDispatchFailure(w)
  BY <1>2, <1>5 DEF HandleDispatchFailure
<1>6. CASE UNCHANGED runStatus
  BY <1>6 DEF FinalKept
<1>7. CASE \E c \in Checkpoints : Submit(w, c) \/ ThreadStep(w, c) \/ AuthFailure(w, c)
                                  \/ MarkFutureFailure(w, c)
  BY <1>6, <1>7
  DEF Submit, ThreadStep, ClaimCheckpoint, CheckExistingResult, SnapshotNotFound,
      FinishBlocked, Permit, Replay, RecordExecutionResult, FinishRecorded, AuthFailure,
      MarkFutureFailure, runVars
<1> QED
  BY <1>1, <1>3, <1>4, <1>5, <1>6, <1>7
  DEF WorkerStep, WorkerFault, StartRun, ListPending, Heartbeat, NoticeCancel,
      LeaveStopping, LeavePaused, LeaveCancelled, LeaveDone, ReleaseAfterFailure, Restart,
      RunFails, Crash, Stop, runVars

\* A run that ended never runs, queues or pauses again: every update that
\* could reopen one is conditional on a status or on a lease it does not have.
THEOREM FinalStays == Spec => FinalRunStaysFinal
<1>1. Init => LeaseInv
  BY InitLeaseInv
<1>2. LeaseInv /\ [Next]_vars => LeaseInv'
  BY NextLeaseInv
<1>3. LeaseInv /\ [Next]_vars => [FinalKept]_vars
  <2> SUFFICES ASSUME LeaseInv, Next PROVE FinalKept
    OBVIOUS
  <2>1. ASSUME NEW r \in Runs, ExpireLease(r) PROVE FinalKept
    BY <2>1 DEF ExpireLease, FinalKept
  <2> QED BY <2>1, AgentFinal, WorkerFinal DEF Next
<1>4. FinalRunStaysFinal <=> [][FinalKept]_vars
  BY DEF FinalRunStaysFinal, FinalKept
<1> QED BY <1>1, <1>2, <1>3, <1>4, PTL DEF Spec

SettledKept == \A c \in Checkpoints : ckStatus[c] \in SettledStatuses
                                      => ckStatus'[c] = ckStatus[c]

LEMMA SetCheckpointsSettled ==
  ASSUME CheckpointTypeOK, NEW S, NEW s, SetCheckpoints(S, s),
         \A c \in S : ckStatus[c] \notin SettledStatuses
  PROVE  SettledKept
  BY DEF CheckpointTypeOK, SetCheckpoints, SettledKept

LEMMA FinishCheckpointSettled ==
  ASSUME CheckpointTypeOK, NEW w, NEW c, NEW s, FinishCheckpoint(w, c, s)
  PROVE  SettledKept
<1>1. CASE OwnsCheckpoint(w, c)
  BY <1>1, SetCheckpointsSettled DEF FinishCheckpoint, OwnsCheckpoint, SettledStatuses
<1>2. CASE ~OwnsCheckpoint(w, c)
  BY <1>2 DEF FinishCheckpoint, ckVars, SettledKept
<1> QED BY <1>1, <1>2

LEMMA NextSettled == ASSUME TypeOK, Next PROVE SettledKept
<1> USE DEF TypeOK
<1>1. CASE UNCHANGED ckVars
  BY <1>1 DEF ckVars, SettledKept
<1>2. ASSUME NEW a \in Agents, AgentNext(a) PROVE SettledKept
  <2>1. CASE \/ EnsureCheckpoints(a) \/ CrashInEnsureCheckpoints(a) \/ FinalizeCheckpoints(a)
             \/ ResetExpiredCheckpoints(a) \/ ResetOrphanCheckpoints(a)
    BY <2>1, SetCheckpointsSettled
    DEF EnsureCheckpoints, CrashInEnsureCheckpoints, FinalizeCheckpoints,
        ResetExpiredCheckpoints, ResetOrphanCheckpoints, OpenOf, RunningUnder,
        OpenStatuses, SettledStatuses
  <2> QED
    BY <1>1, <1>2, <2>1
    DEF AgentNext, Recover, Continue, EnqueueSnapshotBatch, QueuePrepared,
        RequestExecutionCancel, FinalizeCancelledRun, ResumeExecution, RecoverPreparing,
        FailPreparing, ListExpired, RequeueExpired, ListOrphan, RequeueOrphan,
        RecoverCancelRequested, AgentCrash
<1>3. ASSUME NEW w \in Workers, WorkerStep(w) \/ Heartbeat(w) \/ WorkerFault(w)
      PROVE  SettledKept
  <2>1. ASSUME NEW c \in Checkpoints, ClaimCheckpoint(w, c) PROVE SettledKept
    BY <2>1 DEF ClaimCheckpoint, CheckpointTypeOK, SettledKept, SettledStatuses, ckVars
  <2>2. ASSUME NEW c \in Checkpoints,
               \/ CheckExistingResult(w, c) \/ SnapshotNotFound(w, c)
               \/ FinishBlocked(w, c) \/ AuthFailure(w, c)
               \/ FinishRecorded(w, c) \/ MarkFutureFailure(w, c)
        PROVE  SettledKept
    BY <1>1, <2>2, FinishCheckpointSettled
    DEF CheckExistingResult, SnapshotNotFound, FinishBlocked, AuthFailure,
        FinishRecorded, MarkFutureFailure
  <2>3. CASE \/ LeaveStopping(w) \/ LeavePaused(w) \/ LeaveCancelled(w)
             \/ ReleaseAfterFailure(w)
    BY <2>3, SetCheckpointsSettled
    DEF LeaveStopping, LeavePaused, LeaveCancelled, ReleaseAfterFailure,
        ReleaseCheckpoints, OpenOf, RunningUnder, OpenStatuses, SettledStatuses
  <2> QED
    BY <1>1, <1>3, <2>1, <2>2, <2>3
    DEF WorkerStep, ThreadStep, WorkerFault, StartRun, ListPending, Heartbeat,
        NoticeCancel, LeaveDone, ReturnFromRun, HandleDispatchFailure, Restart,
        ClaimNextExecution, Submit, Permit, Replay, RecordExecutionResult,
        PauseClaimedRun, RunFails, Crash, Stop
<1> QED BY <1>1, <1>2, <1>3 DEF Next, ExpireLease

\* A settled checkpoint is never touched again.
THEOREM SettledStays == Spec => SettledCheckpointStays
<1>1. TypeOK /\ [Next]_vars => [SettledKept]_vars
  BY NextSettled
<1>2. SettledCheckpointStays <=> [][SettledKept]_vars
  BY DEF SettledCheckpointStays, SettledKept
<1> QED BY <1>1, <1>2, TypeCorrect, PTL DEF Spec

ResultKept == \A c \in Checkpoints : results[c] # "none" => results'[c] = results[c]

\* The first result recorded under an execution key is kept: the only writer
\* of results is record_execution_result, which inserts under a unique key.
THEOREM ResultStays == Spec => ResultWrittenOnce
<1>1. TypeOK /\ [Next]_vars => [ResultKept]_vars
  <2> SUFFICES ASSUME TypeOK, Next PROVE ResultKept
    OBVIOUS
  <2>1. CASE UNCHANGED results
    BY <2>1 DEF ResultKept
  <2>2. ASSUME NEW a \in Agents, AgentNext(a) PROVE ResultKept
    BY <2>1, <2>2
    DEF AgentNext, Recover, Continue, EnqueueSnapshotBatch, EnsureCheckpoints,
        CrashInEnsureCheckpoints, QueuePrepared, RequestExecutionCancel,
        FinalizeCheckpoints, FinalizeCancelledRun, ResumeExecution, RecoverPreparing,
        FailPreparing, ListExpired, ResetExpiredCheckpoints, RequeueExpired, ListOrphan,
        ResetOrphanCheckpoints, RequeueOrphan, RecoverCancelRequested, AgentCrash
  <2>3. ASSUME NEW w \in Workers, WorkerStep(w) \/ Heartbeat(w) \/ WorkerFault(w)
        PROVE  ResultKept
    <3>1. ASSUME NEW c \in Checkpoints, RecordExecutionResult(w, c) PROVE ResultKept
      BY <3>1 DEF RecordExecutionResult, TypeOK, ResultKept
    <3>2. CASE \E c \in Checkpoints : Submit(w, c) \/ ThreadStep(w, c) \/ AuthFailure(w, c)
                                      \/ MarkFutureFailure(w, c)
      BY <2>1, <3>1, <3>2
      DEF Submit, ThreadStep, ClaimCheckpoint, CheckExistingResult, SnapshotNotFound,
          FinishBlocked, Permit, Replay, FinishRecorded, AuthFailure, MarkFutureFailure
    <3> QED
      BY <2>1, <2>3, <3>2
      DEF WorkerStep, WorkerFault, StartRun, ListPending, Heartbeat, NoticeCancel,
          LeaveStopping, LeavePaused, LeaveCancelled, LeaveDone, ReturnFromRun,
          ReleaseAfterFailure, HandleDispatchFailure, Restart, ClaimNextExecution,
          PauseClaimedRun, RunFails, Crash, Stop
  <2> QED BY <2>1, <2>2, <2>3 DEF Next, ExpireLease
<1>2. ResultWrittenOnce <=> [][ResultKept]_vars
  BY DEF ResultWrittenOnce, ResultKept
<1> QED BY <1>1, <1>2, TypeCorrect, PTL DEF Spec

-----------------------------------------------------------------------------
(* Exclusive execution.  The inductive invariant: until a worker outlives  *)
(* its lease, the run a worker executes is either over or leased to that   *)
(* very claim, and the lease has not expired; so nothing requeues it.      *)

Secured(w) ==
    \/ runStatus[job[w]] \in FINAL_RUN_STATUSES
    \/ /\ runStatus[job[w]] \in LeasedStatuses
       /\ runToken[job[w]] = token[w]
       /\ lease[job[w]] = "live"

Alone == \A v, w \in Workers : job[v] # NoRun /\ job[v] = job[w] => v = w

ExecInv == ~slipped => /\ Alone
                       /\ \A w \in Workers : job[w] # NoRun => Secured(w)

LEMMA InitExec == Init => ExecInv
  BY DEF Init, ExecInv, Alone

\* A run nobody executes may be given any status; one that somebody executes
\* may only end.
LEMMA SetRunExec ==
  ASSUME RunTypeOK, WorkerTypeOK, ExecInv, NEW f, NEW r, NEW s, SetRunIf(f, r, s),
         f => \/ s \in FINAL_RUN_STATUSES
              \/ runStatus[r] \in {"preparing", "paused"}
              \/ lease[r] # "live" /\ runStatus[r] \notin FINAL_RUN_STATUSES,
         UNCHANGED <<job, token, slipped>>
  PROVE  ExecInv'
<1>1. CASE f
  <2> SUFFICES ASSUME ~slipped PROVE Alone' /\ \A w \in Workers : job'[w] # NoRun => Secured(w)'
    BY DEF ExecInv
  <2>1. Alone'
    BY DEF ExecInv, Alone
  <2>2. ASSUME NEW w \in Workers, job'[w] # NoRun PROVE Secured(w)'
    <3>1. Secured(w) /\ job[w] \in Runs /\ job'[w] = job[w] /\ token'[w] = token[w]
      BY <2>2 DEF ExecInv, WorkerTypeOK
    <3>2. CASE job[w] = r
      <4>1. runStatus'[r] = s
        BY <1>1, <3>1, <3>2 DEF SetRunIf, SetRun, RunTypeOK
      <4>2. \/ runStatus[r] \in FINAL_RUN_STATUSES
            \/ lease[r] = "live" /\ runStatus[r] \in LeasedStatuses
        BY <3>1, <3>2 DEF Secured
      <4>3. s \in FINAL_RUN_STATUSES
        BY <1>1, <4>2 DEF FINAL_RUN_STATUSES, LeasedStatuses
      <4> QED BY <3>1, <3>2, <4>1, <4>3 DEF Secured
    <3>3. CASE job[w] # r
      BY <1>1, <3>1, <3>3 DEF SetRunIf, SetRun, RunTypeOK, Secured
    <3> QED BY <3>2, <3>3
  <2> QED BY <2>1, <2>2
<1>2. CASE ~f
  BY <1>2 DEF ExecInv, Alone, Secured, SetRunIf, runVars
<1> QED BY <1>1, <1>2

\* A worker that returns may set the status of the run it held.
LEMMA ReturnExec ==
  ASSUME LeaseInv, ExecInv, NEW w \in Workers, pc[w] # "idle", NEW f, NEW s,
         SetRunIf(f, job[w], s), Return(w), slipped' = slipped
  PROVE  ExecInv'
<1>1. job[w] \in Runs
  BY LeaseParts DEF LeaseInv, ClaimsOK, TypeOK, WorkerTypeOK
<1>2. CASE slipped
  BY <1>2 DEF ExecInv
<1>3. CASE ~slipped
  <2>1. \A v \in Workers : v # w => job'[v] = job[v] /\ token'[v] = token[v]
    BY DEF Return, LeaseInv, TypeOK, WorkerTypeOK
  <2>2. job'[w] = NoRun
    BY DEF Return, LeaseInv, TypeOK, WorkerTypeOK
  <2>3. ASSUME NEW v \in Workers, job'[v] # NoRun
        PROVE  v # w /\ job[v] # job[w] /\ job[v] \in Runs /\ Secured(v)
    BY <1>1, <1>3, <2>1, <2>2, <2>3 DEF ExecInv, Alone, LeaseInv, TypeOK, WorkerTypeOK
  <2>4. Alone'
    BY <1>3, <2>1, <2>3 DEF ExecInv, Alone
  <2>5. ASSUME NEW r \in Runs, r # job[w]
        PROVE  runStatus'[r] = runStatus[r] /\ runToken'[r] = runToken[r] /\ lease'[r] = lease[r]
    BY <2>5 DEF SetRunIf, SetRun, runVars, LeaseInv, TypeOK, RunTypeOK
  <2>6. \A v \in Workers : job'[v] # NoRun => Secured(v)'
    BY <2>1, <2>3, <2>5 DEF Secured
  <2> QED BY <2>4, <2>6 DEF ExecInv
<1> QED BY <1>2, <1>3

LEMMA ClaimExec ==
  ASSUME LeaseInv, ExecInv, NEW w \in Workers, NEW r \in Runs, ClaimNextExecution(w, r)
  PROVE  ExecInv'
<1> USE DEF ClaimNextExecution, LeaseInv, TypeOK, WorkerTypeOK, RunTypeOK
<1>1. CASE slipped
  BY <1>1 DEF ExecInv, ghostVars
<1>2. CASE ~slipped
  <2>1. ASSUME NEW v \in Workers, job[v] = r PROVE FALSE
    <3>1. Secured(v)
      BY <1>2, <2>1, ConstantsAssumption DEF ExecInv, ConstantsAssumption
    <3> QED BY <2>1, <3>1 DEF Secured, Queued, FINAL_RUN_STATUSES, LeasedStatuses
  <2>2. Alone'
    BY <1>2, <2>1 DEF ExecInv, Alone
  <2>3. Secured(w)'
    BY DEF Secured, LeasedStatuses
  <2>4. ASSUME NEW v \in Workers, v # w, job[v] # NoRun PROVE Secured(v)'
    BY <1>2, <2>1, <2>4 DEF ExecInv, Secured
  <2> QED BY <2>2, <2>3, <2>4 DEF ExecInv
<1> QED BY <1>1, <1>2

\* Nothing the invariant is about changes, or a lease is renewed.
LEMMA SameExec ==
  ASSUME ExecInv, RunTypeOK, WorkerTypeOK,
         UNCHANGED <<runStatus, runToken, job, token, slipped>>,
         \/ lease' = lease
         \/ \E r : lease' = [lease EXCEPT ![r] = "live"]
  PROVE  ExecInv'
<1>1. \A q \in Runs : lease[q] = "live" => lease'[q] = "live"
  BY DEF RunTypeOK
<1>2. \A w \in Workers : job[w] # NoRun /\ Secured(w) => Secured(w)'
  BY <1>1 DEF Secured, WorkerTypeOK
<1>3. Alone => Alone'
  BY DEF Alone
<1> QED BY <1>2, <1>3 DEF ExecInv

LEMMA AgentExec == ASSUME LeaseInv, ExecInv, NEW a \in Agents, AgentNext(a) PROVE ExecInv'
<1> USE DEF LeaseInv, TypeOK
<1>1. ASSUME NEW r \in Runs, EnqueueSnapshotBatch(a, r) PROVE ExecInv'
  <2>1. UNCHANGED <<job, token, slipped, runToken, lease>>
    BY <1>1 DEF EnqueueSnapshotBatch, workerVars, ghostVars
  <2>2. \A w \in Workers : job[w] # NoRun /\ Secured(w) => Secured(w)'
    BY <1>1, <2>1 DEF EnqueueSnapshotBatch, Secured, RunTypeOK, WorkerTypeOK,
       FINAL_RUN_STATUSES, LeasedStatuses
  <2>3. Alone => Alone'
    BY <2>1 DEF Alone
  <2> QED BY <2>1, <2>2, <2>3 DEF ExecInv
<1>2. ASSUME NEW r \in Runs, RequestExecutionCancel(a, r) PROVE ExecInv'
  <2>1. UNCHANGED <<job, token, slipped, runToken, lease>>
    BY <1>2 DEF RequestExecutionCancel, workerVars, ghostVars
  <2>2. \A q \in Runs : \/ runStatus'[q] = runStatus[q]
                        \/ runStatus[q] \in LeasedStatuses /\ runStatus'[q] \in LeasedStatuses
    BY <1>2 DEF RequestExecutionCancel, RunTypeOK, LeasedStatuses
  <2>3. \A w \in Workers : job[w] # NoRun /\ Secured(w) => Secured(w)'
    BY <2>1, <2>2 DEF Secured, WorkerTypeOK, FINAL_RUN_STATUSES, LeasedStatuses
  <2>4. Alone => Alone'
    BY <2>1 DEF Alone
  <2> QED BY <2>1, <2>3, <2>4 DEF ExecInv
<1>3. CASE QueuePrepared(a)
  BY <1>3, SetRunExec DEF QueuePrepared, workerVars, ghostVars
<1>4. CASE FinalizeCancelledRun(a)
  <2>1. SetRunIf(TRUE, task[a].run, "cancelled")
    BY <1>4 DEF FinalizeCancelledRun, SetRunIf
  <2> QED BY <1>4, <2>1, SetRunExec DEF FinalizeCancelledRun, workerVars, ghostVars, FINAL_RUN_STATUSES
<1>5. ASSUME NEW r \in Runs, ResumeExecution(a, r) PROVE ExecInv'
  <2>1. SetRunIf(TRUE, r, "queued")
    BY <1>5 DEF ResumeExecution, SetRunIf
  <2> QED BY <1>5, <2>1, SetRunExec DEF ResumeExecution, workerVars, ghostVars
<1>6. ASSUME NEW r \in Runs, FailPreparing(a, r) PROVE ExecInv'
  <2>1. SetRunIf(TRUE, r, "failed")
    BY <1>6 DEF FailPreparing, SetRunIf
  <2> QED BY <1>6, <2>1, SetRunExec DEF FailPreparing, workerVars, ghostVars
<1>7. CASE RequeueExpired(a) \/ RequeueOrphan(a)
  BY <1>7, SetRunExec DEF RequeueExpired, RequeueOrphan, workerVars, ghostVars, FINAL_RUN_STATUSES
<1>8. CASE UNCHANGED <<runVars, workerVars, slipped>>
  BY <1>8, SameExec DEF runVars, workerVars
<1> QED
  BY <1>1, <1>2, <1>3, <1>4, <1>5, <1>6, <1>7, <1>8, AgentNext(a)
  DEF AgentNext, Recover, Continue, EnsureCheckpoints, CrashInEnsureCheckpoints,
      FinalizeCheckpoints, RecoverPreparing, ListExpired, ResetExpiredCheckpoints,
      ListOrphan, ResetOrphanCheckpoints, RecoverCancelRequested, AgentCrash, ghostVars

LEMMA WorkerExec ==
  ASSUME LeaseInv, ExecInv, NEW w \in Workers, WorkerStep(w) \/ Heartbeat(w) \/ WorkerFault(w)
  PROVE  ExecInv'
<1> USE DEF LeaseInv, TypeOK
<1>1. ASSUME NEW r \in Runs, ClaimNextExecution(w, r) PROVE ExecInv'
  BY <1>1, ClaimExec
<1>2. CASE PauseClaimedRun(w)
  BY <1>2, ReturnExec DEF PauseClaimedRun
<1>3. CASE ReturnFromRun(w)
  <2>1. pc[w] # "idle" /\ Return(w) /\ slipped' = slipped
    BY <1>3 DEF ReturnFromRun, ghostVars
  <2>2. \E f \in BOOLEAN, s \in RunStatuses : SetRunIf(f, job[w], s)
    <3>1. ASSUME NEW f, NEW s \in RunStatuses, SetRunIf(f, job[w], s)
          PROVE  \E g \in BOOLEAN, t \in RunStatuses : SetRunIf(g, job[w], t)
      <4>1. CASE f
        <5>1. SetRunIf(TRUE, job[w], s)
          BY <3>1, <4>1 DEF SetRunIf
        <5> QED BY <5>1
      <4>2. CASE ~f
        <5>1. SetRunIf(FALSE, job[w], s)
          BY <3>1, <4>2 DEF SetRunIf
        <5> QED BY <5>1
      <4> QED BY <4>1, <4>2
    <3> QED BY <1>3, <3>1, StatusNames DEF ReturnFromRun
  <2> QED BY <2>1, <2>2, ReturnExec
<1>4. CASE HandleDispatchFailure(w)
  BY <1>4, ReturnExec DEF HandleDispatchFailure, ghostVars
<1>5. CASE Crash(w)
  <2>1. SetRunIf(FALSE, job[w], "queued")
    BY <1>5 DEF Crash, SetRunIf
  <2> QED BY <1>5, <2>1, ReturnExec DEF Crash
<1>6. CASE StartRun(w)
  <2>1. CASE CanRenew(w)
    BY <1>6, <2>1, SameExec DEF StartRun, ghostVars
  <2>2. CASE ~CanRenew(w)
    <3>1. SetRunIf(FALSE, job[w], "queued")
      BY <1>6, <2>2 DEF StartRun, SetRunIf, runVars
    <3> QED BY <1>6, <2>2, <3>1, ReturnExec DEF StartRun, ghostVars
  <2> QED BY <2>1, <2>2
<1>7. CASE Heartbeat(w)
  BY <1>7, SameExec DEF Heartbeat, ghostVars
<1>8. CASE \E c \in Checkpoints : Submit(w, c) \/ ThreadStep(w, c) \/ AuthFailure(w, c)
                                  \/ MarkFutureFailure(w, c)
  BY <1>8, SameExec
  DEF Submit, ThreadStep, ClaimCheckpoint, CheckExistingResult, SnapshotNotFound,
      FinishBlocked, Permit, Replay, RecordExecutionResult, FinishRecorded, AuthFailure,
      MarkFutureFailure, runVars, ghostVars
<1> QED
  BY <1>1, <1>2, <1>3, <1>4, <1>5, <1>6, <1>7, <1>8, SameExec
  DEF WorkerStep, WorkerFault, ListPending, NoticeCancel,
      LeaveStopping, LeavePaused, LeaveCancelled, LeaveDone, ReleaseAfterFailure, Restart,
      RunFails, Stop, runVars, ghostVars

LEMMA ExpireExec == ASSUME LeaseInv, ExecInv, NEW r \in Runs, ExpireLease(r) PROVE ExecInv'
<1> USE DEF LeaseInv, TypeOK
<1>1. CASE \E w \in Workers : Holder(w, r)
  BY <1>1 DEF ExpireLease, ExecInv
<1>2. CASE ~ \E w \in Workers : Holder(w, r)
  BY <1>2, LeaseParts DEF ExpireLease, ExecInv, Alone, Secured, Holder, workerVars, RunTypeOK, ClaimsOK, RunTokens
<1> QED BY <1>1, <1>2

LEMMA NextExec == LeaseInv /\ ExecInv /\ [Next]_vars => ExecInv'
<1> SUFFICES ASSUME LeaseInv, ExecInv, [Next]_vars PROVE ExecInv'
  OBVIOUS
<1>1. CASE Next
  BY <1>1, AgentExec, WorkerExec, ExpireExec DEF Next
<1>2. CASE UNCHANGED vars
  BY <1>2, SameExec DEF vars, runVars, workerVars, ghostVars, LeaseInv, TypeOK
<1> QED BY <1>1, <1>2

\* Until a worker outlives its lease, a run is executed by one worker at a
\* time, for any number of workers, runs and faults.
THEOREM ExecutionExclusive == Spec => []ExclusiveExecution
<1>1. Init => LeaseInv /\ ExecInv
  BY InitLeaseInv, InitExec
<1>2. LeaseInv /\ ExecInv /\ [Next]_vars => LeaseInv' /\ ExecInv'
  BY NextLeaseInv, NextExec
<1>3. ExecInv => ExclusiveExecution
  BY DEF ExecInv, Alone, ExclusiveExecution
<1> QED BY <1>1, <1>2, <1>3, PTL DEF Spec

-----------------------------------------------------------------------------
(* Attempts and sends.  A claim of the run is worth one attempt at each of *)
(* its checkpoints, and an attempt is worth one request: the claims that   *)
(* may still spend their attempt at c, and those that may still spend its  *)
(* request, are counted by their tokens, which no two workers share.       *)

CanClaim(w, c) ==
    /\ job[w] = RunOf[c]
    /\ pc[w] \in {"claimed", "listing"} \/ c \in todo[w] \/ thread[w][c] = "submitted"
CanSend(w, c) == thread[w][c] \in {"claimed", "checked", "permitted"}

Claimants(c) == {token[w] : w \in {v \in Workers : CanClaim(v, c)}}
Senders(c)   == {token[w] : w \in {v \in Workers : CanSend(v, c)}}

Spent(c) == (1 .. dispatch[RunOf[c]]) \ Claimants(c)

AttemptsCounted == \A c \in Checkpoints : attempts[c] <= Cardinality(Spent(c))
SendsCounted    == \A c \in Checkpoints : sends[c] + Cardinality(Senders(c)) <= attempts[c]

\* What a worker lists and executes belongs to its run, and a checkpoint is
\* listed or executed, not both.
ThreadsOK ==
    \A w \in Workers : \A c \in Checkpoints :
        /\ c \in todo[w] => job[w] = RunOf[c]
        /\ thread[w][c] # "none" => /\ job[w] = RunOf[c]
                                    /\ pc[w] \notin {"idle", "claimed", "listing"}
                                    /\ c \notin todo[w]
        /\ thread[w][c] \in {"ok", "err", "recorded_ok", "recorded_err"} => sends[c] > 0

ResultsSent == \A c \in Checkpoints : results[c] # "none" => sends[c] > 0

SendInv == ThreadsOK /\ ResultsSent /\ AttemptsCounted /\ SendsCounted

LEMMA Tokens == ASSUME NEW n \in Nat PROVE IsFiniteSet(1 .. n) /\ Cardinality(1 .. n) = n
<1>1. 1 \in Int /\ n \in Int
  OBVIOUS
<1>2. IsFiniteSet(1 .. n) /\ Cardinality(1 .. n) = IF 1 > n THEN 0 ELSE n - 1 + 1
  BY <1>1, FS_Interval
<1> QED BY <1>2

LEMMA NextToken ==
  ASSUME NEW n \in Nat
  PROVE  1 .. (n + 1) = (1 .. n) \cup {n + 1} /\ n + 1 \notin 1 .. n
  OBVIOUS

LEMMA CountedSets ==
  ASSUME LeaseInv, ThreadsOK, NEW c \in Checkpoints
  PROVE  /\ dispatch[RunOf[c]] \in Nat
         /\ Claimants(c) \subseteq 1 .. dispatch[RunOf[c]]
         /\ Senders(c) \subseteq 1 .. dispatch[RunOf[c]]
         /\ IsFiniteSet(Spent(c)) /\ IsFiniteSet(Senders(c))
         /\ Cardinality(Spent(c)) \in Nat /\ Cardinality(Senders(c)) \in Nat
         /\ Cardinality(Spent(c)) <= dispatch[RunOf[c]]
<1>1. RunOf[c] \in Runs /\ RunOf[c] # NoRun /\ dispatch[RunOf[c]] \in Nat
  BY ConstantsAssumption DEF ConstantsAssumption, LeaseInv, TypeOK, RunTypeOK
<1>2. \A w \in Workers : job[w] = RunOf[c] => token[w] \in 1 .. dispatch[RunOf[c]]
  BY <1>1 DEF LeaseInv, ClaimsOK
<1>3. Claimants(c) \subseteq 1 .. dispatch[RunOf[c]]
  BY <1>2 DEF Claimants, CanClaim
<1>4. Senders(c) \subseteq 1 .. dispatch[RunOf[c]]
  BY <1>2 DEF Senders, CanSend, ThreadsOK
<1>5. /\ IsFiniteSet(1 .. dispatch[RunOf[c]])
      /\ Cardinality(1 .. dispatch[RunOf[c]]) = dispatch[RunOf[c]]
  BY <1>1, Tokens
<1>6. Spent(c) \subseteq 1 .. dispatch[RunOf[c]]
  BY DEF Spent
<1>7. /\ IsFiniteSet(Spent(c)) /\ IsFiniteSet(Senders(c))
      /\ Cardinality(Spent(c)) <= dispatch[RunOf[c]]
  BY <1>4, <1>5, <1>6, FS_Subset
<1>8. Cardinality(Spent(c)) \in Nat /\ Cardinality(Senders(c)) \in Nat
  BY <1>7, FS_CardinalityType
<1> QED BY <1>1, <1>3, <1>4, <1>7, <1>8

\* Nobody gains a right to claim or to send.
LEMMA FewerRights ==
  ASSUME LeaseInv, SendInv, UNCHANGED <<dispatch, attempts, sends>>,
         NEW c \in Checkpoints,
         \A w \in Workers : CanClaim(w, c)' => CanClaim(w, c) /\ token'[w] = token[w],
         \A w \in Workers : CanSend(w, c)' => CanSend(w, c) /\ token'[w] = token[w]
  PROVE  /\ attempts'[c] <= Cardinality(Spent(c)')
         /\ sends'[c] + Cardinality(Senders(c)') <= attempts'[c]
<1> USE DEF SendInv
<1>1. Claimants(c)' \subseteq Claimants(c) /\ Senders(c)' \subseteq Senders(c)
  BY DEF Claimants, Senders
<1>2. Spent(c) \subseteq Spent(c)' /\ Spent(c)' \subseteq 1 .. dispatch[RunOf[c]]
  BY <1>1 DEF Spent
<1>3. IsFiniteSet(1 .. dispatch[RunOf[c]])
  BY CountedSets, Tokens
<1>4. IsFiniteSet(Spent(c)')
  BY <1>2, <1>3, FS_Subset
<1>5. Cardinality(Spent(c)) <= Cardinality(Spent(c)') /\ Cardinality(Spent(c)') \in Nat
  BY <1>2, <1>4, FS_Subset, FS_CardinalityType
<1>6. Cardinality(Senders(c)') <= Cardinality(Senders(c)) /\ Cardinality(Senders(c)') \in Nat
  BY <1>1, CountedSets, FS_Subset, FS_CardinalityType
<1>7. attempts[c] \in Nat /\ sends[c] \in Nat
  BY DEF LeaseInv, TypeOK, CheckpointTypeOK, GhostTypeOK
<1>8. Cardinality(Spent(c)) \in Nat /\ Cardinality(Senders(c)) \in Nat
  BY CountedSets
<1>9. attempts[c] <= Cardinality(Spent(c)) /\ sends[c] + Cardinality(Senders(c)) <= attempts[c]
  BY DEF AttemptsCounted, SendsCounted
<1> QED BY <1>5, <1>6, <1>7, <1>8, <1>9

\* The pool thread of w takes its attempt at c.
LEMMA TakeAttempt ==
  ASSUME LeaseInv, SendInv, UNCHANGED <<dispatch, sends, token, job, pc, todo>>,
         NEW w \in Workers, NEW c \in Checkpoints, thread[w][c] = "submitted",
         SetThread(w, c, "claimed"), attempts'[c] = attempts[c] + 1
  PROVE  /\ attempts'[c] <= Cardinality(Spent(c)')
         /\ sends'[c] + Cardinality(Senders(c)') <= attempts'[c]
<1> USE DEF SendInv
<1>1. \A v \in Workers \ {w} : thread'[v] = thread[v]
  BY DEF SetThread, LeaseInv, TypeOK, WorkerTypeOK
<1>2. thread'[w][c] = "claimed"
  BY DEF SetThread, LeaseInv, TypeOK, WorkerTypeOK
<1>3. job[w] = RunOf[c] /\ RunOf[c] \in Runs /\ RunOf[c] # NoRun /\ c \notin todo[w]
      /\ pc[w] \notin {"claimed", "listing"}
  BY ConstantsAssumption DEF ThreadsOK, ConstantsAssumption
<1>4. CanClaim(w, c) /\ ~CanClaim(w, c)' /\ CanSend(w, c)' /\ ~CanSend(w, c)
  BY <1>2, <1>3 DEF CanClaim, CanSend
<1>5. \A v \in Workers \ {w} : CanClaim(v, c)' = CanClaim(v, c) /\ CanSend(v, c)' = CanSend(v, c)
  BY <1>1 DEF CanClaim, CanSend
<1>6. \A v \in Workers \ {w} : job[v] = RunOf[c] => token[v] # token[w]
  BY <1>3, LeaseParts DEF LeaseInv, ClaimsDistinct
<1>7. Claimants(c)' = Claimants(c) \ {token[w]} /\ token[w] \in Claimants(c)
  <2>1. \A v \in Workers \ {w} : CanClaim(v, c) => token[v] # token[w]
    BY <1>6 DEF CanClaim
  <2> QED BY <1>4, <1>5, <2>1 DEF Claimants
<1>8. Senders(c)' = Senders(c) \cup {token[w]} /\ token[w] \notin Senders(c)
  <2>1. \A v \in Workers \ {w} : CanSend(v, c) => token[v] # token[w]
    BY <1>6 DEF CanSend, ThreadsOK
  <2> QED BY <1>4, <1>5, <2>1 DEF Senders
<1>9. Spent(c)' = Spent(c) \cup {token[w]} /\ token[w] \notin Spent(c)
  BY <1>7, CountedSets DEF Spent
<1>10. /\ Cardinality(Spent(c)') = Cardinality(Spent(c)) + 1
       /\ Cardinality(Senders(c)') = Cardinality(Senders(c)) + 1
  BY <1>8, <1>9, CountedSets, FS_AddElement
<1>11. attempts[c] \in Nat /\ sends[c] \in Nat
  BY DEF LeaseInv, TypeOK, CheckpointTypeOK, GhostTypeOK
<1>12. Cardinality(Spent(c)) \in Nat /\ Cardinality(Senders(c)) \in Nat
  BY CountedSets
<1>13. attempts[c] <= Cardinality(Spent(c)) /\ sends[c] + Cardinality(Senders(c)) <= attempts[c]
  BY DEF AttemptsCounted, SendsCounted
<1> QED BY <1>10, <1>11, <1>12, <1>13

\* The pool thread of w sends the request of its attempt at c.
LEMMA TakeSend ==
  ASSUME LeaseInv, SendInv, UNCHANGED <<dispatch, attempts, token, job, pc, todo>>,
         NEW w \in Workers, NEW c \in Checkpoints, thread[w][c] = "permitted",
         NEW o \in Outcomes, SetThread(w, c, o), sends'[c] = sends[c] + 1
  PROVE  /\ attempts'[c] <= Cardinality(Spent(c)')
         /\ sends'[c] + Cardinality(Senders(c)') <= attempts'[c]
<1> USE DEF SendInv
<1>1. \A v \in Workers \ {w} : thread'[v] = thread[v]
  BY DEF SetThread, LeaseInv, TypeOK, WorkerTypeOK
<1>2. thread'[w][c] \in {"ok", "err"}
  BY DEF SetThread, LeaseInv, TypeOK, WorkerTypeOK, Outcomes
<1>3. job[w] = RunOf[c] /\ RunOf[c] \in Runs /\ RunOf[c] # NoRun
  BY ConstantsAssumption DEF ThreadsOK, ConstantsAssumption
<1>4. (CanClaim(w, c)' <=> CanClaim(w, c)) /\ ~CanSend(w, c)' /\ CanSend(w, c)
  BY <1>2 DEF CanClaim, CanSend
<1>5. \A v \in Workers \ {w} : (CanClaim(v, c)' <=> CanClaim(v, c)) /\ (CanSend(v, c)' <=> CanSend(v, c))
  BY <1>1 DEF CanClaim, CanSend
<1>6. \A v \in Workers \ {w} : job[v] = RunOf[c] => token[v] # token[w]
  BY <1>3, LeaseParts DEF LeaseInv, ClaimsDistinct
<1>7. Spent(c)' = Spent(c)
  BY <1>4, <1>5 DEF Claimants, Spent
<1>8. Senders(c)' = Senders(c) \ {token[w]} /\ token[w] \in Senders(c)
  <2>1. \A v \in Workers \ {w} : CanSend(v, c) => token[v] # token[w]
    BY <1>6 DEF CanSend, ThreadsOK
  <2> QED BY <1>4, <1>5, <2>1 DEF Senders
<1>9. Cardinality(Senders(c)') = Cardinality(Senders(c)) - 1
  BY <1>8, CountedSets, FS_RemoveElement
<1>10. attempts[c] \in Nat /\ sends[c] \in Nat
  BY DEF LeaseInv, TypeOK, CheckpointTypeOK, GhostTypeOK
<1>11. Cardinality(Spent(c)) \in Nat /\ Cardinality(Senders(c)) \in Nat
  BY CountedSets
<1>12. attempts[c] <= Cardinality(Spent(c)) /\ sends[c] + Cardinality(Senders(c)) <= attempts[c]
  BY DEF AttemptsCounted, SendsCounted
<1> QED BY <1>7, <1>9, <1>10, <1>11, <1>12

LEMMA NoGain ==
  ASSUME LeaseInv, SendInv, UNCHANGED <<dispatch, attempts, sends, results>>, ThreadsOK',
         \A w \in Workers : \A c \in Checkpoints :
            /\ CanClaim(w, c)' => CanClaim(w, c) /\ token'[w] = token[w]
            /\ CanSend(w, c)' => CanSend(w, c) /\ token'[w] = token[w]
  PROVE  SendInv'
<1>1. AttemptsCounted' /\ SendsCounted'
  BY FewerRights DEF AttemptsCounted, SendsCounted
<1>2. ResultsSent'
  BY DEF ResultsSent, SendInv
<1> QED BY <1>1, <1>2 DEF SendInv

LEMMA SameSends ==
  ASSUME LeaseInv, SendInv, UNCHANGED <<dispatch, attempts, sends, results, job, token, todo, thread>>,
         \A w \in Workers : \/ pc'[w] = pc[w]
                            \/ pc[w] = "claimed" /\ pc'[w] = "listing"
                            \/ pc'[w] \notin {"idle", "claimed", "listing"}
  PROVE  SendInv'
<1>1. ThreadsOK'
  BY DEF SendInv, ThreadsOK
<1>2. \A w \in Workers : \A c \in Checkpoints :
            /\ CanClaim(w, c)' => CanClaim(w, c)
            /\ CanSend(w, c)' => CanSend(w, c)
  BY DEF CanClaim, CanSend
<1> QED BY <1>1, <1>2, NoGain

LEMMA ReturnSends ==
  ASSUME LeaseInv, SendInv, UNCHANGED <<dispatch, attempts, sends, results>>,
         NEW w \in Workers, Return(w)
  PROVE  SendInv'
<1> USE DEF LeaseInv, TypeOK, WorkerTypeOK, Return, Goto
<1>1. /\ pc'[w] = "idle" /\ todo'[w] = {} /\ \A c \in Checkpoints : thread'[w][c] = "none"
      /\ \A v \in Workers \ {w} : /\ pc'[v] = pc[v] /\ job'[v] = job[v] /\ token'[v] = token[v]
                                  /\ todo'[v] = todo[v] /\ thread'[v] = thread[v]
  BY DEF NoThreads
<1>2. ThreadsOK'
  BY <1>1 DEF SendInv, ThreadsOK
<1>3. \A v \in Workers : \A c \in Checkpoints :
            /\ CanClaim(v, c)' => CanClaim(v, c) /\ token'[v] = token[v]
            /\ CanSend(v, c)' => CanSend(v, c) /\ token'[v] = token[v]
  BY <1>1 DEF CanClaim, CanSend
<1> QED BY <1>2, <1>3, NoGain

\* A pool thread moves on without a new right.
LEMMA ThreadSends ==
  ASSUME LeaseInv, SendInv, UNCHANGED <<dispatch, attempts, sends, job, token, pc, todo>>,
         NEW w \in Workers, NEW c \in Checkpoints, NEW s, SetThread(w, c, s),
         thread[w][c] # "none", s # "submitted",
         s \in {"claimed", "checked", "permitted"} => CanSend(w, c),
         s \in {"ok", "err", "recorded_ok", "recorded_err"} => sends[c] > 0,
         \A d \in Checkpoints : results'[d] # "none" => results[d] # "none" \/ sends[d] > 0
  PROVE  SendInv'
<1>1. /\ thread'[w][c] = s
      /\ \A v \in Workers, d \in Checkpoints : v # w \/ d # c => thread'[v][d] = thread[v][d]
  BY DEF SetThread, LeaseInv, TypeOK, WorkerTypeOK
<1>2. ThreadsOK'
  BY <1>1 DEF SendInv, ThreadsOK
<1>3. \A v \in Workers : \A d \in Checkpoints :
            /\ CanClaim(v, d)' => CanClaim(v, d)
            /\ CanSend(v, d)' => CanSend(v, d)
  BY <1>1 DEF CanClaim, CanSend
<1>4. AttemptsCounted' /\ SendsCounted'
  BY <1>3, FewerRights DEF AttemptsCounted, SendsCounted
<1>5. ResultsSent'
  BY DEF ResultsSent, SendInv
<1> QED BY <1>2, <1>4, <1>5 DEF SendInv

LEMMA ListSends ==
  ASSUME LeaseInv, SendInv, NEW w \in Workers,
         ListPending(w) \/ \E c \in Checkpoints : Submit(w, c)
  PROVE  SendInv'
<1> USE DEF LeaseInv, TypeOK, WorkerTypeOK
<1>0. UNCHANGED <<dispatch, attempts, sends, results, job, token>>
  BY DEF ListPending, Submit, runVars, ckVars, ghostVars
<1>1. CASE ListPending(w)
  <2>1. /\ pc[w] = "listing" /\ pc'[w] = "running" /\ todo'[w] \subseteq CheckpointsOf(job[w])
        /\ thread' = thread
        /\ \A v \in Workers \ {w} : pc'[v] = pc[v] /\ todo'[v] = todo[v]
    BY <1>1 DEF ListPending, Goto
  <2>2. ThreadsOK'
    BY <1>0, <2>1 DEF SendInv, ThreadsOK, CheckpointsOf
  <2>3. \A v \in Workers : \A c \in Checkpoints :
            /\ CanClaim(v, c)' => CanClaim(v, c)
            /\ CanSend(v, c)' => CanSend(v, c)
    BY <1>0, <2>1 DEF CanClaim, CanSend
  <2> QED BY <1>0, <2>2, <2>3, NoGain
<1>2. ASSUME NEW c \in Checkpoints, Submit(w, c) PROVE SendInv'
  <2>1. /\ pc' = pc /\ pc[w] = "running" /\ c \in todo[w] /\ todo'[w] = todo[w] \ {c}
        /\ \A v \in Workers \ {w} : todo'[v] = todo[v]
        /\ thread'[w][c] = "submitted"
        /\ \A v \in Workers, d \in Checkpoints : v # w \/ d # c => thread'[v][d] = thread[v][d]
    BY <1>2 DEF Submit, SetThread
  <2>2. ThreadsOK'
    BY <1>0, <2>1 DEF SendInv, ThreadsOK
  <2>3. \A v \in Workers : \A d \in Checkpoints :
            /\ CanClaim(v, d)' => CanClaim(v, d)
            /\ CanSend(v, d)' => CanSend(v, d)
    BY <1>0, <2>1 DEF CanClaim, CanSend, SendInv, ThreadsOK
  <2> QED BY <1>0, <2>2, <2>3, NoGain
<1> QED BY <1>1, <1>2

LEMMA ClaimCheckpointSends ==
  ASSUME LeaseInv, SendInv, NEW w \in Workers, NEW c \in Checkpoints, ClaimCheckpoint(w, c)
  PROVE  SendInv'
<1> USE DEF LeaseInv, TypeOK, WorkerTypeOK
<1>0. UNCHANGED <<dispatch, sends, results, job, token, pc, todo>>
  BY DEF ClaimCheckpoint, runVars, ghostVars
<1>1. CASE ckStatus[c] # "pending"
  BY <1>0, <1>1, ThreadSends DEF ClaimCheckpoint, ckVars
<1>2. CASE ckStatus[c] = "pending"
  <2>1. /\ SetThread(w, c, "claimed") /\ thread[w][c] = "submitted"
        /\ attempts'[c] = attempts[c] + 1
        /\ \A d \in Checkpoints \ {c} : attempts'[d] = attempts[d]
    BY <1>2 DEF ClaimCheckpoint, CheckpointTypeOK
  <2>2. /\ thread'[w][c] = "claimed"
        /\ \A v \in Workers, d \in Checkpoints : v # w \/ d # c => thread'[v][d] = thread[v][d]
    BY <2>1 DEF SetThread
  <2>3. ThreadsOK'
    BY <1>0, <2>1, <2>2 DEF SendInv, ThreadsOK
  <2>4. /\ attempts'[c] <= Cardinality(Spent(c)')
        /\ sends'[c] + Cardinality(Senders(c)') <= attempts'[c]
    BY <1>0, <2>1, TakeAttempt
  <2>5. ASSUME NEW d \in Checkpoints \ {c}
        PROVE  /\ attempts'[d] <= Cardinality(Spent(d)')
               /\ sends'[d] + Cardinality(Senders(d)') <= attempts'[d]
    <3>1. Spent(d)' = Spent(d) /\ Senders(d)' = Senders(d)
      BY <1>0, <2>2 DEF Spent, Senders, Claimants, CanClaim, CanSend
    <3> QED BY <1>0, <2>1, <3>1 DEF SendInv, AttemptsCounted, SendsCounted
  <2>6. AttemptsCounted' /\ SendsCounted'
    BY <2>4, <2>5 DEF AttemptsCounted, SendsCounted
  <2>7. ResultsSent'
    BY <1>0 DEF ResultsSent, SendInv
  <2> QED BY <2>3, <2>6, <2>7 DEF SendInv
<1> QED BY <1>1, <1>2

LEMMA ReplaySends ==
  ASSUME LeaseInv, SendInv, NEW w \in Workers, NEW c \in Checkpoints, Replay(w, c)
  PROVE  SendInv'
<1> USE DEF LeaseInv, TypeOK, WorkerTypeOK
<1>0. UNCHANGED <<dispatch, attempts, results, job, token, pc, todo>>
  BY DEF Replay, runVars, ckVars
<1> PICK o \in Outcomes : SetThread(w, c, o)
  BY DEF Replay
<1>1. /\ thread[w][c] = "permitted" /\ sends'[c] = sends[c] + 1 /\ sends[c] \in Nat
      /\ \A d \in Checkpoints \ {c} : sends'[d] = sends[d]
  BY DEF Replay, GhostTypeOK
<1>2. /\ thread'[w][c] = o
      /\ \A v \in Workers, d \in Checkpoints : v # w \/ d # c => thread'[v][d] = thread[v][d]
  BY DEF SetThread
<1>3. ThreadsOK'
  BY <1>0, <1>1, <1>2 DEF SendInv, ThreadsOK
<1>4. /\ attempts'[c] <= Cardinality(Spent(c)')
      /\ sends'[c] + Cardinality(Senders(c)') <= attempts'[c]
  BY <1>0, <1>1, TakeSend
<1>5. ASSUME NEW d \in Checkpoints \ {c}
      PROVE  /\ attempts'[d] <= Cardinality(Spent(d)')
             /\ sends'[d] + Cardinality(Senders(d)') <= attempts'[d]
  <2>1. Spent(d)' = Spent(d) /\ Senders(d)' = Senders(d)
    BY <1>0, <1>2 DEF Spent, Senders, Claimants, CanClaim, CanSend
  <2> QED BY <1>0, <1>1, <2>1 DEF SendInv, AttemptsCounted, SendsCounted
<1>6. AttemptsCounted' /\ SendsCounted'
  BY <1>4, <1>5 DEF AttemptsCounted, SendsCounted
<1>7. ResultsSent'
  BY <1>0, <1>1 DEF ResultsSent, SendInv
<1> QED BY <1>3, <1>6, <1>7 DEF SendInv

\* A claim of the run adds a token and a claimant at once.
LEMMA ClaimRunSends ==
  ASSUME LeaseInv, SendInv, NEW w \in Workers, NEW r \in Runs, ClaimNextExecution(w, r)
  PROVE  SendInv'
<1> USE DEF LeaseInv, TypeOK, WorkerTypeOK, RunTypeOK
<1>0. UNCHANGED <<attempts, sends, results, todo, thread>>
  BY DEF ClaimNextExecution, ckVars, ghostVars
<1>1. /\ pc[w] = "idle" /\ pc'[w] = "claimed" /\ job'[w] = r /\ token'[w] = dispatch[r] + 1
      /\ dispatch'[r] = dispatch[r] + 1 /\ dispatch[r] \in Nat
      /\ \A q \in Runs \ {r} : dispatch'[q] = dispatch[q]
      /\ \A v \in Workers \ {w} : pc'[v] = pc[v] /\ job'[v] = job[v] /\ token'[v] = token[v]
  BY DEF ClaimNextExecution, Goto
<1>2. job[w] = NoRun
  BY <1>1 DEF ClaimsOK
<1>3. \A c \in Checkpoints : c \notin todo[w] /\ thread[w][c] = "none" /\ RunOf[c] \in Runs
  BY <1>1, <1>2, ConstantsAssumption DEF SendInv, ThreadsOK, ConstantsAssumption
<1>4. ThreadsOK'
  BY <1>0, <1>1, <1>3 DEF SendInv, ThreadsOK
<1>5. ASSUME NEW c \in Checkpoints PROVE Spent(c)' = Spent(c) /\ Senders(c)' = Senders(c)
  <2> HIDE DEF LeaseInv, TypeOK, WorkerTypeOK, RunTypeOK
  <2>1. \A v \in Workers \ {w} : /\ CanClaim(v, c)' <=> CanClaim(v, c)
                                 /\ CanSend(v, c)' <=> CanSend(v, c)
                                 /\ token'[v] = token[v]
    BY <1>0, <1>1 DEF CanClaim, CanSend
  <2>2. ~CanSend(w, c)' /\ ~CanSend(w, c) /\ ~CanClaim(w, c)
    BY <1>0, <1>1, <1>3 DEF CanClaim, CanSend
  <2>3. Senders(c)' = Senders(c)
    BY <2>1, <2>2 DEF Senders
  <2>4. CASE RunOf[c] = r
    <3>1. CanClaim(w, c)'
      BY <1>1, <2>4 DEF CanClaim
    <3>2. Claimants(c)' = Claimants(c) \cup {token'[w]}
      BY <2>1, <2>2, <3>1 DEF Claimants
    <3>3. Claimants(c) \subseteq 1 .. dispatch[r]
      BY <2>4, CountedSets DEF SendInv
    <3>4. 1 .. (dispatch[r] + 1) = (1 .. dispatch[r]) \cup {token'[w]}
      BY <1>1, NextToken
    <3>5. token'[w] \notin 1 .. dispatch[r]
      BY <1>1, NextToken
    <3>6. Spent(c)' = (1 .. (dispatch[r] + 1)) \ Claimants(c)'
      BY <1>1, <2>4 DEF Spent
    <3>7. Spent(c) = (1 .. dispatch[r]) \ Claimants(c)
      BY <2>4 DEF Spent
    <3> HIDE DEF Claimants, Spent
    <3>8. Spent(c)' = Spent(c)
      BY <3>2, <3>3, <3>4, <3>5, <3>6, <3>7
    <3> QED BY <2>3, <3>8
  <2>5. CASE RunOf[c] # r
    <3>1. ~CanClaim(w, c)'
      BY <1>1, <2>5 DEF CanClaim
    <3>2. Claimants(c)' = Claimants(c)
      BY <2>1, <2>2, <3>1 DEF Claimants
    <3> QED BY <1>1, <1>3, <2>3, <2>5, <3>2 DEF Spent
  <2> QED BY <2>4, <2>5
<1>6. AttemptsCounted' /\ SendsCounted'
  BY <1>0, <1>5 DEF SendInv, AttemptsCounted, SendsCounted
<1>7. ResultsSent'
  BY <1>0 DEF ResultsSent, SendInv
<1> QED BY <1>4, <1>6, <1>7 DEF SendInv

LEMMA AgentSends ==
  ASSUME LeaseInv, SendInv, NEW a \in Agents, AgentNext(a) PROVE SendInv'
<1>1. UNCHANGED <<dispatch, attempts, sends, results, job, token, pc, todo, thread>>
  BY AgentNext(a)
  DEF AgentNext, Recover, Continue, SetRun, SetRunIf, SetCheckpoints, runVars, ckVars,
      workerVars, ghostVars, EnqueueSnapshotBatch, EnsureCheckpoints,
      CrashInEnsureCheckpoints, QueuePrepared, RequestExecutionCancel, FinalizeCheckpoints,
      FinalizeCancelledRun, ResumeExecution, RecoverPreparing, FailPreparing, ListExpired,
      ResetExpiredCheckpoints, RequeueExpired, ListOrphan, ResetOrphanCheckpoints,
      RequeueOrphan, RecoverCancelRequested, AgentCrash
<1> QED BY <1>1, SameSends

LEMMA WorkerSends ==
  ASSUME LeaseInv, SendInv, NEW w \in Workers, WorkerStep(w) \/ Heartbeat(w) \/ WorkerFault(w)
  PROVE  SendInv'
<1>1. CASE \E r \in Runs : ClaimNextExecution(w, r)
  BY <1>1, ClaimRunSends
<1>2. CASE PauseClaimedRun(w) \/ ReturnFromRun(w) \/ HandleDispatchFailure(w) \/ Crash(w)
  <2>1. UNCHANGED <<dispatch, attempts, sends, results>> /\ Return(w)
    BY <1>2 DEF PauseClaimedRun, ReturnFromRun, HandleDispatchFailure, Crash, SetRunIf, SetRun,
       runVars, ckVars, ghostVars
  <2> QED BY <2>1, ReturnSends
<1>3. CASE StartRun(w)
  <2>1. CASE CanRenew(w)
    <3>1. \A v \in Workers : \/ pc'[v] = pc[v]
                             \/ pc[v] = "claimed" /\ pc'[v] = "listing"
      BY <1>3, <2>1 DEF StartRun, Goto, LeaseInv, TypeOK, WorkerTypeOK
    <3> QED BY <1>3, <2>1, <3>1, SameSends DEF StartRun, ckVars, ghostVars
  <2>2. CASE ~CanRenew(w)
    BY <1>3, <2>2, ReturnSends DEF StartRun, ckVars, ghostVars
  <2> QED BY <2>1, <2>2
<1>4. CASE ListPending(w) \/ \E c \in Checkpoints : Submit(w, c)
  BY <1>4, ListSends
<1>5. CASE \/ NoticeCancel(w) \/ Heartbeat(w) \/ Stop(w) \/ Restart(w)
           \/ LeaveStopping(w) \/ LeavePaused(w) \/ LeaveCancelled(w) \/ LeaveDone(w)
           \/ RunFails(w) \/ ReleaseAfterFailure(w)
  <2>1. UNCHANGED <<dispatch, attempts, sends, results, job, token, todo, thread>>
    BY <1>5 DEF NoticeCancel, Heartbeat, Stop, Restart, LeaveStopping, LeavePaused,
       LeaveCancelled, LeaveDone, RunFails, ReleaseAfterFailure, ReleaseCheckpoints,
       SetCheckpoints, runVars, ckVars, ghostVars
  <2>2. pc' = pc \/ \E p \in {"stopping", "pausing", "cancelling", "finishing", "failing", "failed"} :
                       Goto(w, p)
    BY <1>5 DEF NoticeCancel, Heartbeat, Stop, Restart, LeaveStopping, LeavePaused,
       LeaveCancelled, LeaveDone, RunFails, ReleaseAfterFailure
  <2>3. \A v \in Workers : pc'[v] = pc[v] \/ pc'[v] \notin {"idle", "claimed", "listing"}
    BY <2>2 DEF Goto, LeaseInv, TypeOK, WorkerTypeOK
  <2> QED BY <2>1, <2>3, SameSends
<1>6. ASSUME NEW c \in Checkpoints,
             ThreadStep(w, c) \/ AuthFailure(w, c) \/ MarkFutureFailure(w, c)
      PROVE  SendInv'
  <2>1. CASE ClaimCheckpoint(w, c)
    BY <2>1, ClaimCheckpointSends
  <2>2. CASE Replay(w, c)
    BY <2>2, ReplaySends
  <2>3. CASE RecordExecutionResult(w, c)
    <3>1. UNCHANGED <<dispatch, attempts, sends, job, token, pc, todo>>
      BY <2>3 DEF RecordExecutionResult, runVars, ckVars, ghostVars
    <3>2. thread[w][c] \in {"ok", "err"} /\ sends[c] > 0
      BY <2>3 DEF RecordExecutionResult, Outcomes, SendInv, ThreadsOK
    <3>3. \A d \in Checkpoints : results'[d] # "none" => results[d] # "none" \/ sends[d] > 0
      BY <2>3, <3>2 DEF RecordExecutionResult, LeaseInv, TypeOK
    <3> QED BY <2>3, <3>1, <3>2, <3>3, ThreadSends DEF RecordExecutionResult
  <2>4. CASE \/ CheckExistingResult(w, c) \/ SnapshotNotFound(w, c) \/ FinishBlocked(w, c)
             \/ Permit(w, c) \/ FinishRecorded(w, c) \/ AuthFailure(w, c)
             \/ MarkFutureFailure(w, c)
    <3>1. UNCHANGED <<dispatch, attempts, sends, results, job, token, pc, todo>>
      BY <2>4 DEF CheckExistingResult, SnapshotNotFound, FinishBlocked, Permit, FinishRecorded,
         AuthFailure, MarkFutureFailure, FinishCheckpoint, SetCheckpoints, runVars, ckVars,
         ghostVars
    <3>2. \E s \in {"none", "checked", "permitted"} :
             /\ SetThread(w, c, s) /\ thread[w][c] # "none"
             /\ s # "none" => CanSend(w, c)
      BY <2>4 DEF CheckExistingResult, SnapshotNotFound, FinishBlocked, Permit, FinishRecorded,
         AuthFailure, MarkFutureFailure, CanSend
    <3> QED BY <3>1, <3>2, ThreadSends
  <2> QED BY <1>6, <2>1, <2>2, <2>3, <2>4 DEF ThreadStep
<1> QED BY <1>1, <1>2, <1>3, <1>4, <1>5, <1>6 DEF WorkerStep, WorkerFault

LEMMA NextSends == LeaseInv /\ SendInv /\ [Next]_vars => SendInv'
<1> SUFFICES ASSUME LeaseInv, SendInv, [Next]_vars PROVE SendInv'
  OBVIOUS
<1>1. ASSUME NEW r \in Runs, ExpireLease(r) PROVE SendInv'
  BY <1>1, SameSends DEF ExpireLease, workerVars, ckVars
<1>2. CASE UNCHANGED vars
  BY <1>2, SameSends DEF vars, runVars, ckVars, workerVars, ghostVars
<1>3. CASE Next
  BY <1>1, <1>3, AgentSends, WorkerSends DEF Next
<1> QED BY <1>2, <1>3

LEMMA InitSends == Init => SendInv
<1> SUFFICES ASSUME Init PROVE SendInv
  OBVIOUS
<1> USE DEF Init, NoThreads
<1>1. ThreadsOK /\ ResultsSent
  BY DEF ThreadsOK, ResultsSent
<1>2. ASSUME NEW c \in Checkpoints
      PROVE  attempts[c] <= Cardinality(Spent(c)) /\ sends[c] + Cardinality(Senders(c)) <= attempts[c]
  <2>1. Senders(c) = {}
    BY DEF Senders, CanSend
  <2>2. Cardinality(Spent(c)) \in Nat
    BY <1>1, CountedSets, InitLeaseInv
  <2>3. Cardinality({}) = 0
    BY FS_EmptySet
  <2> QED BY <2>1, <2>2, <2>3
<1> QED BY <1>1, <1>2 DEF SendInv, AttemptsCounted, SendsCounted

\* "At least once" has a ceiling for any number of workers and faults: however
\* many lost leases, crashes and retries, a checkpoint is claimed at most once
\* and sent at most once per dispatch of its run, and no result is recorded
\* for a request that was not sent.
THEOREM SendsBounded == Spec => []SendsBoundedByDispatch
<1>1. Init => LeaseInv /\ SendInv
  BY InitLeaseInv, InitSends
<1>2. LeaseInv /\ SendInv /\ [Next]_vars => LeaseInv' /\ SendInv'
  BY NextLeaseInv, NextSends
<1>3. LeaseInv /\ SendInv => SendsBoundedByDispatch
  <2> SUFFICES ASSUME LeaseInv, SendInv, NEW c \in Checkpoints
               PROVE  /\ sends[c] <= attempts[c]
                      /\ attempts[c] <= dispatch[RunOf[c]]
                      /\ results[c] # "none" => sends[c] > 0
    BY DEF SendsBoundedByDispatch
  <2>1. attempts[c] \in Nat /\ sends[c] \in Nat
    BY DEF LeaseInv, TypeOK, CheckpointTypeOK, GhostTypeOK
  <2>2. /\ attempts[c] <= Cardinality(Spent(c)) /\ sends[c] + Cardinality(Senders(c)) <= attempts[c]
        /\ results[c] # "none" => sends[c] > 0
    BY DEF SendInv, AttemptsCounted, SendsCounted, ResultsSent
  <2>3. /\ Cardinality(Spent(c)) \in Nat /\ Cardinality(Senders(c)) \in Nat
        /\ Cardinality(Spent(c)) <= dispatch[RunOf[c]] /\ dispatch[RunOf[c]] \in Nat
    BY CountedSets DEF SendInv
  <2> QED BY <2>1, <2>2, <2>3
<1> QED BY <1>1, <1>2, <1>3, PTL DEF Spec
=============================================================================
