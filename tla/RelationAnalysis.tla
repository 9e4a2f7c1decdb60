--------------------------- MODULE RelationAnalysis ---------------------------
(***************************************************************************)
(* apiAnalysis/tool/parameter_analysis.py: the queue of full-project       *)
(* relation analyses and ParameterRelationAnalysisWorker, which claims a   *)
(* run, evaluates the rules, persists the outputs in the order of their    *)
(* keys with a cursor every Batch of them, and finishes the run.  A claim  *)
(* is the pair of status RUNNING and the worker's id.  Each update of the  *)
(* run document is one atomic, filtered database operation.                *)
(***************************************************************************)
EXTENDS Integers, FiniteSets

CONSTANTS
    NumRuns,    \* bound on the runs of the project
    Workers,
    Clients,    \* web requests that enqueue
    NumItems,   \* outputs of an analysis, in the order of their keys
    Batch,      \* outputs between two cursors (100)
    MaxFaults,  \* bound on crashes, stops, late leases, errors, input changes
    None

Runs  == 1..NumRuns
Items == 1..NumItems

ASSUME AnalysisAssumption ==
    /\ NumRuns \in Nat /\ NumItems \in Nat /\ MaxFaults \in Nat
    /\ Batch \in Nat \ {0}
    /\ None \notin Workers /\ None \notin Nat
    /\ None \notin {"queued", "running", "cancel_requested", "cancelled", "done", "failed"}

VARIABLES
    run,      \* parameter_relation_analysis_run
    client,   \* "idle", or "insert" after the query for an active run
    worker,   \* where a worker is in run_once, with the run as it was claimed
    stop,     \* stop_event of a worker
    input,    \* input watermark of the project
    stored,   \* outputs persisted: <<watermark, item>>
    asked,    \* runs a cancel was accepted for
    faults

vars == <<run, client, worker, stop, input, stored, asked, faults>>

QUEUED == "queued"
RUNNING == "running"
CANCEL_REQUESTED == "cancel_requested"
CANCELLED == "cancelled"
DONE == "done"
FAILED == "failed"
Final  == {CANCELLED, DONE, FAILED}
Active == {QUEUED, RUNNING, CANCEL_REQUESTED}

NoRun == [status |-> None, owner |-> None, lease |-> "none",
          phase |-> "", cursor |-> 0, watermark |-> None]
Idle  == [pc |-> "idle"]

Be(k, l) == worker' = [worker EXCEPT ![k] = l]
Owns(k, r) == run[r].status = RUNNING /\ run[r].owner = k
Fault == faults < MaxFaults /\ faults' = faults + 1

\* An update filtered on RUNNING and the worker's id.
UpdateOwned(k, r, new) == run' = IF Owns(k, r) THEN [run EXCEPT ![r] = new] ELSE run

\* A status that gives up the claim.
Released(r, s) == [run[r] EXCEPT !.status = s, !.owner = None, !.lease = "none"]
Renewed(r)     == [run[r] EXCEPT !.lease = "live"]

-----------------------------------------------------------------------------
(* enqueue_relation_analysis, cancel_relation_analysis, recover_abandoned  *)

EnqueueCheck(c) ==
    /\ client[c] = "idle"
    /\ \A r \in Runs : run[r].status \notin Active
    /\ client' = [client EXCEPT ![c] = "insert"]
    /\ UNCHANGED <<run, worker, stop, input, stored, asked, faults>>

EnqueueInsert(c) ==
    /\ client[c] = "insert"
    /\ client' = [client EXCEPT ![c] = "idle"]
    /\ \E r \in Runs :
          /\ run[r].status = None /\ \A q \in 1..(r - 1) : run[q].status # None
          /\ run' = [run EXCEPT ![r].status = QUEUED]
    /\ UNCHANGED <<worker, stop, input, stored, asked, faults>>

Cancel(r) ==
    /\ run[r].status \in {QUEUED, RUNNING}
    /\ run' = [run EXCEPT ![r].status = CANCEL_REQUESTED]
    /\ asked' = asked \cup {r}
    /\ UNCHANGED <<client, worker, stop, input, stored, faults>>

\* Mutant: only a lease that is missing counts as abandoned.
RecoverMissingOnly(r) ==
    /\ run[r].status = RUNNING /\ run[r].lease = "none"
    /\ run' = [run EXCEPT ![r] = Released(r, QUEUED)]
    /\ UNCHANGED <<client, worker, stop, input, stored, asked, faults>>

\* At the start of a worker and in every pass of maintenance.
RecoverAbandoned(r) ==
    /\ run[r].status = RUNNING /\ run[r].lease # "live"
    /\ run' = [run EXCEPT ![r] = Released(r, QUEUED)]
    /\ UNCHANGED <<client, worker, stop, input, stored, asked, faults>>

-----------------------------------------------------------------------------
(* _claim                                                                  *)

\* Any worker finalizes any requested cancel, whoever executes the run.
ClaimCancelled(k, r) ==
    /\ worker[k].pc = "idle" /\ ~stop[k]
    /\ run[r].status = CANCEL_REQUESTED
    /\ run' = [run EXCEPT ![r] = Released(r, CANCELLED)]
    /\ UNCHANGED <<client, worker, stop, input, stored, asked, faults>>

Claim(k, r) ==
    /\ worker[k].pc = "idle" /\ ~stop[k]
    /\ \A q \in Runs : run[q].status # CANCEL_REQUESTED
    /\ run[r].status = QUEUED /\ \A q \in 1..(r - 1) : run[q].status # QUEUED
    /\ run' = [run EXCEPT ![r] = [@ EXCEPT !.status = RUNNING, !.owner = k, !.lease = "live"]]
    /\ Be(k, [pc |-> "analyze", r |-> r, phase |-> run[r].phase,
              cursor |-> run[r].cursor, watermark |-> run[r].watermark])
    /\ UNCHANGED <<client, stop, input, stored, asked, faults>>

-----------------------------------------------------------------------------
(* execute                                                                 *)

\* The long lease of the projection; analyze_project reads the input.
Analyze(k) ==
    LET l == worker[k] IN
    /\ l.pc = "analyze"
    /\ UpdateOwned(k, l.r, Renewed(l.r))
    /\ Be(k, [pc |-> "publish", r |-> l.r, phase |-> l.phase, cursor |-> l.cursor,
              expected |-> l.watermark, watermark |-> input])
    /\ UNCHANGED <<client, stop, input, stored, asked, faults>>

\* Mutant: the watermark of the cursor is not compared.
WatermarkUnchecked(l) == TRUE

\* A cursor is only good for the input it was made from.
WatermarkOK(l) == l.expected \in {None, l.watermark}

\* The changed input raises ...
RefuseWatermark(k) ==
    LET l == worker[k] IN
    /\ l.pc = "publish" /\ ~WatermarkOK(l)
    /\ Be(k, [pc |-> "fail", r |-> l.r])
    /\ UNCHANGED <<run, client, stop, input, stored, asked, faults>>

\* Mutant: any cursor counts as the end of persistence.
PublishSkipsRest(k) ==
    LET l == worker[k]
        phase == IF l.phase = "" THEN "rule_persistence" ELSE l.phase
    IN  /\ l.pc = "publish" /\ WatermarkOK(l)
        /\ UpdateOwned(k, l.r, [Renewed(l.r) EXCEPT !.watermark = l.watermark, !.phase = phase])
        /\ Be(k, IF l.phase # "" THEN [pc |-> "finish", r |-> l.r]
                 ELSE [pc |-> "persist", r |-> l.r, watermark |-> l.watermark,
                       item |-> IF l.phase = "rule_persistence" THEN l.cursor + 1 ELSE 1,
                       count |-> 0])
        /\ UNCHANGED <<client, stop, input, stored, asked, faults>>

\* ... otherwise it is recorded, and persistence starts at the cursor or is
\* already behind.
Publish(k) ==
    LET l == worker[k]
        phase == IF l.phase = "" THEN "rule_persistence" ELSE l.phase
    IN  /\ l.pc = "publish" /\ WatermarkOK(l)
        /\ UpdateOwned(k, l.r, [Renewed(l.r) EXCEPT !.watermark = l.watermark, !.phase = phase])
        /\ Be(k, IF l.phase = "preprocessing" THEN [pc |-> "finish", r |-> l.r]
                 ELSE [pc |-> "persist", r |-> l.r, watermark |-> l.watermark,
                       item |-> IF l.phase = "rule_persistence" THEN l.cursor + 1 ELSE 1,
                       count |-> 0])
        /\ UNCHANGED <<client, stop, input, stored, asked, faults>>

PersistItem(k) ==
    LET l == worker[k] IN
    /\ l.pc = "persist" /\ l.item \in Items
    /\ stored' = stored \cup {<<l.watermark, l.item>>}
    /\ Be(k, [l EXCEPT !.item = @ + 1, !.count = (@ + 1) % Batch,
                       !.pc = IF (l.count + 1) % Batch = 0 THEN "report" ELSE "persist"])
    /\ UNCHANGED <<run, client, stop, input, asked, faults>>

\* _cancelled: a requested cancel or the worker's stop.
Cancelled(k, r) == run[r].status = CANCEL_REQUESTED \/ stop[k]

\* report_rule_progress, every Batch outputs.
Report(k) ==
    LET l == worker[k] IN
    /\ l.pc = "report"
    /\ IF Cancelled(k, l.r) \/ ~Owns(k, l.r)
       THEN Be(k, [pc |-> "interrupted", r |-> l.r]) /\ UNCHANGED run
       ELSE /\ run' = [run EXCEPT ![l.r] = [Renewed(l.r) EXCEPT
                          !.cursor = l.item - 1, !.phase = "rule_persistence"]]
            /\ Be(k, [l EXCEPT !.pc = "persist"])
    /\ UNCHANGED <<client, stop, input, stored, asked, faults>>

\* Mutant: whatever the run has become, it is cancelled.
FinishCancelledAlways(k) ==
    LET r == worker[k].r IN
    /\ worker[k].pc = "interrupted"
    /\ run' = [run EXCEPT ![r] = Released(r, CANCELLED)]
    /\ Be(k, Idle)
    /\ UNCHANGED <<client, stop, input, stored, asked, faults>>

\* _finish_cancelled: a stopping worker queues its run again; otherwise the
\* run is cancelled, by a filter on its status alone.
FinishCancelled(k) ==
    LET r == worker[k].r IN
    /\ worker[k].pc = "interrupted"
    /\ IF stop[k] THEN UpdateOwned(k, r, Released(r, QUEUED))
       ELSE run' = IF run[r].status \in {RUNNING, CANCEL_REQUESTED}
                   THEN [run EXCEPT ![r] = Released(r, CANCELLED)] ELSE run
    /\ Be(k, Idle)
    /\ UNCHANGED <<client, stop, input, stored, asked, faults>>

\* The plan drafts and the step to preprocessing.
Drafts(k) ==
    LET l == worker[k] IN
    /\ l.pc = "persist" /\ l.item \notin Items
    /\ UpdateOwned(k, l.r, [Renewed(l.r) EXCEPT !.phase = "preprocessing", !.cursor = 0])
    /\ Be(k, [pc |-> "finish", r |-> l.r])
    /\ UNCHANGED <<client, stop, input, stored, asked, faults>>

\* Mutant: the last update filters on the worker alone.
FinishByOwner(k) ==
    LET r == worker[k].r IN
    /\ worker[k].pc = "finish"
    /\ run' = IF run[r].owner = k THEN [run EXCEPT ![r] = Released(r, DONE)] ELSE run
    /\ Be(k, Idle)
    /\ UNCHANGED <<client, stop, input, stored, asked, faults>>

\* The discovery summary, the marks on the candidates and the last update.
Finish(k) ==
    LET r == worker[k].r IN
    /\ worker[k].pc = "finish"
    /\ UpdateOwned(k, r, Released(r, DONE))
    /\ Be(k, Idle)
    /\ UNCHANGED <<client, stop, input, stored, asked, faults>>

Fail(k) ==
    LET r == worker[k].r IN
    /\ worker[k].pc = "fail"
    /\ UpdateOwned(k, r, Released(r, FAILED))
    /\ Be(k, Idle)
    /\ UNCHANGED <<client, stop, input, stored, asked, faults>>

-----------------------------------------------------------------------------
(* What goes wrong.                                                        *)

\* Any operation of execute may raise.
Raise(k) ==
    /\ worker[k].pc \in {"analyze", "publish", "persist", "finish"}
    /\ Fault
    /\ Be(k, [pc |-> "fail", r |-> worker[k].r])
    /\ UNCHANGED <<run, client, stop, input, stored, asked>>

Crash(k) ==
    /\ worker[k].pc # "idle"
    /\ Fault
    /\ Be(k, Idle)
    /\ UNCHANGED <<run, client, stop, input, stored, asked>>

Executing(k, r) == worker[k].pc # "idle" /\ worker[k].r = r

\* The owner is gone, or it is slow, which is a fault.
ExpireLease(r) ==
    /\ run[r].status = RUNNING /\ run[r].lease = "live"
    /\ IF Executing(run[r].owner, r) THEN Fault ELSE UNCHANGED faults
    /\ run' = [run EXCEPT ![r].lease = "expired"]
    /\ UNCHANGED <<client, worker, stop, input, stored, asked>>

StopWorker(k) ==
    /\ ~stop[k] /\ Fault
    /\ stop' = [stop EXCEPT ![k] = TRUE]
    /\ UNCHANGED <<run, client, worker, input, stored, asked>>

Restart(k) ==
    /\ stop[k] /\ worker[k].pc = "idle"
    /\ stop' = [stop EXCEPT ![k] = FALSE]
    /\ UNCHANGED <<run, client, worker, input, stored, asked, faults>>

\* An import or an edit changes the project.
ChangeInput ==
    /\ Fault
    /\ input' = input + 1
    /\ UNCHANGED <<run, client, worker, stop, stored, asked>>

-----------------------------------------------------------------------------
Init ==
    /\ run = [r \in Runs |-> NoRun]
    /\ client = [c \in Clients |-> "idle"]
    /\ worker = [k \in Workers |-> Idle]
    /\ stop = [k \in Workers |-> FALSE]
    /\ input = 0
    /\ stored = {}
    /\ asked = {}
    /\ faults = 0

Step(k) ==
    \/ Analyze(k) \/ RefuseWatermark(k) \/ Publish(k) \/ PersistItem(k) \/ Report(k)
    \/ FinishCancelled(k) \/ Drafts(k) \/ Finish(k) \/ Fail(k)

Next ==
    \/ \E c \in Clients : EnqueueCheck(c) \/ EnqueueInsert(c)
    \/ \E r \in Runs : Cancel(r) \/ RecoverAbandoned(r) \/ ExpireLease(r)
    \/ \E k \in Workers : \/ Step(k) \/ Raise(k) \/ Crash(k) \/ StopWorker(k) \/ Restart(k)
                          \/ \E r \in Runs : ClaimCancelled(k, r) \/ Claim(k, r)
    \/ ChangeInput

Spec == Init /\ [][Next]_vars

\* Requests and workers run, stopped workers are started again, leases
\* expire by themselves and maintenance recovers; nothing makes a fault come.
LiveSpec ==
    /\ Spec
    /\ \A c \in Clients : WF_vars(EnqueueInsert(c))
    /\ \A k \in Workers : /\ WF_vars(Step(k)) /\ WF_vars(Restart(k))
                          /\ \A r \in Runs : SF_vars(Claim(k, r)) /\ WF_vars(ClaimCancelled(k, r))
    /\ \A r \in Runs : WF_vars(ExpireLease(r)) /\ WF_vars(RecoverAbandoned(r))

-----------------------------------------------------------------------------
(* Properties.                                                             *)

\* Statuses, claims, cursors and outputs keep their types, and a run has an
\* owner exactly while it is leased.
TypeOK ==
    /\ \A r \in Runs :
          /\ run[r].status \in Active \cup Final \cup {None}
          /\ run[r].owner \in Workers \cup {None}
          /\ run[r].lease \in {"none", "live", "expired"}
          /\ run[r].phase \in {"", "rule_persistence", "preprocessing"}
          /\ run[r].cursor \in 0..NumItems
          /\ run[r].watermark \in 0..MaxFaults \cup {None}
          /\ (run[r].owner = None) <=> (run[r].lease = "none")
          /\ run[r].status = RUNNING => run[r].owner # None
    /\ stored \subseteq (0..MaxFaults) \X Items
    /\ faults \in 0..MaxFaults

\* A run that is done has persisted every output of the input it names,
\* however many workers, crashes and resumed cursors it took.
DoneIsComplete ==
    \A r \in Runs : run[r].status = DONE =>
        \A i \in Items : <<run[r].watermark, i>> \in stored

\* The cursor never runs ahead of what is persisted, whoever wrote it.
CursorIsPersisted ==
    \A r \in Runs :
        /\ \A i \in 1..run[r].cursor : <<run[r].watermark, i>> \in stored
        /\ run[r].phase = "preprocessing" =>
              \A i \in Items : <<run[r].watermark, i>> \in stored

\* A run that ended stays as it ended, also for a worker that comes late.
FinalStays ==
    [][\A r \in Runs : run[r].status \in Final => run'[r].status = run[r].status]_vars

\* An accepted cancel is never lost: the only way on is CANCELLED.
CancelOnlyCancels ==
    [][\A r \in Runs : run[r].status = CANCEL_REQUESTED =>
          run'[r].status \in {CANCEL_REQUESTED, CANCELLED}]_vars

\* Every queued run ends, through crashes, stops and lost leases.
AnalysisSettles == \A r \in Runs : (run[r].status \in Active) ~> (run[r].status \in Final)

\* A run is cancelled only if somebody asked for it.
CancelledOnlyIfAsked == \A r \in Runs : run[r].status = CANCELLED => r \in asked
=============================================================================
