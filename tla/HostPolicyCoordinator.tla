----------------------- MODULE HostPolicyCoordinator -----------------------
(***************************************************************************)
(* HostPolicyCoordinator of apiAnalysis/tool/execution_scheduler.py: the   *)
(* object through which the pool threads of one dispatch share a host.  It *)
(* bounds the requests in flight per host, spaces their starts and stops a *)
(* host after too many consecutive failures of one kind.  Its lock makes   *)
(* each "with self._lock" block one step; the semaphore, the pacing sleep  *)
(* and the request itself lie between such steps.                          *)
(*                                                                         *)
(* The adapter of the run fixes the scope.  With scope "request" a thread  *)
(* runs inside _build_coordinated_request_executor, which records the      *)
(* outcome and then releases the permit; with "checkpoint" it runs inside  *)
(* _execute_checkpoint, which releases first and records afterwards.       *)
(* Times are kept relative to now.                                         *)
(***************************************************************************)
EXTENDS Integers, Sequences, FiniteSets

CONSTANTS
    Threads,         \* pool threads
    Hosts,
    HostOf,          \* the host of a thread's requests
    PerHostWorkers,  \* ExecutionPolicy.per_host_workers
    MinInterval,     \* ExecutionPolicy.min_interval_ms
    Threshold,       \* transport_error_stop, rate_limit_stop, server_error_stop
    Answers,         \* the results the hosts may give
    MaxRequests,     \* bound on the requests a thread makes
    MaxDispatches,   \* bound on the dispatches after the first
    None

FailureKinds == {"transport_error", "rate_limit", "server_error"}
Results      == FailureKinds \cup {"success"}

ASSUME PolicyAssumption ==
    /\ IsFiniteSet(Threads)
    /\ HostOf \in [Threads -> Hosts]
    /\ PerHostWorkers \in Nat \ {0}
    /\ MinInterval \in Nat
    /\ Threshold \in [FailureKinds -> Nat]
    /\ Answers \subseteq Results
    /\ None \notin Results

VARIABLES
    \* the coordinator
    permits,      \* free permits of each host's BoundedSemaphore
    streak,       \* transport_errors, rate_limits and server_errors of a host
    stopReason,   \* stopped_reason of a host; "" while it is not stopped
    nextAllowed,  \* time until next_allowed of a host
    \* a pool thread
    state,        \* where it is in acquire() and after
    delay,        \* time until its start_at
    result,       \* the result of its request, None outside one
    requests,     \* requests made
    \* the dispatch
    scope,        \* request_policy_scope of the run's adapter
    abort,        \* should_abort()
    dispatches,
    \* the run document
    persisted,    \* host_state
    stale,        \* the coordinator of an earlier worker that has yet to sync
    overwritten,  \* that worker has written host_state
    \* observations
    log,          \* the results recorded for a host while it was not stopped
    late          \* requests sent to a host after it stopped

coordVars  == <<permits, streak, stopReason, nextAllowed>>
threadVars == <<state, delay, result, requests>>
runVars    == <<persisted, stale, overwritten>>
vars == <<scope, coordVars, threadVars, abort, dispatches, runVars, log, late>>
rest == <<abort, dispatches, runVars>>

ThreadStates == {"idle", "waiting", "holding", "pacing", "granted", "answered",
                 "recorded", "released", "refused"}
Fresh == [k \in FailureKinds |-> 0]

Goto(t, s) == state' = [state EXCEPT ![t] = s]
GiveBack(h) == permits' = [permits EXCEPT ![h] = @ + 1]

-----------------------------------------------------------------------------
(* acquire()                                                               *)

\* A thread whose checkpoint was refused goes on with the next one.
BeginAcquire(t) ==
    /\ state[t] \in {"idle", "refused"}
    /\ requests[t] < MaxRequests
    /\ Goto(t, IF abort THEN "refused" ELSE "waiting")
    /\ UNCHANGED <<coordVars, delay, result, requests, rest, log, late>>

\* The loop around semaphore.acquire(timeout=0.1) gives up only on an abort,
\* which it may find after it has taken the permit.
AcquireAborted(t) ==
    /\ state[t] = "waiting" /\ abort
    /\ Goto(t, "refused")
    /\ UNCHANGED <<coordVars, delay, result, requests, rest, log, late>>

TakePermit(t) ==
    /\ state[t] = "waiting"
    /\ permits[HostOf[t]] > 0
    /\ permits' = [permits EXCEPT ![HostOf[t]] = @ - 1]
    /\ Goto(t, "holding")
    /\ UNCHANGED <<streak, stopReason, nextAllowed, delay, result, requests, rest, log, late>>

\* Mutant: a thread of a stopped host goes back to wait for it.
RefuseStoppedWaits(t) ==
    /\ state[t] = "holding" /\ stopReason[HostOf[t]] # ""
    /\ GiveBack(HostOf[t])
    /\ Goto(t, "waiting")
    /\ UNCHANGED <<streak, stopReason, nextAllowed, delay, result, requests, rest, log, late>>

\* Under the lock, a stopped host refuses ...
RefuseStopped(t) ==
    /\ state[t] = "holding" /\ stopReason[HostOf[t]] # ""
    /\ GiveBack(HostOf[t])
    /\ Goto(t, "refused")
    /\ UNCHANGED <<streak, stopReason, nextAllowed, delay, result, requests, rest, log, late>>

\* ... and another has its next start slot reserved.
ReserveStart(t) ==
    LET h == HostOf[t] IN
    /\ state[t] = "holding" /\ stopReason[h] = ""
    /\ delay' = [delay EXCEPT ![t] = nextAllowed[h]]
    /\ nextAllowed' = [nextAllowed EXCEPT ![h] = @ + MinInterval]
    /\ Goto(t, "pacing")
    /\ UNCHANGED <<permits, streak, stopReason, result, requests, rest, log, late>>

\* An abort during or after the sleep, or a host stopped meanwhile, gives the
\* permit back.
RefuseAfterPacing(t) ==
    /\ state[t] = "pacing"
    /\ abort \/ (delay[t] = 0 /\ stopReason[HostOf[t]] # "")
    /\ GiveBack(HostOf[t])
    /\ Goto(t, "refused")
    /\ delay' = [delay EXCEPT ![t] = 0]
    /\ UNCHANGED <<streak, stopReason, nextAllowed, result, requests, rest, log, late>>

Grant(t) ==
    /\ state[t] = "pacing" /\ delay[t] = 0
    /\ ~abort /\ stopReason[HostOf[t]] = ""
    /\ Goto(t, "granted")
    /\ UNCHANGED <<coordVars, delay, result, requests, rest, log, late>>

-----------------------------------------------------------------------------
(* The request, record_outcome() and release().                            *)

Request(t) ==
    /\ state[t] = "granted"
    /\ \E a \in Answers : result' = [result EXCEPT ![t] = a]
    /\ requests' = [requests EXCEPT ![t] = @ + 1]
    /\ late' = [late EXCEPT ![HostOf[t]] = IF stopReason[HostOf[t]] = "" THEN @ ELSE @ + 1]
    /\ Goto(t, "answered")
    /\ UNCHANGED <<coordVars, delay, rest, log>>

\* One streak grows and the others are reset.
NewStreak(h, r) == [k \in FailureKinds |-> IF k = r THEN streak[h][k] + 1 ELSE 0]

\* record_outcome: a threshold of 0 never stops the host, and a stopped host
\* is left alone.
RecordOutcome(h, r) ==
    \/ /\ stopReason[h] # ""
       /\ UNCHANGED <<streak, stopReason, log>>
    \/ /\ stopReason[h] = ""
       /\ streak' = [streak EXCEPT ![h] = NewStreak(h, r)]
       /\ stopReason' = [stopReason EXCEPT ![h] =
             IF r \in FailureKinds /\ Threshold[r] > 0 /\ NewStreak(h, r)[r] >= Threshold[r]
             THEN r ELSE ""]
       /\ log' = [log EXCEPT ![h] = Append(@, r)]

\* With checkpoint scope the abort is looked at once more, and the account
\* context may be missing: no request is sent.
GiveUp(t) ==
    /\ state[t] = "granted" /\ scope = "checkpoint" /\ abort
    /\ GiveBack(HostOf[t])
    /\ Goto(t, "refused")
    /\ UNCHANGED <<streak, stopReason, nextAllowed, delay, result, requests, rest, log, late>>

\* Mutant: the permit is released before the outcome is recorded.
ReleaseHolding(t) ==
    /\ state[t] = "answered" /\ scope = "request"
    /\ GiveBack(HostOf[t])
    /\ Goto(t, "released")
    /\ UNCHANGED <<streak, stopReason, nextAllowed, delay, result, requests, rest, log, late>>

\* Request scope: record, then release in the finally block.
RecordHolding(t) ==
    /\ state[t] = "answered" /\ scope = "request"
    /\ RecordOutcome(HostOf[t], result[t])
    /\ result' = [result EXCEPT ![t] = None]
    /\ Goto(t, "recorded")
    /\ UNCHANGED <<permits, nextAllowed, delay, requests, rest, late>>

ReleaseRecorded(t) ==
    /\ state[t] = "recorded"
    /\ GiveBack(HostOf[t])
    /\ Goto(t, "idle")
    /\ UNCHANGED <<streak, stopReason, nextAllowed, delay, result, requests, rest, log, late>>

\* Checkpoint scope: release in the finally block, then record.
ReleaseAnswered(t) ==
    /\ state[t] = "answered" /\ scope = "checkpoint"
    /\ GiveBack(HostOf[t])
    /\ Goto(t, "released")
    /\ UNCHANGED <<streak, stopReason, nextAllowed, delay, result, requests, rest, log, late>>

RecordReleased(t) ==
    /\ state[t] = "released"
    /\ RecordOutcome(HostOf[t], result[t])
    /\ result' = [result EXCEPT ![t] = None]
    /\ Goto(t, "idle")
    /\ UNCHANGED <<permits, nextAllowed, delay, requests, rest, late>>

-----------------------------------------------------------------------------
(* The dispatch around the coordinator.                                    *)

Earlier(n) == IF n = 0 THEN 0 ELSE n - 1

\* Time passes.
Tick ==
    /\ delay' = [t \in Threads |-> Earlier(delay[t])]
    /\ nextAllowed' = [h \in Hosts |-> Earlier(nextAllowed[h])]
    /\ UNCHANGED <<permits, streak, stopReason, state, result, requests, rest, log, late>>

\* cancel_event, lost_event, auth_failure_event or stop_event.
Abort ==
    /\ ~abort
    /\ abort' = TRUE
    /\ UNCHANGED <<coordVars, threadVars, dispatches, runVars, log, late>>

HostState == [h \in Hosts |-> [streak |-> streak[h], stopReason |-> stopReason[h],
                               log |-> log[h]]]

\* _sync_counts writes snapshot() to the run.
Snapshot ==
    /\ persisted' = HostState
    /\ UNCHANGED <<coordVars, threadVars, abort, dispatches, stale, overwritten, log, late>>

\* _sync_counts filters on the run's id alone: a worker that lost its lease
\* writes its own snapshot when its loop ends.
StaleSnapshot ==
    /\ stale # None
    /\ persisted' = stale
    /\ stale' = None
    /\ overwritten' = TRUE
    /\ UNCHANGED <<coordVars, threadVars, abort, dispatches, log, late>>

\* Mutant: the new worker starts with fresh hosts.
ReloadNothing ==
    /\ streak' = [h \in Hosts |-> Fresh]
    /\ stopReason' = [h \in Hosts |-> ""]
    /\ log' = [h \in Hosts |-> << >>]

\* HostPolicyCoordinator(policy, run.host_state)
Reload ==
    /\ streak' = [h \in Hosts |-> persisted[h].streak]
    /\ stopReason' = [h \in Hosts |-> persisted[h].stopReason]
    /\ log' = [h \in Hosts |-> persisted[h].log]

\* The run is dispatched again.  The earlier worker is dead, or has lost its
\* lease and keeps its coordinator until its loop ends.
Redispatch ==
    /\ abort /\ dispatches < MaxDispatches
    /\ abort' = FALSE
    /\ dispatches' = dispatches + 1
    /\ Reload
    /\ permits' = [h \in Hosts |-> PerHostWorkers]
    /\ nextAllowed' = [h \in Hosts |-> 0]
    /\ state' = [t \in Threads |-> "idle"]
    /\ delay' = [t \in Threads |-> 0]
    /\ result' = [t \in Threads |-> None]
    /\ late' = [h \in Hosts |-> 0]
    /\ stale' \in {None, HostState}
    /\ UNCHANGED <<requests, persisted, overwritten>>

Init ==
    /\ scope \in {"request", "checkpoint"}
    /\ permits = [h \in Hosts |-> PerHostWorkers]
    /\ streak = [h \in Hosts |-> Fresh]
    /\ stopReason = [h \in Hosts |-> ""]
    /\ nextAllowed = [h \in Hosts |-> 0]
    /\ state = [t \in Threads |-> "idle"]
    /\ delay = [t \in Threads |-> 0]
    /\ result = [t \in Threads |-> None]
    /\ requests = [t \in Threads |-> 0]
    /\ abort = FALSE
    /\ dispatches = 0
    /\ persisted = [h \in Hosts |-> [streak |-> Fresh, stopReason |-> "", log |-> << >>]]
    /\ stale = None
    /\ overwritten = FALSE
    /\ log = [h \in Hosts |-> << >>]
    /\ late = [h \in Hosts |-> 0]

ThreadStep(t) ==
    \/ AcquireAborted(t) \/ TakePermit(t) \/ RefuseStopped(t) \/ ReserveStart(t)
    \/ RefuseAfterPacing(t) \/ Grant(t) \/ GiveUp(t) \/ Request(t)
    \/ RecordHolding(t) \/ ReleaseRecorded(t)
    \/ ReleaseAnswered(t) \/ RecordReleased(t)

Next ==
    /\ \/ \E t \in Threads : BeginAcquire(t) \/ ThreadStep(t)
       \/ Tick \/ Abort \/ Snapshot \/ StaleSnapshot \/ Redispatch
    /\ UNCHANGED scope

Spec == Init /\ [][Next]_vars

\* Threads run, requests time out and time passes.  A thread waiting for the
\* semaphore of its host competes with the others, and a waiter of Python's
\* semaphore is not passed over for ever: strong fairness.
LiveSpec ==
    /\ Spec
    /\ WF_vars(Tick /\ UNCHANGED scope)
    /\ \A t \in Threads : SF_vars(ThreadStep(t) /\ UNCHANGED scope)

-----------------------------------------------------------------------------
(* Properties.                                                             *)

HostStates == [Hosts -> [streak : [FailureKinds -> Nat],
                         stopReason : FailureKinds \cup {""},
                         log : Seq(Results)]]

\* Every variable keeps its type: the coordinator's state per host (a
\* BoundedSemaphore never holds more than per_host_workers), the threads'
\* positions and the persisted host_state.
TypeOK ==
    /\ scope \in {"request", "checkpoint"}
    /\ permits \in [Hosts -> 0..PerHostWorkers]
    /\ streak \in [Hosts -> [FailureKinds -> Nat]]
    /\ stopReason \in [Hosts -> FailureKinds \cup {""}]
    /\ nextAllowed \in [Hosts -> Nat]
    /\ state \in [Threads -> ThreadStates]
    /\ delay \in [Threads -> Nat]
    /\ result \in [Threads -> Results \cup {None}]
    /\ requests \in [Threads -> Nat]
    /\ abort \in BOOLEAN
    /\ dispatches \in Nat
    /\ persisted \in HostStates
    /\ stale \in HostStates \cup {None}
    /\ overwritten \in BOOLEAN
    /\ log \in [Hosts -> Seq(Results)]
    /\ late \in [Hosts -> Nat]

Holders(h) == {t \in Threads :
    HostOf[t] = h /\ state[t] \in {"holding", "pacing", "granted", "answered", "recorded"}}

\* However acquire() ends (granted, refused by a stop found before or after
\* the pacing sleep, or aborted during it), a permit is returned exactly
\* once: free permits and holders always add up to per_host_workers.
PermitsConserved ==
    \A h \in Hosts : permits[h] + Cardinality(Holders(h)) = PerHostWorkers

TrailingRun(s, k) ==
    LET n == Len(s)
        Tails == {i \in 0..n : \A j \in (n - i + 1)..n : s[j] = k}
    IN  CHOOSE i \in Tails : \A j \in Tails : j <= i

\* The counters are what their names say, whatever the threads' order and
\* however often the run was dispatched again: each equals the number of
\* consecutive results of its kind at the end of the host's history, and the
\* host is stopped, for that kind, exactly when such a run has reached its
\* threshold.
StreaksMatchLog ==
    \A h \in Hosts : \A k \in FailureKinds :
        /\ streak[h][k] = TrailingRun(log[h], k)
        /\ stopReason[h] = k <=> (Threshold[k] > 0 /\ TrailingRun(log[h], k) >= Threshold[k])

\* After a threshold is crossed only requests already granted are sent: fewer
\* than per_host_workers where the recording thread still holds its permit,
\* at most per_host_workers where it released before it recorded.
LateRequestsBounded ==
    \A h \in Hosts :
        late[h] <= IF scope = "request" THEN PerHostWorkers - 1 ELSE PerHostWorkers

Sleeping(t) == state[t] = "pacing" /\ delay[t] > 0

\* Start slots on one host are at least min_interval_ms apart: two sleeping
\* threads wake at least that long after one another, and the next slot lies
\* beyond both.
SlotsSpaced ==
    \A t \in Threads : Sleeping(t) =>
        /\ nextAllowed[HostOf[t]] >= delay[t] + MinInterval
        /\ \A u \in Threads \ {t} :
              Sleeping(u) /\ HostOf[t] = HostOf[u] =>
                \/ delay[t] >= delay[u] + MinInterval
                \/ delay[u] >= delay[t] + MinInterval

\* The coordinator as its callers rely on it: permits, pacing, stops and
\* counters, in either scope and over every dispatch of the run.
CoordinatorSound ==
    TypeOK /\ PermitsConserved /\ SlotsSpaced /\ LateRequestsBounded /\ StreaksMatchLog

\* A stop written to host_state is never taken back by a later dispatch of
\* the run, until a worker that has lost its lease writes its own host_state.
PersistedStopStays ==
    [][~overwritten' => \A h \in Hosts : persisted[h].stopReason # "" =>
          persisted'[h].stopReason = persisted[h].stopReason]_vars

\* A thread that asked for its host is granted or refused in the end, also
\* when the host stops or the dispatch aborts while it waits or sleeps.
AcquireReturns ==
    \A t \in Threads : state[t] \in {"waiting", "holding", "pacing"} ~>
                        state[t] \in {"granted", "refused", "idle"}
=============================================================================
