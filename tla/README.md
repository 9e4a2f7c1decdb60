# TLA+ models of the API manager

The repository is a workbench for API security testing. It imports captured or
documented endpoints, routes captures to projects, infers relations between
parameters, freezes requests as immutable snapshots, replays them in batches
under an execution policy and with the credentials of test accounts, judges the
answers, and turns confirmed results into findings with a retest cycle. Agents
and an AI command line drive the same operations. This directory models the
parts in which several processes, people or messages meet in one state, or in
which one procedure must hold its bounds whatever the tested service answers.

All paths below are relative to `src/`; `tool/`, `web/`, `db/` and `rule/` are
under `apiAnalysis/`.

## 1. Inventory

### Processes and what they share

- **Web process** (Flask request handlers). It enqueues, cancels and resumes
  runs, reviews results, moves findings, edits fixtures, policies, relations,
  plans and profiles, and corrects routing. Handlers run concurrently and take
  no lock.
- **Execution workers** (`tool/execution_scheduler.py`, `ExecutionWorker`). One
  claimed run at a time, with a main loop, a heartbeat thread and a pool of
  threads that execute checkpoints.
- **Maintenance scheduler**. It calls recovery of abandoned and expired runs
  and the evaluation of finished retests, over and over.
- **Analysis workers** (`tool/parameter_analysis.py`) and **import threads**.
- **Command lines**: the operators' tools, the AI command line, and the client
  an external agent uses over HTTP.
- **MongoDB** is the shared state. A single-document update with a filter is
  atomic; nothing else is, and no handler uses a transaction. `save()` of a
  loaded document sets only the fields that were changed.
- **Redis** holds wake-up hints for workers and the rendezvous of MFA codes. A
  lost wake-up only costs time, because workers also poll.

The unit of atomicity is therefore one MongoDB operation, one block under a
Python lock, or one HTTP request to a tested service. What a process keeps
between two of them is its local state, and may be stale. Where a model takes
several operations as one step, section 2 says so at the module; this is done
where no property depends on what comes between them.

### Components, their state and their operations

| component | state | operations | what is hard | what makes it correct |
|---|---|---|---|---|
| execution scheduler | runs with lease token, expiry and dispatch count; checkpoints; results | enqueue, cancel, resume, retry, recover, claim, heartbeat, execute, finish, handle a failed dispatch | leases that expire under a live worker, crashes between any two writes, cancel against finish | one holder of a lease, sends bounded by dispatches, one result per key, an accepted run ends |
| host policy coordinator | per host: semaphore, next start slot, failure streaks, stop reason | `acquire`, `release`, `record_outcome`, `snapshot` | threads between semaphore, pacing sleep and request; a stale worker's write | no permit leaks, slots spaced, a stopped host gets only what was in flight |
| result review, findings | findings, events, retest runs | confirm, add a result, transition, retest, evaluate | read, decide and write are separate; a request dies between two writes | a verification state rests on a retest that says so |
| relation analysis queue | analysis runs (owner, lease, cursor, watermark) | enqueue, cancel, claim, persist, finish, recover | resuming with other input, a slow worker that comes back | done is complete, cursors never run ahead |
| unified rule analysis | facts, outputs, plan drafts | evaluate rules, project in key order, draft | a resumed projection over its own writes; people classify meanwhile | accepted on resume, complete when done |
| mutation lifecycle | tested resource, saved original, evidence | read, mutate, restore, verify; create, delete | answers lost after the write, a lost worker | nothing written that cannot be restored |
| authorization policy, matrix | versions, rules, cells | create, add, activate, clone, schedule, judge | activation in two writes beside edits | one active version, cells judged by published rules |
| request fixtures | fixture, revisions, events | save, activate, deactivate, archive | documents saved from stale reads | what is served is a stored revision |
| MFA push brokers | open transactions | wait, deliver, expire, clear | a delivery racing the deadline | a code reaches its wait, once |
| account context | cache, provider material | resolve, rotate, invalidate | loads outside the lock | no expired or replaced credential is handed out |
| auth recipes | one login | steps, redirects, second factors | budgets and origins over hostile replies | bounded and confined |
| project authentication | profile revisions, candidates, attempts, a paused run | import, repair, verify, activate, rebind | overlapping repairs, death inside a rebind | live means verified, rebind is all or nothing |
| parameter validation | one case: hosts, budget, evidence | read, send, read back, judge | retries after a lost answer | within budget, no repeated write, a verdict no larger than what the read-back can tell |
| relation workbench | relations, results, experience | edit, decide, validate, record | the worker records over people's edits; forms read, check and enqueue in separate operations | trust is backed by a result or a person; an automatic run looked at its source |
| SQL injection screen | rows of probes | baseline, probe, judge | refused and lost probes | cleared only by answers |
| interface chains | definition, binding, captured values | import, replay | endpoints that change during a replay | values come from this replay's answers |
| data source routing, import | assets, samples, decisions, bindings, links | import, route, correct, teach | an import overlapping a correction | corrections hold |
| profile parameter archive | samples, parameter rows, archive | import, plan, apply | plan, check and save are separate | faithful and settled |
| test plans, AI access, client | versions, call records, runs | activate, execute, submit, poll | lost replies, dead servers, repeated commands | an effect happens once |
| AI command line | sessions, rules, approvals | call, prompt, grant | rules edited during sessions | risks are covered by answers |
| unlock plan | steps, facts | seed, record, move | concurrent and dying seeders | progress is kept |

Components with only pure, read-only or parsing code (execution adapters,
interface knowledge, Apifox import, capture readers, snapshot runner, traces,
storage schema, parameter heuristics, AI judge, web front end, single sign-on,
thin command line tools) are listed in `PROJECT.json` with the reason.

The scheduler is the hub: findings schedule their retests through it, mutation
lifecycles, validation cases, screens and matrix cells run as its checkpoints,
the host policy coordinator lives inside one dispatch of it, plans and agents
queue runs in it, and an authentication failure pauses one. Every other
component sees the scheduler only through what `RunContract` states.

## 2. Modules

| module | models | run |
|---|---|---|
| `ExecutionScheduler` | `tool/execution_scheduler.py` without the coordinator | scheduler_* |
| `RunContract` | what callers of the scheduler rely on (abstract specification) | scheduler_cancel |
| `HostPolicyCoordinator` | the coordinator and its two callers | host_policy |
| `FindingLifecycle` | `tool/result_review.py` (`confirm_result`), `tool/vulnerability_lifecycle.py` | finding |
| `RelationAnalysis` | `tool/parameter_analysis.py`, `persist_typed_outputs` | relation_analysis |
| `MutationLifecycle` | `tool/apifox_mutation_lifecycle.py` | mutation_lifecycle |
| `MfaBroker` | `tool/mfa_receiver.py` | projects |
| `AuthRepair` | `tool/project_auth.py`, `web/views_auth_profile.py` | projects |
| `AccountContext` | `tool/account_context.py` | projects |
| `AuthRecipe` | `tool/auth_recipe.py`, `tool/trusted_auth_code_runner.py` | projects |
| `TestPlan`, `AgentAccess` | `tool/test_plan.py`; `web/views_ai_access.py`, `clients/authcheck_cli` | projects |
| `UnlockPlan` | `tool/unlock_plan.py` | projects |
| `RequestFixture` | `tool/request_fixture.py` | parameters |
| `AuthorizationPolicy` | `tool/authorization_policy.py`, `tool/authorization_matrix.py` | parameters |
| `ValidationReplay` | `tool/parameter_validation.py`, one case | parameters |
| `RelationWorkbench` | `tool/parameter_relation_workbench.py`, `web/views_parameter_workbench.py`, scheduling and recording of `parameter_validation.py` | parameters |
| `PayloadScreen` | `tool/sqli_screen.py` | parameters |
| `ObservationRouting` | `tool/data_source_routing.py`, `tool/observation_store.py`, `tool/project_routing.py`, the importers | parameters |
| `InterfaceChain` | `tool/interface_chain.py`, `tools/interface_chain_cli.py` | projects |
| `RuleProjection` | `tool/unified_rule_analysis.py` over `rule/` | projects |
| `ParameterArchive` | `db/save.py`, `rule/profile_parameter_archive.py` | parameters |
| `AiSession` | `ai_cli/` | projects |
| `*Proofs` (eight modules, section 4) | | theorems |
| `MC*` | | constants and compositions for TLC |

Where a module contains operators named as mutants ("Mutant: ..." in the
comment), these are wrong variants of the definition that follows them, used to
show that a property can fail. No specification uses them.

### ExecutionScheduler

Variables are the fields of the three collections and the local variables of
the processes: `pc`, `job`, `token`, `todo` and `thread` are a worker's main
loop, its claim, the rest of its checkpoint list and its pool threads;
`cancelled`, `lost`, `authFailed` and `stopped` are its events. `task` is the
rest of a handler of several writes in an agent, with what it has read. A lease
token is modelled by the dispatch number: the code draws a fresh uuid in the
same update that increments `dispatch_attempt`, so the two are unique together.
`ahead` replaces the `queued_at` timestamp by the order it induces.

Actions follow the writes of the code. Enqueue is three of them
(`EnqueueSnapshotBatch`, `EnsureCheckpoints`, `QueuePrepared`), because a web
process can die in between and the maintenance scheduler finishes or fails a
run left PREPARING. Cancel is a run update and a checkpoint update in either
order the code uses. Recovery lists an expired run, resets its checkpoints and
requeues it in three steps, with the token it listed. A worker claims
(`ClaimNextExecution`), starts (`StartRun`), lists, submits, and leaves through
one action for each last update of the run. A pool thread claims its
checkpoint, checks for an existing result, passes the host policy, sends
(`Replay`), records and finishes, each step under the filter the code gives it.

`ExpireLease` is time: it makes a live lease expired. It is free for a run whose
worker is gone, and a bounded fault (`slipped`) for one whose worker still
runs, which is a heartbeat that comes too late.

### HostPolicyCoordinator

One step per `with self._lock` block; the semaphore, the pacing sleep and the
request lie in between. Times are relative to now, so that `Tick` decrements
them. `scope` is fixed by the run's adapter: in `request` scope a thread
records the outcome and then releases, in `checkpoint` scope the reverse.
`Snapshot` is the sync of the coordinator into `host_state`, `Redispatch` and
`Reload` build a new coordinator from it, `StaleSnapshot` is the same sync by a
worker that has lost its lease: `_sync_counts` filters on the run's id only.

### FindingLifecycle

A result is a pair of a run and a snapshot. Each handler is split where it
writes: a transition validates (`ValidateTransition`), writes the status
(`WriteStatus`) and writes the event (`WriteEvent`); confirming a result creates
the finding and then relates the result. `EvaluateCompleted` is the maintenance
process taking the newest finished retests up to the limit, skipping those that
an event marks as evaluated. How the scheduler carries out a retest is
`RunEnds`: it ends done with any combination of case outcomes, or otherwise.

### RelationAnalysis

A claim is the pair of status RUNNING and the worker's id. Every update a worker
makes of its run is filtered on both, except `_finish_cancelled`, which looks at
the status only. `stored` holds the persisted outputs with the input watermark
they come from. `ChangeInput` changes the project between two claims, so that a
resumed cursor can belong to other input; `RefuseWatermark` is the check against
that. Outputs are taken to have distinct keys; what happens when they do not is
in `RuleProjection`.

### MutationLifecycle

`Strategy` chooses candidates from the imported endpoints as
`build_mutation_lifecycle_plan` does. The tested service is external: each
request is applied or not, and answered well, badly or not at all, as one
step. `Crash` is the loss of the worker: the checkpoint starts over from
nothing, because only the result is persisted. An id in the answer of a POST is
taken for that of the new resource: `_extract_unique_id`
(`tool/apifox_mutation_lifecycle.py:153`) takes the only scalar that looks like
one, and if it names something else, the cleanup deletes that. Nothing is shown
about such a service.

### MfaBroker

`mfaInbox` holds the open transactions, `mfaWait` each waiting login. The memory
broker waits on a condition (`MemoryWait`) and keeps the transaction object
(`mfaLocal`) even when expiry or `clear` took it out of the inbox. The Redis
broker polls: checking the time, reading and the final deletion are separate
steps (`RedisCheckTime`, `RedisRead`, `RedisFinally`), and every access to Redis
may fail. `MfaDeliver` is one step, a lock or a Lua script.

### AuthRepair

`profile.current` is the live pointer, `chains` the lifecycle of each revision's
realm and adapter, `candidates` and `attempts` the repair records; `authRun`,
`ckpts` and `snapshots` are the run an authentication failure paused. A request
is a sequence of actions: import (`ImportBegin` ... `ImportPoint`), candidate,
verify (`VerifyBegin` ... `VerifyEnd`), activate (`ActivateRead`, `Switch`,
`ChainLive`, `Settle`) and rebind (`RebindClone`, `RebindRun`, `Remap`, `Undo`,
`RebindEnd`). `RepairDies` ends one anywhere; the worker takes checkpoints and
logs in beside them (`TakeCheckpoint`, `CheckpointLogin`, `PreflightFails`).

### AccountContext

`material` is what a provider reads, with its version, expiry, age and hosts;
`Rotate` replaces it. A resolve looks in the cache under the lock, loads outside
of it, and stores (`ResolveLookup`, `ProviderLoad`, `ProviderAnswer`,
`ResolveStore`), so an answer can be stored after an invalidation. `replaced`
and `ctxFloor` are history: when a version was replaced and which one was
current at the last invalidation that met no call in flight.

### AuthRecipe

`login` is one run of a recipe: the steps left, the variables collected, the
requests sent, the hosts spoken to. The recipes are those the program builds for
each password transformation and those a user imports; replies, redirect targets
and second-factor answers are free. `StartCode`, `CodeRequest`, `CodeReturns`
are the other kind of login, trusted code behind a restricted client.

### TestPlan and AgentAccess

`plans` is the versions of one plan. A call of the console or of an agent reads
the plan first and writes later (`planCall`). `AgentAccess` extends `TestPlan`
by the call records (`receipts`), the client's protocol (look up the receipt,
preflight, submit, poll, count) and the faults between them: a lost request or
reply (`ConnectionFails`), a server that dies inside a call (`ServerDies`), a
revoked key, a command repeated at the same time or for another plan.

### UnlockPlan

Seeding is one step per document (`LookUpStep`, `SeedStep`, `SeedFacts`), by
processes that may die; `RecordFact` and `SetStep` are the command line.
`Readiness` and its diagnoses are the report, as operators.

### RequestFixture

`fixture` is the document, `revisions` the stored payloads. Each call reads,
may insert a revision, saves the changed fields and appends an event
(`SavedFixture` is `save()` of a loaded document). `staleWrite` and `sealed`
are history for the properties.

### AuthorizationPolicy

`versions` and `policyRules` are the documents; adding a rule, cloning and
activating are split at their reads and writes (`ReadForAdd`, `SaveRule`,
`ArchiveOthers`, `Publish`). `Expectations` resolves the rules of a pair of
principals, `ScheduleMatrix` freezes rules and context, `RunCell` records a cell
by its outcome and judges it.

### ValidationReplay

One case from plan to verdict. `sent` counts requests, `tried` the hosts,
`writes` what the service really did. A reply is a status class, a business
rejection or a transport error (redirects are not among them); a write can be
done behind any of them (`MayHaveWritten`). Host retries, the early returns and
the read-back after a write are the guards of `SourceRequest`, `ConsumerRequest`
and `ReadAfter`.

The read-back of a DELETE compares the digest of each sent value with those of
the single items it finds. So a value may be lacking (`MayLack`) without any
deletion: one given by hand need never have been in the source, the value of a
field that ends in `_ids` is a whole list and always lacks, and the source may
stop to show a value for a reason of its own (`StopsShowing`: another user
removed it, or it is beyond the first twenty). Only for the rest (`Comparable`)
does an observed deletion say that this case made it.

### RelationWorkbench

`rel` is the relation document of each field, `rows` the results in order,
`vruns` the validation runs, `exper` the reusable experience. People edit,
decide and delete; imports change the schema; the worker records a case, holding
a copy of the relation between two writes (`recording`).

A form of several operations goes through `asking`, which keeps what the web
process has read so far. Preprocessing loads relations (`Loop`) and treats them
one by one from these copies (`Treat`; `Saved` writes only what changed).
`auto_next` preprocesses the first relations, picks one that is ready
(`PickReady`), loads its pair (`LoadPair`), treats the pair, freezes the plan
(`FreezePlan`), inserts the run or finds the one with the same key (`InsertRun`)
and marks the relations (`MarkRunning`). `validate_ready_batch` looks for a live
run (`ValidateBatch`), reads the ready relations (`SelectReady`), leaves out
blocked sources (`LeavesOutBlocked`) and goes on with the plan. Edits, imports
and every step of the worker come between any two of these, and the web process
may die there (`AskDies`).

One step each, although the code needs more than one operation: the treatment of
one relation with what it reads and saves; an edit with its preprocessing; the
second half of recording a result (its save, its preprocessing and the
experience); the freezing of a plan with its snapshots and the revisions of the
latest results. One such form is handled at a time, and the background analysis
counts as one; two forms that both enqueue are left out. So is a fixture that is
deactivated meanwhile. Of the choice of a batch, the ready pairs are all taken:
the total budget, the preview and the tick box for writes only make it smaller.
All relations have one source endpoint, so a blocked source leaves out all pairs.

### PayloadScreen

The replay of one snapshot: the checks before anything is sent, the baseline,
one row of probes per parameter and the judgement. A probe the request executor
refused is an answer with its own status. The snapshots to choose from are those
the manifest of an OpenAPI document yields (`Manifest`, `RoutePending`,
`PlannedScreens`: text parameters only, exactly one server, the operator's class
unless it is misspelt) and those of other sources (`RecordedScreens`).

### ObservationRouting

One request of one source, captured again and again. An import routes it
(`Decide`, over `RouteObservation` with the scores of assets, bindings and host
rules), writes asset and sample (`Record`), looks up the decision and stores the
observation (`LookUp`, `Store`). The operator's corrections are one action each.

### InterfaceChain

A definition is normalised, saved and bound. A replay composes each step from
the values captured so far, sends it and captures the answer; steps that fail
block those that need them. `EndpointDrifts` is an import during the replay.

### RuleProjection

`Outputs` is the evaluation of the P0 and P1 rules over the facts of the
project, as one set with the sort key of every output. A run reads
(`AnalyzeProject`), writes one output per step with a cursor every
`ProjectionBatch` (`PersistOutput`), drafts plans (`CreateDraft`) and ends;
`CrashRun` loses it anywhere, and the resumed run compares watermarks.
`ClassifyByHand` is a person at the asset page.

### ParameterArchive

An import stores the sample of a capture or of a Postman request and takes it
apart, or writes the documents of an OpenAPI operation (`ImportOpenApi`); then it
aggregates names, draws ids from the counter and upserts the rows; the bulk upsert
is one step. An operator's command
plans (`ArchivePlan`, recomputed at apply and compared by hash), then checks and
saves row by row, or dies.

### AiSession

A session fixes its policy when it starts: file, arguments, preset, and the
per-tool rules as stored then. A call is denied, prompted or run; `approved`
counts what the user's answers cover, `ran` what was run.

### Composition

- `ExecutionScheduler` implements `RunContract` under the mapping given at
  `Contract`: a run is absent, open, paused or closed, a checkpoint is open or
  has settled, and results are what they are. `FindingLifecycle` (`RunEnds`,
  `RunCancelRequested`), `MutationLifecycle` (`Crash`, starting over),
  `RelationWorkbench` (`ClaimRun`, `PauseRun`, `StopRun`), `AuthRepair`
  (the paused run) and `AgentAccess` (`RunFails`, `CountCase`) rest on what
  the scheduler does, which is that contract and, for writes, its at-least-once
  sending.
- `AgentAccess` composes the client, the agent interface and `TestPlan`.
- `RelationWorkbench` and `ValidationReplay` meet in the result of a case: the
  worker of the first records any status the second can end with
  (`CaseOutcomes`).
- `MCProjects` and `MCParameters` each join services that share no document: the
  first those that hold credentials or act with them, chains and rules, the second
  what a project knows of its parameters and expects of its accounts. `Init`
  chooses one of them (`part`), the others stay at their initial state; so each is
  explored in full, and their state spaces add up instead of multiplying. Nothing is lost by this: the services of one module
  neither read nor write each other's variables.

## 3. Runs

### What holds

| run | instance | properties |
|---|---|---|
| `scheduler_lease` | 1 run with 2 checkpoints, 2 workers, 1 agent, 2 dispatch attempts, 1 fault | `LeaseIsExclusive`, `ExclusiveExecution`, `SendsBoundedByDispatch`, `DoneIsRecorded`, `SettledCheckpointStays`, `ResultWrittenOnce` |
| `scheduler_cancel` | 1 run with 1 checkpoint, 2 workers, 2 agents, 2 dispatch attempts, 1 fault | `FinalRunStaysFinal`, `ImplementsContract` |
| `scheduler_live` | 2 runs (an orphan, and one of higher priority), 1 worker, 1 agent, 1 fault | `AcceptedRunSettles` |
| `host_policy` | 3 threads, 2 permits, one host, both scopes, 1 redispatch, 1 stale write | `CoordinatorSound`, `PersistedStopStays`, `AcquireReturns` |
| `finding` | 1 finding, 2 managers, maintenance, 1 retest after the original run, 1 crash | `FindingSound`, `DecisiveRetestSettles` |
| `relation_analysis` | 1 run, 2 workers, 4 outputs in batches of 2, 3 faults | `DoneIsComplete`, `CursorIsPersisted`, `FinalStays`, `CancelOnlyCancels`, `AnalysisSettles` |
| `mutation_lifecycle` | a POST with GET and DELETE, a PUT with GET, 1 lost answer, 1 lost worker, preflight or not | `UndoSound`, `CleanupFollows` |
| `projects` | MFA, repair, context, recipe, agents, unlock, sessions, chain, rules | `CodeMeetsItsWait`, `RepairSound`, `RepairReplacesItsBase`, `ContextIsCurrent`, `LoginBounded`, `AgentCallsExact`, `ProgressSurvivesSeeding`, `RisksAreApproved`, `CarriesItsOwnReplies`, `ProjectionSound` |
| `parameters` | fixture, policy, replay, workbench, screen, routing, archive | `FixtureConsistent`, `PolicyGoverns`, `ReplaySound`, `ExperienceIsBacked`, `AutomaticRunsUnblocked`, `ClearedByReplies`, `CorrectionHolds`, `ArchiveIsFaithful`, `ParameterIdsDiffer` |

A property that ends in `Sound`, and a few others, is a conjunction of named
parts that stand just before it in its module, each with its own comment.

What these say in short:

- However a lease is lost, no two workers hold the same claim of a run, and a
  worker that outlived its lease cannot touch a settled checkpoint or a
  recorded result. It can send once more: the number of requests for a
  checkpoint is bounded by the number of dispatches of its run.
- As long as no worker outlives its lease, a run is executed by one worker and
  `done` means that every checkpoint has settled. The second half has one
  exception the model found, a pool thread that fails before it claims
  its checkpoint, which `dropped` records.
- A permit is returned exactly once, however `acquire` ends, and the failure
  counters are the trailing run of the recorded history in every interleaving.
- No overlap of managers and maintenance verifies or reopens a finding without
  a retest that says so.
- `done` and the cursor of a relation analysis are backed by persisted outputs
  through crashes, stops, lost leases and changed input; the projection behind
  it recognises its own input again after it has written half of its outputs.
- A mutation is never sent without the value to restore, and what the code can
  know it left behind ends in `need_review`.
- A pushed code goes to one wait, and with the memory broker it arrives even in
  the last moment. A resolved credential is valid with the margin asked for and
  no older than the cache lifetime or the last quiet invalidation. A login stays
  within its requests and origins, and the limit a form proposes suffices.
- A repaired revision is live only after its own login succeeded, replaces only
  the revision it was made for, and moves a paused run completely or not at all
  while nobody resumes or cancels it meanwhile.
- An agent's submission takes effect once through lost replies, dead servers and
  repeated commands, and the client reports success only for a finished run.
- Overlapping activations leave one active policy version, and cells are judged
  by the rules that were published, except where an edit that read the draft
  earlier arrives after the activation.
- A validation case keeps its budget over retries and read-backs, repeats no
  write unless its answer was lost to a connection error, and calls a value of the
  source deleted only if it was, by this case or by somebody else. A parameter is
  cleared only by answers of the service.
- A parameter's experience is reusable only behind a success, of whatever mapping
  of its field, or a person. An automatic run meets a refused source only if the
  refusal was recorded after the form had looked, or if nothing but relations with a
  conclusion of their own was let in, whose statuses the refusal does not displace.
- A routing decision made by hand is honoured by every import that looks it up
  afterwards; without one, the decision stored first is, except that two imports
  that both found the observation new store one each. A replayed chain carries values of its own answers only. An
  archive holds what its account exchanged and nothing is left to do once it was
  applied undisturbed. A session runs risky tools no more often than answered.

### What does not hold

Three runs state what a document or comment says and show that the code does
otherwise. Each is a finding in `PROJECT.json` with the quoted line.

| run | property | what happens |
|---|---|---|
| `scheduler_cancel_lost` | `CancelRequestedOnlyCancels` | a cancel that arrives after the worker left its loop is overwritten by `done`: the last update of `execute_run` filters on the token only (`tool/execution_scheduler.py:1635`) |
| `delete_observed` | `ObservedDeleteHappened` | a DELETE the service did not carry out ends in a timeout, the read-back lacks a value that was given by hand, and the verdict is `relation_verified_with_api_defect` (`tool/parameter_validation.py:1745`); the same for a list |
| `rule_manual_class` | `ManualClassHolds` | the class a person gives an endpoint that a rule had classified before is taken for the machine's, and the next projection overwrites it (`tool/unified_rule_analysis.py:612`) |

More claims of this kind are stated in the modules and have no run of their own.
Each is violated; TLC shows the counterexample when the definition is added to
the configuration of its module.

| definition | where the claim is | what happens |
|---|---|---|
| `SingleDispatchSendsOnce` (ExecutionScheduler, `OneDispatch`) | `tool/execution_scheduler.py:563` | lease recovery sends a batch limited to one dispatch again |
| `RetestReplaysSupport` (FindingLifecycle, two snapshots) | `tool/vulnerability_lifecycle.py:334` | a retest that skipped a snapshot becomes the baseline of the next |
| `CancelledOnlyIfAsked` (RelationAnalysis) | `tool/parameter_analysis.py:271` | a worker that lost its lease cancels the run another executes |
| `ResidueIsReviewed` (MutationLifecycle, `MCTwoWriters`) | `tool/apifox_mutation_lifecycle.py:343` | PUT and PATCH of one resource overlap; the second takes the first one's value for the original |
| `ResumeIsComplete` (RuleProjection) | `docs/abstract_rule_analysis_framework.md` on resuming | two outputs with one key straddle a cursor and the second is skipped |
| `UnsentIsNotCleared` (PayloadScreen) | `tool/sqli_screen.py:744` | a class that sends no probe ends `no_vuln` |
| `UnknownIsPrompted` (AiSession) | `ai_cli/policy.py:5-7` | a tool of an unknown capability that is not risky runs without a prompt |
| `ConfirmedStructureWins` (ObservationRouting) | `docs/data_source_routing_center.md:43-47` | assets of another project outrank a confirmed structure |
| `OneRowPerIdentity`, `BlockedWroteNothing` (ParameterArchive) | `rule/profile_parameter_archive.py:680`, `tools/build_profile_parameter_archive.py:62` | two operators both create a row; a command blocked halfway reports no writes |
| `ArchivedNeverServed` (RequestFixture) | `tool/request_fixture.py:152` | a call that read the fixture before it was archived brings it back |
| `RemapsWhilePaused`, `SwitchIsAtomic` (AuthRepair) | `tool/project_auth.py:2341`, `:2123` | another manager resumes the run within the rebind; the pointer moves before the chain is active |
| `MutationAtMostOnce` (ValidationReplay) | `tool/parameter_validation.py:1211` | a connection error after the write counts as a write that missed |
| `BatchNeverBlocked` (RelationWorkbench) | `tool/parameter_validation.py:713`, `web/views_parameter_workbench.py:947` | a batch looks for blocked sources, then freezes and inserts its run without looking again; a paused run that is resumed in between records that the shared source refuses its login, and the batch is created all the same |
| `CertifiedMappingWasTested` (RelationWorkbench) | `web/views_parameter_workbench.py:1070` | a mapping is edited while a run with the old one is under way; its success turns the edited mapping to trusted (`tool/parameter_validation.py:2083`) |
| `RunningHasLiveRun`, `DeletedLeavesChains` (RelationWorkbench) | `tool/execution_scheduler.py:67`, `web/views_parameter_workbench.py` (notice of delete) | marking follows the enqueue; a deleted relation stays a chain candidate |
| `OneActivePlan` (TestPlan, three console calls) | `tool/test_plan.py:269-286` | two activations leave two active versions |
| `DeadlockedIsNotReady`, `EvidenceIsCurrent` (UnlockPlan) | `tool/unlock_plan.py:161`, `db/collection.py:2129` | a step whose producer is abandoned is ready when its fact is satisfied otherwise; a fact keeps the run of an earlier state |

Other races and observations, left without a property because nothing in the
repository promises their absence:

- `request_execution_cancel` writes from a document it read earlier, so a run
  that has become `done` meanwhile can be written `cancelled`
  (`tool/execution_scheduler.py:418`); `FinalRunStaysFinal` allows one final
  status to replace another. A worker whose run was cancelled while still being
  prepared goes on claiming until its heartbeat fails. A pool thread that raises
  before it claims its checkpoint leaves it pending in a run that reports `done`
  (`:1650`).
- Two transitions validated against the old status both write, so a finding can
  go from fixing to false_positive (`tool/vulnerability_lifecycle.py:120`); an
  older passing retest may be applied late (`:479`) and maintenance looks at 100
  retests (`:477`). Two confirmations of one result create two findings
  (`tool/result_review.py:251`). Two enqueues that both found no active analysis
  create two (`tool/parameter_analysis.py:61`).
- A write applied behind a bad answer, or by a worker that died before its
  cleanup, leaves residue no result mentions
  (`tool/apifox_mutation_lifecycle.py:728`, `:701`).
- The Redis broker deletes a code that arrives between the last poll and the
  end of the wait, although `deliver` answered that it was accepted.
- `quick_fix_auth` (`web/views_auth_profile.py:669`) always raises. The account
  mode of `interface_chain_cli` fails after it created its RUNNING record, and
  `replay_chain_live` never finishes its record.
- `finish_import_run` (`apiAnalysis/project_context.py:265`) moves the current
  import of a source also for a failed batch. An import that looked up the
  decision before a correction writes after it; importing again after "ignored"
  puts sample and asset back (`web/views_data_source.py:429`).
- `_resolve_ref` (`db/save.py:115`) gets the `components` object and looks
  "components" up in it again, so a body of an OpenAPI document that is a
  reference brings no parameter documents. No caller passes
  `readback_registered` to the payload screen, so its classes that need a
  readback always end blocked (`tool/sqli_screen.py:548`).
- A server that dies inside a call leaves its record pending for ever; the
  client ends "uncertain". `schedule_plan_execution` does not look at the
  environment again.
- A budget for a schedule without a requested one estimates two requests for a
  read pair, while each plan is given three. An archive row gives every value of
  a name to every path of the row. A seeding that dies leaves a plan that later
  calls take for seeded. Denied calls of the model loop are not logged.

Some properties leave out, by a flag of the history, a race that the code has:

- `PersistedStopStays`: the write of a worker that lost its lease, which copies an
  older `host_state` over the current one, does take a stop back
  (`tool/execution_scheduler.py:1151`). What is shown is that nothing else does.
- `FixtureConsistent`: two calls that both save a document read earlier can mix
  revision and lifecycle (`tool/request_fixture.py:252`).
- `RepairSound`: a rebind that dies, or during which the run is moved by somebody
  else, leaves the run split (`tool/project_auth.py:2473`).
- `ReplaySound`: a write whose answer was lost to a connection error.

### Bounds, symmetry and deadlock

- The instances below find counterexamples; that the safety properties hold for
  every instance is the subject of section 4, with the two exceptions named
  there.
- *Workers*: two, because every race over a lease is between a holder and one
  successor.
- *Checkpoints*: two in `scheduler_lease`, so that one settles while the other
  is open; one where the property is about a run.
- *Agents, managers, callers, operators, importers*: two where two handlers must
  overlap; one importer beside the operator who corrects. `CorrectionHolds` also
  holds with two importers, three imports and three decisions (2,139,748 states,
  four minutes, not kept as a run) and is proved for any number.
- *Faults*: crashes, stops, outages and late heartbeats share one budget,
  because each is possible at any step and one already separates every pair of
  writes. The relation analysis has three, enough for a late lease, a changed
  input and a crash in one behaviour. Repair, agents and the projection have one
  crash each.
- *Dispatches* need no bound of their own: a dispatch consumes a requeue, and
  requeues come from faults, `max_dispatch_attempts` or a resume of a paused run.
- *Threads* of the coordinator: one more than permits, so that one waits.
  Thresholds are 0 (off), 1 and 2, the boundary cases of the comparison.
- *Outputs*: four in batches of two give a cursor at the start, in the middle
  and at the end.
- *Findings*: one snapshot and one retest after the original run, with two
  managers. The same properties also hold with two retests and one manager
  (97,843 states), and the invariants with two retests, two managers and no
  crash (3.9 million); these take longer and are not kept as runs.
- *Calls* (`MaxRepairCalls` 4, `MaxPolicyCalls` 5, `MaxFixtureCalls` 3,
  `MaxWebCalls` 2, `MaxApplies` 2, `MaxToolCalls` 2, `MaxResolves` 2): the
  shortest behaviour in which two handlers overlap after the state they fight
  over exists. A repair needs a candidate, a verification, and another call that
  overlaps each; a policy a version, two rules and two activations. `MaxWebCalls`
  counts revocations and changed prerequisites too.
- *Clocks* (`MaxMfaTime` 3, `MaxCtxTime` 3): one tick beyond the longest timeout
  or lifetime of the instance, so that every deadline is met early, exactly and
  late.
- *Workbench*: two fields, as two pairs of one source with reads, as one pair with
  writes, and as one pair above the limit that lacks a value. Two edits or forms
  (`MaxRelOps`) and two runs: an automatic run that meets a refusal needs a run that
  records it and a form that has looked before; a stale copy needs an edit beside a
  run. Both properties also hold with three edits or forms in each of these instances
  (2.2 million, 3.5 million and 87,000 states, not kept as a run) and are proved for
  any number. The relations `auto_next` preprocesses are all, in one instance, and
  none, in the others: with twenty of many the one it picks need not be among them.
- *Data*: two payload values per part, two principals of different rank and
  scope, four chains (one whose field two steps use, a forward reference, an
  optional one, a stored secret), two projects for the rules (one where two
  roles share a key), three captures (one of another account), three tools.
- *Symmetry*: workers and checkpoints (`scheduler_lease`), workers and agents
  (`scheduler_cancel`), the callers of a service, the fields of a pair, the
  operators and sessions are interchangeable: no constant tells them apart. It is
  used only for invariants and step properties, never for liveness.
- *Deadlock* is not checked: a system in which every run has ended, every
  finding is closed and every budget of faults or requests is used may rest.
  That work does not stop halfway is what the liveness properties say.

### Fairness

| assumed | because |
|---|---|
| weak fairness of a worker's loop, its pool threads and `Restart` | they are loops of live processes, and a service manager restarts a stopped one |
| weak fairness of `Heartbeat` | it is a timer of its own thread |
| weak fairness of `Recover`, `RecoverAbandoned` and of handlers under way | the maintenance scheduler calls recovery periodically; a handler has no unbounded wait |
| weak fairness of `ExpireLease` | time passes; for a live worker the action needs a fault, and no budget of faults must be used up |
| strong fairness of a coordinator's thread | waiters of a Python semaphore are woken one by one, so none is passed over for ever |
| strong fairness of `Claim` in the relation analysis | workers poll, and a run between two leases is claimable again and again |
| strong fairness of `EvaluateCompleted` | maintenance comes back to every finished retest in its window, also if managers evaluate in between |
| weak fairness of a mutation lifecycle under way | each HTTP request has a timeout |

Nothing makes an enqueue, a cancel, a resume, a fault or a changed input come.
The composed runs (`parameters`, `projects`) check safety only
and assume no fairness.

## 4. Theorems

Proved with TLAPS for every value of the constants that satisfies the named
assumption of the module: any number of runs, workers, requests, importers or
faults, any reply of a tested service. Each theorem states the property a run
checks, so TLC shows it on a small instance and the theorem on all of them. A
component's invariant was checked by TLC on its run before it was proved.

| module | theorems |
|---|---|
| `ExecutionSchedulerProofs` | `TypeCorrect`, `LeaseExclusive`, `FinalStays`, `SettledStays`, `ResultStays`, `ExecutionExclusive`, `SendsBounded` |
| `ExecutionCompletionProofs` | `DoneRecorded`, `ContractImplemented` |
| `RelationAnalysisProofs` | `DoneComplete`, `CursorPersisted`, `EndedStays`, `CancelsKept` (RelationAnalysis), `ProjectionsAreSound` (RuleProjection) |
| `HostPolicyProofs` | `CoordinatorIsSound`, `PersistedStops` |
| `FindingLifecycleProofs` | `FindingsAreSound` |
| `ReplayProofs` | `UndoIsSound` (MutationLifecycle), `ChainsOwnReplies` (InterfaceChain) |
| `CredentialProofs` | `CodesMeet` (MfaBroker), `RepairsReplaceBase`, `RepairsSound` (AuthRepair), `ProgressKept` (UnlockPlan), `RisksApproved` (AiSession), `ContextsCurrent` (AccountContext), `LoginsBounded` (AuthRecipe), `AgentsExact` (AgentAccess) |
| `ParameterProofs` | `ExperienceBacked`, `AutomaticUnblocked` (RelationWorkbench), `ScreenCleared` (PayloadScreen), `IdsDiffer`, `ArchivesFaithful` (ParameterArchive), `FixturesConsistent` (RequestFixture), `PoliciesGovern` (AuthorizationPolicy), `ReplaysSound` (ValidationReplay), `CorrectionsHold` (ObservationRouting) |

A proof module opens each component with the parts of its inductive invariant,
then has a lemma per group of actions that shows the parts kept, then the
theorem. What follows names each invariant and why the property alone is not
inductive.

### The scheduler

- `TypeCorrect`: `TypeOK`, one step per action.
- `LeaseExclusive`: `LeaseInv == TypeOK /\ ClaimsOK /\ LeaseIsExclusive`. A claim
  hands out `dispatch + 1`, and nothing in the property says that a worker's
  older token is below it; `ClaimsOK` adds that a worker has a run exactly while
  it is not idle and that its token is one of `1..dispatch` of that run. The
  case that matters is `ClaimNextExecution`.
- `FinalStays` needs `LeaseInv` for the last updates of a worker, which are
  filtered on the token only: a run with that token is in a leased status, hence
  not final. `SettledStays` and `ResultStays` follow from the filters.
- `ExecutionExclusive`: `ExecInv` says that until a worker outlives its lease, the
  run it executes is over, or leased to that very claim with a lease that has not
  expired; so recovery finds nothing to requeue.
- `SendsBounded`: `SendInv` counts with tokens. A claim of the run is worth one
  attempt at each checkpoint and an attempt one request; the claims that may still
  spend theirs form a set of tokens no two workers share, and attempts are at most
  the cardinality of the tokens already spent.
- `DoneRecorded`: `HandInv` (a lease has a token, a handler under way knows tokens
  that exist), `ExpiryInv` (what recovery listed as expired stays so until a new
  claim), `ResultInv` (nobody else writes the result a pool thread looked up before
  it sent) and `DoneInv`: the worker that holds the token of a run has every
  checkpoint in its list, in a thread, or settled.
- `ContractImplemented`: the initial states of the scheduler map to initial states
  of `RunContract` and every step to a step or a stutter, one lemma per group of
  actions, under `TypeOK` and `AcceptedInv` (whatever somebody works on was accepted).

### The relation analysis

- `DoneComplete` and `CursorPersisted`: `AnalysisInv == Shapes /\ Behind /\ Carries`.
  `Behind` says of every document what the two properties say. A worker writes
  cursors from its local variables long after it read the run: `Carries` says that
  what a worker carries is true of the outputs, and agrees with the document as
  long as the worker still owns the run. The second half is what a publish needs,
  which writes a watermark over a cursor it took at claim time.
- `EndedStays` and `CancelsKept` follow from a lemma that lists for each action the
  moves of the status it allows.

### The rule projection

- `ProjectionsAreSound`: `ProjectionInv == RuleTypes /\ DraftsOK /\ (classings = 0 =>
  ProjectedOK)`. As long as nobody classified by hand, what a run reads has the same
  outputs and the same watermark whenever it reads (`SameRead`), so a resumed run is
  not refused. What is to be written is in the order of the keys (`InKeyOrder`), and
  every output with a key of its own is written or still ahead of the cursor; an
  output that shares its key with another may be lost, which is why the property
  excepts it and `ResumeIsComplete` fails. That the outputs are finitely many and that
  sorting them keeps all of them is proved from `RuleAssumption` by counting, for each
  output, those before it.

### The host policy

- `CoordinatorIsSound`: `PolicyInv`. The counters are proved equal to the trailing
  run of the history (`AllMatch`) for the coordinator, for `host_state` and for the
  snapshot a stale worker may still write; `TrailingAppend` is the lemma about one
  more result. That a stopped host gets what was in flight and no more is `LateOK`,
  a count: what it was sent after the stop, plus what is granted, stays within a
  bound that is one lower in request scope, where the thread that records the stop
  holds a permit itself.
- `PersistedStops` follows from the same invariant, step by step.

### Findings and replays

- `FindingsAreSound`: `FindingInv` adds to the property what every actor has read
  and still relies on (`Fits`): a transition that was validated with evidence keeps
  that evidence, because a finished retest never changes. It also numbers runs: a
  retest is newer than the run whose result it replays.
- `UndoIsSound`: `MutInv` bounds the requests by the place in the procedure, says
  that an update holds the value it read from its first write to its verdict, and,
  for what is left behind, that the only writer of a path either restored it or is
  about to report it (`Residue`).
- `ChainsOwnReplies`: `ChainInv` says that a replay has captured, of the steps
  behind it, exactly what they answered. Which steps are ready is a recursive
  function over the chain; that it exists and that a ready step has only ready
  dependencies are proved with a least counterexample (`ResolvesExists`,
  `ReadySteps`).

### Credentials and agents

- `CodesMeet`: `MfaInv` follows a code through the two brokers: what the waiter
  holds is what the transaction accepted, and a transaction taken out of the inbox
  accepts nothing more.
- `RepairsReplaceBase` and `RepairsSound`: `RepairInv` (a request under way knows a
  candidate that exists and an attempt nobody else writes; candidates are newer than
  their base) and `BindInv` (a run nobody disturbed stands still while it is moved,
  and its checkpoints follow its snapshots except those one request has still to
  move). The key to two overlapping rebinds is that both need the run at the base,
  and the first to move it makes the revision larger for good.
- `ContextsCurrent`: `CtxInv` gives every context, in a call or in the cache, a time
  at which it was in force, and every entry of the cache an end less than
  `CacheSeconds` after that.
- `LoginsBounded`: the requests of a login are counted against the set of pairs of
  step and attempt behind it in its recipe, whose cardinality grows by one for each.
- `AgentsExact`: `AgentInv`. For a key there is a run, or one handler that may still
  queue it, or neither, and neither before the key has a receipt; a client that
  polls was told of a run of its own.
- `RisksApproved` counts calls per tool; `ProgressKept` needs no invariant.

### Parameters

- `ExperienceBacked` and `AutomaticUnblocked`: `RelInv` says of every relation, of
  the copy a recording worker holds and of the copies a form holds (`DocOK`), that
  what it claims is backed by a person or by a result. For the second, `FormOK` says
  of a form between two of its operations that as long as no row was recorded after
  it had looked (`seen`), what an automatic one let into its case on a blocked source
  was concluded. The property speaks of the insert alone; the invariant carries the
  look over the steps in between, in which a fixture may end the block but nothing
  begins it without a row.
- `ScreenCleared`: `ScreenInv`; the probes not yet sent are unsent.
- `IdsDiffer`: `IdInv`; an id taken from the counter and not yet written differs from
  every id written and from every other one taken.
- `ArchivesFaithful`: `ArchiveInv`. The rows hold values their account exchanged
  (`RowsOK`), and samples are only ever added. For the second half, an operator nobody
  interferes with has, for every name behind, the one row the plan made of it
  (`RowSettled`) and, for every name ahead, the row the plan found (`Awaited`). That a
  settled row is not changed again by a plan of the same input is `MergeSettles`: the
  stored values come first, so either the new ones are all among them or the limit is
  reached. It rests on `MergeIs`, which says without a recursion what `_merge_values`
  returns: distinct values of both sides, at most the limit, and all of them below it.
- `FixturesConsistent`: `FixtureInv`; what a call has read and will write is of
  revisions that were inserted, and whole if what it read was.
- `PoliciesGovern`: `PolicyInv` (of `AuthorizationPolicy`); a version that left the
  drafts keeps its rules and its context unless a rule came late.
- `ReplaysSound`: `CaseInv`; the budget left covers what the plan has still to send,
  and until the last request a write happened only behind an answer that was lost
  (`WritesOK`), which is why the next host is tried. What the read-back found is kept
  until the verdict: a `Comparable` value it lacked was written away or is one the
  source stopped to show (`DeletionOK`).
- `CorrectionsHold`: `RoutingInv`; an import about to store holds what it would keep
  now, unless somebody decided since it looked.

### What the proofs assume

Only the named `ASSUME` of each module, and TLC evaluates all of them on the runs.
Most give a bound its type. Those with content:

- `ConstantsAssumption`: a checkpoint belongs to one run; `MaxDispatchAttempts` is
  at least 1, as the policy validation demands.
- `PolicyAssumption` (coordinator): finitely many threads, a positive number of
  permits; (authorization): the defaults are expectations.
- `LifecycleAssumption`: finitely many findings and snapshots, or assets; the runs
  the results come from are numbered before every retest.
- `MfaAssumption`: a code is not one of the exceptions. `AgentAssumption`: the
  console's origin is not an idempotency key.
- `SessionAssumption`: a risky tool is declared to have effects, as every registered
  tool is. `RecipeAssumption`: a realm's origins are among the origins.
- `ArchiveAssumption`: the names in captures and documents are names, a sample holds
  finitely many values, and the limit of an archive is positive, as
  `ProfileArchiveLimits.validate` demands.
- `RuleAssumption`: a project has finitely many endpoints and documents, told apart by
  their numbers.
- `ChainAssumption`: of the definitions a user may import there is a longest.

### What the attempts found

Proof attempts that failed for a good reason changed the models or the properties:

- `RotationTakesEffect` (AccountContext) was false for a cache lifetime of zero,
  where the strict comparison left no room; it is stated with the answer's own time.
- `VerdictFollowsRules` (AuthorizationPolicy) was false where the default is `deny`,
  which no instance had: an instance with that default is now the run. Rules of equal
  precedence are decided by a random identifier, so `Expectation` is a set
  (`Expectations`).
- `CorrectionHolds` (ObservationRouting) was false for two imports that both found
  the observation new: each stores an automatic decision and links by it, and every
  later import uses the first. The instance has one importer and did not show it. The
  property now names that exception.
- Sorts and merges over sequences could not be reasoned about. In `RuleProjection` and
  `ParameterArchive` an order is now given by counting what comes before, and a plan is
  a function of names an operator works off from the least. TLC finds the same states.
- `ReplaySound` and `AutomaticRunsUnblocked` were once proved of models in which a
  value could be lacking only after a write, and in which a form checked and enqueued
  in one step. Of the code both are false as they were stated then; the models now
  have the read-back and the operations of the code, the properties say what remains
  true, and `ObservedDeleteHappened` and `BatchNeverBlocked` what does not.
- Two definitions had overlapping arms of a `CASE`, of which TLC took the first, and
  `FindingLifecycle` did not say that results come from runs numbered before the
  retests; both are now explicit.

### Only model-checked

- Every liveness property (`AcceptedRunSettles`, `AcquireReturns`,
  `DecisiveRetestSettles`, `AnalysisSettles`, `CleanupFollows`): the prover does not
  reason about fairness and `ENABLED`.
- The claims of section 3 that do not hold.

## 5. What the models leave out

- The content of requests and answers, except the outcome the code branches on;
  the composition of requests, templates, encryption and hashes.
- Counters and summaries of a run, relation rows that mirror its state, logs
  and notifications. No modelled guard reads them.
- `retry_execution`, which enqueues a new run under a new idempotency key: for
  the model, one more run.
- Validation of a policy or of snapshots before anything is written.
- Wall-clock expiry of leases: a lease expires at any time once its worker is
  gone, and as a fault before that. Clocks of the MFA and context models are
  discrete and agree.
- In findings, reject, duplicate and comment events; assignment and due dates.
- In rules, scores and reason codes of a match; in routing, environments; in the
  archive, the inference of weak relations the import pipeline runs after it.
- In the workbench, reversing a relation, choosing hosts, two forms at once and the
  pages themselves; in the client, its `--no-wait` exit; in fixtures, the merge into a snapshot.
- Parsing of captures and rule files, and of documents beyond the operations and
  fields they yield; the model of a language model's
  answers; single sign-on of the console; migrations. These are sequential and
  pure or one read, and unit tests reach them.
- A failure of MongoDB in the middle of a handler is modelled as the crash of
  that handler; MongoDB itself does not lose acknowledged writes.

## 6. Plan

Done: the scheduler with its contract, the host policy, the findings, the
relation analysis, the mutation lifecycle, and the services of the two composed
runs.

Next models: the rest of result review; the promotion of drafts into lifecycle
plans; chain candidates and their feedback; the classification functions of
`tool/execution_scheduler.py` (677-844) as operators over bounded inputs.

Every safety property of a passing run is proved. Next proofs: those of the models
above, once they are written, each with its own run first. Liveness stays with TLC.
