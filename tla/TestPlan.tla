---- MODULE TestPlan ----
\* The versions of one test plan (tool/test_plan.py) and the calls that work on
\* them from the console and the agent interface. Every call reads a plan
\* document first and writes later, so calls interleave between their database
\* operations. Version numbers are positions in `plans`: the unique index on
\* project, name and version makes them distinct.
EXTENDS Naturals, Sequences

CONSTANTS
    PlanCalls,       \* handlers serving a call
    PlanOrigins,     \* who a run may be queued for
    MaxPlans, MaxPlanRuns

ASSUME PlanAssumption == PlanCalls # {} /\ MaxPlans \in Nat /\ MaxPlanRuns \in Nat

VARIABLES
    plans,       \* stored versions: status, and whether the content is executable
    planWorld,   \* what the preflight looks up: the environment, and profile and assets
    planCall,    \* the call each handler serves
    planRuns     \* runs queued from plans

planVars == <<plans, planWorld, planCall, planRuns>>

NoPlanCall == [op |-> "none", plan |-> 0, origin |-> "none", step |-> "idle", seen |-> "none", result |-> "none", run |-> 0]

\* An executable version has a valid scope within its budget and an adapter of
\* the generic entry point; a draft of the rule analysis is not executable.
DraftPlan(executable) == [status |-> "draft", executable |-> executable]

PlanInit ==
    /\ plans = <<>>
    /\ planWorld = [environment |-> TRUE, assets |-> TRUE]
    /\ planCall = [c \in PlanCalls |-> NoPlanCall]
    /\ planRuns = <<>>

\* A plan starts as version 1; a second plan of its name is refused by the index.
CreatePlan(executable) ==
    /\ plans = <<>> /\ MaxPlans > 0
    /\ plans' = <<DraftPlan(executable)>>
    /\ UNCHANGED <<planWorld, planCall, planRuns>>

\* The environment, the profile or an endpoint of the plan changes.
PrerequisitesChange(world) ==
    /\ planWorld' = world
    /\ world # planWorld
    /\ UNCHANGED <<plans, planCall, planRuns>>

----
\* assess_plan_readiness and the checks of schedule_plan_execution.

Preflight(p) ==
    /\ plans[p].status = "active"
    /\ plans[p].executable
    /\ planWorld.environment /\ planWorld.assets

BeginPlanCall(c, op, p, origin) ==
    /\ planCall[c].step = "idle"
    /\ p \in 1..Len(plans)
    /\ planCall' = [planCall EXCEPT ![c] =
         [NoPlanCall EXCEPT !.op = op, !.plan = p, !.origin = origin, !.step = "read"]]

PlanStep(c, step) == planCall' = [planCall EXCEPT ![c].step = step]
PlanFails(c) == planCall' = [planCall EXCEPT ![c].step = "answer", ![c].result = "error"]
PlanSucceeds(c, run) == planCall' = [planCall EXCEPT ![c].step = "answer", ![c].result = "ok", ![c].run = run]

PlanAt(c, op, step) == planCall[c].op = op /\ planCall[c].step = step

\* activate_plan: only a draft; the active versions are archived, then the
\* document read at the start is saved as active.
ReadForActivation(c) ==
    /\ PlanAt(c, "activate", "read")
    /\ IF plans[planCall[c].plan].status = "draft" THEN PlanStep(c, "archive others") ELSE PlanFails(c)
    /\ UNCHANGED <<plans, planWorld, planRuns>>

ArchiveOthers(c) ==
    /\ PlanAt(c, "activate", "archive others")
    /\ plans' = [p \in 1..Len(plans) |->
         IF plans[p].status = "active" THEN [plans[p] EXCEPT !.status = "archived"] ELSE plans[p]]
    /\ PlanStep(c, "save")
    /\ UNCHANGED <<planWorld, planRuns>>

SaveActive(c) ==
    /\ PlanAt(c, "activate", "save")
    /\ plans' = [plans EXCEPT ![planCall[c].plan].status = "active"]
    /\ PlanSucceeds(c, 0)
    /\ UNCHANGED <<planWorld, planRuns>>

\* archive_plan: save writes the status only when the document read had another.
ReadForArchive(c) ==
    /\ PlanAt(c, "archive", "read")
    /\ planCall' = [planCall EXCEPT ![c].step = "save", ![c].seen = plans[planCall[c].plan].status]
    /\ UNCHANGED <<plans, planWorld, planRuns>>

SaveArchived(c) ==
    /\ PlanAt(c, "archive", "save")
    /\ plans' = IF planCall[c].seen = "archived" THEN plans
                ELSE [plans EXCEPT ![planCall[c].plan].status = "archived"]
    /\ PlanSucceeds(c, 0)
    /\ UNCHANGED <<planWorld, planRuns>>

\* create_next_version: the number after the latest one read; the insert is
\* refused when another call has taken it.
ReadLatest(c) ==
    /\ PlanAt(c, "version", "read")
    /\ planCall' = [planCall EXCEPT ![c].step = "insert", ![c].run = Len(plans)]
    /\ UNCHANGED <<plans, planWorld, planRuns>>

InsertVersion(c) ==
    /\ PlanAt(c, "version", "insert") /\ Len(plans) < MaxPlans
    /\ IF planCall[c].run = Len(plans)
       THEN /\ plans' = Append(plans, DraftPlan(plans[planCall[c].plan].executable))
            /\ PlanSucceeds(c, 0)
       ELSE PlanFails(c) /\ UNCHANGED plans
    /\ UNCHANGED <<planWorld, planRuns>>

\* Execution: the metadata preflight, then schedule_plan_execution reads the plan
\* again, and finally composes the snapshots from profile and assets and queues.
CheckReadiness(c) ==
    /\ PlanAt(c, "execute", "read")
    /\ IF Preflight(planCall[c].plan) THEN PlanStep(c, "schedule") ELSE PlanFails(c)
    /\ UNCHANGED <<plans, planWorld, planRuns>>

ReadActive(c) ==
    /\ PlanAt(c, "execute", "schedule")
    /\ LET p == plans[planCall[c].plan] IN
       IF p.executable /\ p.status = "active" THEN PlanStep(c, "queue") ELSE PlanFails(c)
    /\ UNCHANGED <<plans, planWorld, planRuns>>

QueuedRun(c) == [plan |-> planCall[c].plan, origin |-> planCall[c].origin,
                 status |-> "queued", results |-> 0, completed |-> 0, skipped |-> 0]

QueueRun(c) ==
    /\ PlanAt(c, "execute", "queue") /\ Len(planRuns) < MaxPlanRuns
    /\ IF planWorld.assets
       THEN planRuns' = Append(planRuns, QueuedRun(c)) /\ PlanSucceeds(c, Len(planRuns) + 1)
       ELSE PlanFails(c) /\ UNCHANGED planRuns
    /\ UNCHANGED <<plans, planWorld>>

PlanCallStep(c) ==
    \/ ReadForActivation(c) \/ ArchiveOthers(c) \/ SaveActive(c)
    \/ ReadForArchive(c) \/ SaveArchived(c)
    \/ ReadLatest(c) \/ InsertVersion(c)
    \/ CheckReadiness(c) \/ ReadActive(c) \/ QueueRun(c)

----
\* Activating a version archives the other versions of its name
\* (test_plan.py:269-286, views_ai_access.py:287): at most one is active.
OneActivePlan ==
    \A p, q \in 1..Len(plans) :
      (plans[p].status = "active" /\ plans[q].status = "active") => p = q
====
