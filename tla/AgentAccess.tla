---- MODULE AgentAccess ----
\* The HTTP interface for external agents (web/views_ai_access.py) and its client
\* (clients/authcheck_cli): the client looks up the receipt of its idempotency
\* key, checks the plan, submits the execution and polls the run it was told of.
\* The server records a call before it does the work and answers a repeated one
\* from the record. Requests and replies may be lost, a server process may die
\* in the middle of a call, the user may repeat a command, also at the same
\* time or by mistake for another plan, and a key may be revoked at any time.
EXTENDS TestPlan, FiniteSets

CONSTANTS
    Clients,         \* runs of the command line client
    Idems,           \* idempotency keys
    RunCases,        \* cases of a run
    MaxWebCalls, MaxServerDeaths

\* Keys are of the agent interface: no call of the console has one.
ASSUME AgentAssumption ==
    /\ RunCases \in Nat \ {0}
    /\ {"web"} \cup Idems \subseteq PlanOrigins /\ "web" \notin Idems /\ "nobody" \notin Clients

VARIABLES
    accessKey,   \* whether the agent's key is active
    receipts,    \* the stored call of each idempotency key
    client,      \* the state of each client
    serves,      \* the client each handler answers, if any
    webCalls, serverDeaths

agentVars == <<planVars, accessKey, receipts, client, serves, webCalls, serverDeaths>>

NoReceipt == [state |-> "none", plan |-> 0, run |-> 0]
NoClient == [idem |-> "none", plan |-> 0, step |-> "new", run |-> 0, seen |-> "none", exit |-> "none"]

AgentInit ==
    /\ PlanInit
    /\ accessKey = TRUE
    /\ receipts = [k \in Idems |-> NoReceipt]
    /\ client = [a \in Clients |-> NoClient]
    /\ serves = [c \in PlanCalls |-> "nobody"]
    /\ webCalls = 0 /\ serverDeaths = 0

Goto(a, step) == client' = [client EXCEPT ![a].step = step]
Exit(a, code) == client' = [client EXCEPT ![a].step = "ended", ![a].seen = "none", ![a].exit = code]
Waits(a, run) == client' = [client EXCEPT ![a].step = "poll", ![a].run = run]

\* authenticated: a revoked key answers 401 to every request of the client.
Denied(a) == ~accessKey /\ Exit(a, "error")

----
\* run_plan.

StartClient(a, k, p) ==
    /\ client[a].step = "new" /\ p \in 1..Len(plans)
    /\ client' = [client EXCEPT ![a].idem = k, ![a].plan = p, ![a].step = "receipt"]
    /\ UNCHANGED <<planVars, accessKey, receipts, serves, webCalls, serverDeaths>>

FromReceipt(a, r) ==
    IF r.plan # client[a].plan THEN Exit(a, "conflict")
    ELSE IF r.state # "done" THEN Exit(a, "uncertain")
    ELSE Waits(a, r.run)

LookupReceipt(a) ==
    /\ client[a].step = "receipt"
    /\ LET r == receipts[client[a].idem] IN
       \/ Denied(a)
       \/ accessKey /\ r.state = "none" /\ Goto(a, "preflight")
       \/ accessKey /\ r.state # "none" /\ FromReceipt(a, r)
    /\ UNCHANGED <<planVars, accessKey, receipts, serves, webCalls, serverDeaths>>

ClientPreflight(a) ==
    /\ client[a].step = "preflight"
    /\ \/ Denied(a)
       \/ accessKey /\ IF Preflight(client[a].plan) THEN Goto(a, "submit") ELSE Exit(a, "blocked")
    /\ UNCHANGED <<planVars, accessKey, receipts, serves, webCalls, serverDeaths>>

\* A call the record already knows: another request under its key is a conflict,
\* the same one is answered from the receipt.
AnsweredFromRecord(a) ==
    LET r == receipts[client[a].idem] IN
    IF r.plan # client[a].plan THEN Exit(a, "conflict")
    ELSE IF r.state = "done" THEN Waits(a, r.run)
    ELSE Exit(a, "uncertain")

\* The insert of the call record is what makes a repeated request a duplicate.
NewToRecordUnlessDone(a) == receipts[client[a].idem].state # "done"
NewToRecord(a) == receipts[client[a].idem].state = "none"

ServeSubmit(a, c) ==
    /\ client[a].step = "submit"
    /\ \/ /\ Denied(a)
          /\ UNCHANGED <<receipts, planCall, serves>>
       \/ /\ accessKey /\ ~NewToRecord(a)
          /\ AnsweredFromRecord(a)
          /\ UNCHANGED <<receipts, planCall, serves>>
       \/ /\ accessKey /\ NewToRecord(a)
          /\ receipts' = [receipts EXCEPT ![client[a].idem] =
               [state |-> "pending", plan |-> client[a].plan, run |-> 0]]
          /\ BeginPlanCall(c, "execute", client[a].plan, client[a].idem)
          /\ serves' = [serves EXCEPT ![c] = a]
          /\ Goto(a, "sent")
    /\ UNCHANGED <<plans, planWorld, planRuns, accessKey, webCalls, serverDeaths>>

\* The result is stored and, unless the client has given up, answered.
AnswerCall(c) ==
    /\ planCall[c].step = "answer" /\ serves[c] \in Clients
    /\ LET a == serves[c] IN
       /\ receipts' = [receipts EXCEPT ![planCall[c].origin].state =
                         IF planCall[c].result = "ok" THEN "done" ELSE "failed",
                       ![planCall[c].origin].run = planCall[c].run]
       /\ IF client[a].step # "sent" THEN UNCHANGED client
          ELSE IF planCall[c].result = "ok" THEN Waits(a, planCall[c].run)
          ELSE Exit(a, "error")
    /\ planCall' = [planCall EXCEPT ![c] = NoPlanCall]
    /\ serves' = [serves EXCEPT ![c] = "nobody"]
    /\ UNCHANGED <<plans, planWorld, planRuns, accessKey, webCalls, serverDeaths>>

\* The process serving a call dies; the record stays pending.
ServerDies(c) ==
    /\ planCall[c].step # "idle" /\ serverDeaths < MaxServerDeaths
    /\ serverDeaths' = serverDeaths + 1
    /\ planCall' = [planCall EXCEPT ![c] = NoPlanCall]
    /\ serves' = [serves EXCEPT ![c] = "nobody"]
    /\ UNCHANGED <<plans, planWorld, planRuns, accessKey, receipts, client, webCalls>>

\* A request or a reply is lost, or takes longer than the client waits.
ConnectionFails(a) ==
    /\ client[a].step \in {"receipt", "preflight", "submit", "sent", "poll", "count"}
    /\ Exit(a, IF client[a].step \in {"poll", "count"} THEN "timeout" ELSE "error")
    /\ UNCHANGED <<planVars, accessKey, receipts, serves, webCalls, serverDeaths>>

----
\* wait_run over project.results: the run is read, then its results are counted.

PollRun(a) ==
    /\ client[a].step = "poll"
    /\ \/ Denied(a)
       \/ /\ accessKey
          /\ IF planRuns[client[a].run].status = "failed"
             THEN Exit(a, "run failed")
             ELSE client' = [client EXCEPT ![a].step = "count", ![a].seen = planRuns[client[a].run].status]
    /\ UNCHANGED <<planVars, accessKey, receipts, serves, webCalls, serverDeaths>>

\* results_complete: the counters of a finished run and the stored results agree.
ResultsComplete(a) ==
    LET r == planRuns[client[a].run] IN
    /\ client[a].seen = "done"
    /\ r.completed + r.skipped = RunCases /\ r.completed > 0
    /\ r.results = r.completed

CountResults(a) ==
    /\ client[a].step = "count"
    /\ IF client[a].seen # "done" THEN Goto(a, "poll")
       ELSE Exit(a, IF ResultsComplete(a) THEN "completed" ELSE "incomplete")
    /\ UNCHANGED <<planVars, accessKey, receipts, serves, webCalls, serverDeaths>>

----
\* The scheduler's worker, as far as the results call can see it: a result is
\* stored and then counted, a failed case may have none, a case may be skipped,
\* and a run may fail, be cancelled or be paused.
RunActive(n) == planRuns[n].status \in {"queued", "running"}
Counted(n) == planRuns[n].completed + planRuns[n].skipped

RecordResult(n) ==
    /\ RunActive(n) /\ planRuns[n].results < RunCases
    /\ planRuns' = [planRuns EXCEPT ![n].status = "running", ![n].results = @ + 1]
    /\ UNCHANGED <<plans, planWorld, planCall, accessKey, receipts, client, serves, webCalls, serverDeaths>>

CountCase(n, skip) ==
    /\ RunActive(n) /\ Counted(n) < RunCases
    /\ planRuns' = [planRuns EXCEPT
         ![n].completed = IF skip THEN @ ELSE @ + 1,
         ![n].skipped = IF skip THEN @ + 1 ELSE @,
         ![n].status = IF Counted(n) + 1 = RunCases THEN "done" ELSE "running"]
    /\ UNCHANGED <<plans, planWorld, planCall, accessKey, receipts, client, serves, webCalls, serverDeaths>>

RunFails(n) ==
    /\ RunActive(n)
    /\ planRuns' = [planRuns EXCEPT ![n].status = "failed"]
    /\ UNCHANGED <<plans, planWorld, planCall, accessKey, receipts, client, serves, webCalls, serverDeaths>>

\* The console: a manager calls the same operations; another page revokes the key.
WebCall(c, op, p) ==
    /\ webCalls < MaxWebCalls
    /\ webCalls' = webCalls + 1
    /\ BeginPlanCall(c, op, p, "web")
    /\ UNCHANGED <<plans, planWorld, planRuns, accessKey, receipts, client, serves, serverDeaths>>

WebAnswer(c) ==
    /\ planCall[c].step = "answer" /\ serves[c] \notin Clients
    /\ planCall' = [planCall EXCEPT ![c] = NoPlanCall]
    /\ UNCHANGED <<plans, planWorld, planRuns, accessKey, receipts, client, serves, webCalls, serverDeaths>>

RevokeKey ==
    /\ accessKey /\ accessKey' = FALSE
    /\ webCalls < MaxWebCalls /\ webCalls' = webCalls + 1
    /\ UNCHANGED <<planVars, receipts, client, serves, serverDeaths>>

\* Which of the free handlers takes a call makes no difference.
FreeHandler ==
    CHOOSE c \in PlanCalls :
      planCall[c].step = "idle" \/ \A d \in PlanCalls : planCall[d].step # "idle"

Console ==
    /\ \/ \E executable \in BOOLEAN : CreatePlan(executable) /\ UNCHANGED webCalls
       \/ \E c \in PlanCalls : PlanCallStep(c) /\ UNCHANGED webCalls
       \/ \E world \in [environment : BOOLEAN, assets : BOOLEAN] :
            /\ webCalls < MaxWebCalls /\ webCalls' = webCalls + 1
            /\ PrerequisitesChange(world)
    /\ UNCHANGED <<accessKey, receipts, client, serves, serverDeaths>>

AgentNext ==
    \/ Console
    \/ \E c \in PlanCalls : WebAnswer(c) \/ AnswerCall(c) \/ ServerDies(c)
    \/ \E op \in {"activate", "archive", "version", "execute"}, p \in 1..Len(plans) : WebCall(FreeHandler, op, p)
    \/ RevokeKey
    \/ \E a \in Clients, k \in Idems, p \in 1..Len(plans) : StartClient(a, k, p)
    \/ \E a \in Clients : ServeSubmit(a, FreeHandler)
    \/ \E a \in Clients : LookupReceipt(a) \/ ClientPreflight(a) \/ ConnectionFails(a) \/ PollRun(a) \/ CountResults(a)
    \/ \E n \in 1..Len(planRuns) : RecordResult(n) \/ CountCase(n, TRUE) \/ CountCase(n, FALSE) \/ RunFails(n)

AgentSpec == AgentInit /\ [][AgentNext]_agentVars

----
\* An execution is queued at most once for one idempotency key, whatever is lost,
\* repeated or killed on the way (views_ai_access.py:385-415).
EffectOnce ==
    \A k \in Idems : Cardinality({n \in 1..Len(planRuns) : planRuns[n].origin = k}) <= 1

\* The client exits with success only for a finished run of the plan it was
\* started for, queued under its own key, with a result stored for every case
\* that was not skipped (workflow.py:14-48, views_ai_access.py:253-264).
CompletionIsReal ==
    \A a \in Clients : client[a].exit = "completed" =>
      LET r == planRuns[client[a].run] IN
      /\ r.origin = client[a].idem /\ r.plan = client[a].plan
      /\ r.status = "done" /\ r.results = RunCases - r.skipped /\ r.results > 0

\* Whatever is lost, repeated or revoked, a submission takes effect once and the
\* client reports completion only of what completed.
AgentCallsExact == EffectOnce /\ CompletionIsReal
====
