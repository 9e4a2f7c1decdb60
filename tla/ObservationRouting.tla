---- MODULE ObservationRouting ----
\* How captured traffic is routed to projects (tool/project_routing.py,
\* tool/observation_store.py, tool/data_source_routing.py, the importers of
\* db/save.py, import_pipeline.py and web/views_data_source.py).
\* One data source captures one request again and again, on one host. An import
\* thread routes it, records the project's asset and sample, and then stores
\* the observation with its decision; an operator corrects decisions meanwhile.
\* Environments are left out: every environment of the code is the empty one.
EXTENDS Naturals, Sequences, FiniteSets

CONSTANTS
    Projects,       \* active projects
    Importers,      \* import threads
    HostRules,      \* [Projects -> Nat]: score of a binding's host rule, 0 for none
    MaxImports,     \* bound: imports started
    MaxDecisions    \* bound: decisions kept per observation

ASSUME RoutingAssumption ==
    /\ IsFiniteSet(Projects) /\ IsFiniteSet(Importers)
    /\ HostRules \in [Projects -> {0, 65, 82}]
    /\ MaxImports \in Nat /\ MaxDecisions \in Nat

VARIABLES
    assets,      \* raw_data by identity: scoped by project, from traffic or a document
    samples,     \* request_sample of the traffic asset of a scope
    sampleOf,    \* the sample the "sampled" observation was created with
    decisions,   \* ObservationRoutingDecision rows per observation, oldest first
    bindings,    \* ProjectSourceBinding of the source per project
    links,       \* observation_ids of ProjectAssetLink per project and asset
    imports,     \* what each import thread is doing
    started      \* imports started so far

routingVars == <<assets, samples, sampleOf, decisions, bindings, links, imports, started>>

NoProject == "no project"
Owners == Projects \cup {NoProject}
\* The observation id hashes the sample signature, which a routed request has.
Obs == {"bare", "sampled"}
AssetIds == Projects \X {"traffic", "document"}

Missing == [there |-> FALSE, project |-> NoProject]
Owned(p) == [there |-> TRUE, project |-> p]
NoDecision == [manual |-> FALSE, decision |-> "none", project |-> NoProject]
Idle == [pc |-> "idle", explicit |-> NoProject, routed |-> NoDecision,
         kept |-> NoDecision, isNew |-> FALSE, seen |-> 0]

Latest(o) == IF decisions[o] = <<>> THEN NoDecision ELSE decisions[o][Len(decisions[o])]
Final(d) == d.decision \in {"assigned", "ignored"}

RoutingInit ==
    /\ assets = [a \in AssetIds |-> Missing]
    /\ samples = [p \in Projects |-> Missing]
    /\ sampleOf = NoProject
    /\ decisions = [o \in Obs |-> <<>>]
    /\ bindings = [p \in Projects |->
                     [there |-> HostRules[p] > 0, active |-> HostRules[p] > 0, taught |-> FALSE]]
    /\ links = [p \in Projects |-> [a \in AssetIds |-> {}]]
    /\ imports = [i \in Importers |-> Idle]
    /\ started = 0

----
\* route_observation.

\* Assets share method and signature (decide_project selects them so) and host.
AssetScore(p) == IF \E a \in AssetIds : assets[a] = Owned(p) THEN 98 ELSE 0

BindingScore(p) ==
    IF ~bindings[p].active THEN 0
    ELSE IF bindings[p].taught THEN 99 ELSE HostRules[p]

Score(p) == IF AssetScore(p) > BindingScore(p) THEN AssetScore(p) ELSE BindingScore(p)
AutoAssignThreshold == 80

Automatic(decision, p) == [manual |-> FALSE, decision |-> decision, project |-> p]

RouteObservation(explicit) ==
    IF explicit # NoProject THEN Automatic("assigned", explicit)
    ELSE LET top == {p \in Projects : \A q \in Projects : Score(q) <= Score(p)}
             best == CHOOSE p \in top : TRUE
             tied == {p \in Projects : Score(p) > 0 /\ Score(best) < Score(p) + 2}
         IN IF Score(best) < AutoAssignThreshold THEN Automatic("unassigned", NoProject)
            ELSE IF Cardinality(tied) > 1 THEN Automatic("ambiguous", NoProject)
            ELSE Automatic("assigned", best)

----
\* Imports.

\* ensure_source_binding: an existing binding is activated again as it was.
EnsureBinding(b, p) == [b EXCEPT ![p] = [there |-> TRUE, active |-> TRUE, taught |-> b[p].taught]]

\* process_import_batch gives the assets of an explicit import to its project;
\* links carry observations only, so an "owned" link is the owner of the asset.
GiveTo(a, p) == [assets EXCEPT ![a] = IF p = NoProject THEN @ ELSE Owned(p)]

\* start_import_run: the run record of the import.
StartRun(explicit) == [Idle EXCEPT !.pc = "decide", !.explicit = explicit]

\* execute_import of a HAR or mitmproxy capture.
StartImport(i, explicit) ==
    /\ imports[i].pc = "idle" /\ started < MaxImports
    /\ started' = started + 1
    /\ bindings' = IF explicit = NoProject THEN bindings ELSE EnsureBinding(bindings, explicit)
    /\ imports' = [imports EXCEPT ![i] = StartRun(explicit)]
    /\ UNCHANGED <<assets, samples, sampleOf, decisions, links>>

\* decide_project reads the project's assets and the source's bindings.
Decide(i) ==
    /\ imports[i].pc = "decide"
    /\ LET routed == RouteObservation(imports[i].explicit)
       IN imports' = [imports EXCEPT ![i].routed = routed,
                        ![i].pc = IF routed.project = NoProject THEN "look" ELSE "record"]
    /\ UNCHANGED <<assets, samples, sampleOf, decisions, bindings, links, started>>

\* save_request_sample: one sample per asset here, so its limit of 10 is not met.
SampledFor(p) == [samples EXCEPT ![p] = Owned(p)]

\* The asset of the routed project is created or claimed, and so is its sample.
Record(i) ==
    /\ imports[i].pc = "record"
    /\ LET p == imports[i].routed.project
       IN /\ assets' = [assets EXCEPT ![<<p, "traffic">>] = Owned(p)]
          /\ samples' = SampledFor(p)
    /\ imports' = [imports EXCEPT ![i].pc = "look"]
    /\ UNCHANGED <<sampleOf, decisions, bindings, links, started>>

ObservationOf(i) == IF imports[i].routed.project = NoProject THEN "bare" ELSE "sampled"

\* The v1 decision stored first is used again; manual final decisions win.
StoredAutomatic(o) == {k \in DOMAIN decisions[o] : ~decisions[o][k].manual}
FirstStored(o) == decisions[o][CHOOSE k \in StoredAutomatic(o) : \A j \in StoredAutomatic(o) : k <= j]

\* Mutant: the stored automatic decision wins over a correction.
KeptDecisionAuto(i, o) ==
    IF StoredAutomatic(o) # {} THEN FirstStored(o) ELSE imports[i].routed

KeptDecision(i, o) ==
    IF Latest(o).manual /\ Final(Latest(o)) THEN Latest(o)
    ELSE IF StoredAutomatic(o) # {} THEN FirstStored(o)
    ELSE imports[i].routed

\* save_observation up to the lookup of the stored decision.
LookUp(i) ==
    /\ imports[i].pc = "look"
    /\ LET o == ObservationOf(i) IN
       /\ sampleOf' = IF o = "sampled" /\ sampleOf = NoProject
                      THEN imports[i].routed.project ELSE sampleOf
       /\ imports' = [imports EXCEPT ![i].pc = "store", ![i].kept = KeptDecision(i, o),
                        ![i].isNew = decisions[o] = <<>>, ![i].seen = Len(decisions[o])]
    /\ UNCHANGED <<assets, samples, decisions, bindings, links, started>>

\* The rest of save_observation: the decision, then the link and the sample.
Store(i) ==
    /\ imports[i].pc = "store"
    /\ LET o == ObservationOf(i)
           scope == imports[i].routed.project
           p == imports[i].kept.project
       IN /\ imports[i].isNew => Len(decisions[o]) < MaxDecisions
          /\ decisions' = IF imports[i].isNew
                          THEN [decisions EXCEPT ![o] = Append(@, imports[i].kept)]
                          ELSE decisions
          /\ IF p # NoProject /\ scope # NoProject
             THEN /\ links' = [links EXCEPT ![p][<<scope, "traffic">>] = @ \cup {o}]
                  /\ samples' = [samples EXCEPT ![scope].project = p]
             ELSE UNCHANGED <<links, samples>>
    /\ imports' = [imports EXCEPT ![i].pc = "batch"]
    /\ UNCHANGED <<assets, sampleOf, bindings, started>>

\* process_import_batch and finish_import_run.
FinishImport(i) ==
    /\ imports[i].pc = "batch"
    /\ assets' = IF imports[i].routed.project = NoProject THEN assets
                 ELSE GiveTo(<<imports[i].routed.project, "traffic">>, imports[i].explicit)
    /\ imports' = [imports EXCEPT ![i] = Idle]
    /\ UNCHANGED <<samples, sampleOf, decisions, bindings, links, started>>

\* An exception anywhere in the import: the run is finished as failed and what
\* was written stays.
FailImport(i) ==
    /\ imports[i].pc # "idle"
    /\ imports' = [imports EXCEPT ![i] = Idle]
    /\ UNCHANGED <<assets, samples, sampleOf, decisions, bindings, links, started>>

\* _ensure_raw_data: the asset of a document belongs to the document's project.
DocumentAsset(p) == GiveTo(<<p, "document">>, p)

\* An OpenAPI or Postman document that describes the same interface.
ImportDocument(p) ==
    /\ started < MaxImports
    /\ started' = started + 1
    /\ bindings' = EnsureBinding(bindings, p)
    /\ assets' = DocumentAsset(p)
    /\ UNCHANGED <<samples, sampleOf, decisions, links, imports>>

----
\* The operator's corrections; each is one request of the routing page.

Unteach(b, p) == IF p # NoProject /\ b[p].active THEN [b EXCEPT ![p].taught = FALSE] ELSE b

\* _detach_old_asset_link of observation o from project p.
DetachedSample(o, p) ==
    [s \in Projects |-> IF o = "sampled" /\ s = sampleOf /\ samples[s].project = p
                        THEN [samples[s] EXCEPT !.project = NoProject] ELSE samples[s]]

DetachedAsset(o, p) ==
    [a \in AssetIds |-> IF o = "sampled" /\ a = <<sampleOf, "traffic">> /\ assets[a].project = p
                        THEN [assets[a] EXCEPT !.project = NoProject] ELSE assets[a]]

DetachedLinks(o, p) ==
    [q \in Projects |-> [a \in AssetIds |->
        IF q = p /\ o = "sampled" /\ a = <<sampleOf, "traffic">>
        THEN links[q][a] \ {o} ELSE links[q][a]]]

ManualDecision(decision, p) == [manual |-> TRUE, decision |-> decision, project |-> p]

\* _promote_existing_sample after the decision; only "sampled" has a sample.
Promote(o, p, before) ==
    IF o = "bare" \/ sampleOf = NoProject THEN UNCHANGED <<assets, samples, links>>
    ELSE LET moved == before # NoProject /\ before # p
             mine == <<sampleOf, "traffic">>
             free == assets[mine].project \in {NoProject, before}
             from == IF moved THEN DetachedLinks(o, before) ELSE links
             kept == IF moved THEN DetachedAsset(o, before) ELSE assets
         IN /\ assets' = IF free THEN [kept EXCEPT ![mine] = Owned(p)] ELSE kept
            /\ samples' = [samples EXCEPT ![sampleOf].project = p]
            /\ links' = [from EXCEPT ![p][mine] = @ \cup {o}]

AssignObservation(o, p, teach, override) ==
    LET d == Latest(o)
        revoked == IF d.decision = "assigned" THEN Unteach(bindings, d.project) ELSE bindings
        bound == EnsureBinding(revoked, p)
    IN /\ decisions[o] # <<>> /\ Len(decisions[o]) < MaxDecisions
       /\ ~(d.decision = "assigned" /\ d.project = p)      \* the same assignment: nothing is done
       /\ Final(d) => override
       /\ bindings' = IF teach THEN [bound EXCEPT ![p].taught = TRUE] ELSE bound
       /\ decisions' = [decisions EXCEPT ![o] = Append(@, ManualDecision("assigned", p))]
       /\ Promote(o, p, d.project)
       /\ UNCHANGED <<sampleOf, imports, started>>

\* _open_group_decisions of the source and host. A routed observation was
\* assigned when it was created, so at most the bare one is open.
OpenGroup == {o \in Obs : Latest(o).decision \in {"unassigned", "ambiguous"}}

AssignRoutingGroup(p, teach) ==
    \E o \in OpenGroup : OpenGroup = {o} /\ AssignObservation(o, p, teach, FALSE)

\* Without a sample nothing is detached.
IgnoreObservation(o, override) ==
    LET d == Latest(o)
        was == d.decision = "assigned"
    IN /\ decisions[o] # <<>> /\ Len(decisions[o]) < MaxDecisions
       /\ d.decision # "ignored"
       /\ was => override
       /\ bindings' = IF was THEN Unteach(bindings, d.project) ELSE bindings
       /\ samples' = IF was THEN DetachedSample(o, d.project) ELSE samples
       /\ assets' = IF was THEN DetachedAsset(o, d.project) ELSE assets
       /\ links' = IF was THEN DetachedLinks(o, d.project) ELSE links
       /\ decisions' = [decisions EXCEPT ![o] = Append(@, ManualDecision("ignored", NoProject))]
       /\ UNCHANGED <<sampleOf, imports, started>>

BindSource(p) ==
    /\ ~bindings[p].active
    /\ bindings' = EnsureBinding(bindings, p)
    /\ UNCHANGED <<assets, samples, sampleOf, decisions, links, imports, started>>

DeactivateSourceBinding(p) ==
    /\ bindings[p].active
    /\ bindings' = [bindings EXCEPT ![p].active = FALSE]
    /\ UNCHANGED <<assets, samples, sampleOf, decisions, links, imports, started>>

RoutingNext ==
    \/ \E i \in Importers :
         \/ \E p \in Owners : StartImport(i, p)
         \/ Decide(i) \/ Record(i) \/ LookUp(i) \/ Store(i) \/ FinishImport(i) \/ FailImport(i)
    \/ \E p \in Projects : ImportDocument(p) \/ BindSource(p) \/ DeactivateSourceBinding(p)
    \/ \E p \in Projects, teach \in BOOLEAN : AssignRoutingGroup(p, teach)
    \/ \E o \in Obs, override \in BOOLEAN :
         \/ IgnoreObservation(o, override)
         \/ \E p \in Projects, teach \in BOOLEAN : AssignObservation(o, p, teach, override)

RoutingSpec == RoutingInit /\ [][RoutingNext]_routingVars

----
\* An import honours the operator: unless somebody decided between its lookup
\* and its write, the observation only enters the asset link of the project its
\* latest decision names, however often the traffic is captured again; except
\* that without a correction two imports that both found the observation new
\* each store a decision, of which the first stays in use
\* (observation_store.py:140-196).
CorrectionHolds ==
    [][\A i \in Importers, p \in Projects, a \in AssetIds :
         LET o == ObservationOf(i) IN
         (/\ imports[i].pc = "store" /\ imports'[i].pc = "batch"
          /\ Len(decisions[o]) = imports[i].seen
          /\ o \in links'[p][a] \ links[p][a]) =>
            \/ Latest(o)'.project = p
            \/ ~Latest(o)'.manual /\ \E j, k \in StoredAutomatic(o)' : j # k]_routingVars

\* docs/data_source_routing_center.md:43-47 ranks a structure confirmed for this
\* source above the assets of projects: the one project that is taught the
\* signature gets the request.
ConfirmedStructureWins ==
    \A p \in Projects :
      (\A q \in Projects : (bindings[q].active /\ bindings[q].taught) <=> q = p)
        => RouteObservation(NoProject).project = p
====
