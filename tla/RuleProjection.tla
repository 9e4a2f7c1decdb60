---------------------------- MODULE RuleProjection ----------------------------
(***************************************************************************)
(* apiAnalysis/tool/unified_rule_analysis.py over apiAnalysis/rule: a      *)
(* project is read into facts, the RuleSpecs are evaluated over them, the  *)
(* outputs are written in the order of their keys with a cursor every      *)
(* ProjectionBatch of them, and plan drafts are made of the pairs and      *)
(* chains.  A run that crashed reads the project again and goes on behind  *)
(* its cursor if the watermark of the input is the one it recorded.        *)
(* People classify endpoints meanwhile.  The claims and leases of the      *)
(* queue are those of RelationAnalysis; here one worker has one run.       *)
(***************************************************************************)
EXTENDS Integers, Sequences, FiniteSets, SequencesExt

CONSTANTS
    RuleProjects,     \* projects to start from: endpoints, docs, archive, ...
    NameClass,        \* what a parameter name says: category, "id" or "other"
    ManualActions,    \* actions a person gives
    ProjectionBatch,  \* outputs between two cursors (100)
    MaxMatches,       \* safety.max_matches of a rule
    MaxRuleRuns,      \* bound on the runs
    MaxCrashes,       \* bound on the crashes
    MaxClassings      \* bound on the classifications by people

\* Endpoints and documents are finitely many, and told apart by their numbers.
ASSUME RuleAssumption ==
    \A p \in RuleProjects :
       /\ IsFiniteSet(DOMAIN p.endpoints) /\ DOMAIN p.endpoints \subseteq Nat
       /\ IsFiniteSet(p.docs)
       /\ p.docs \subseteq [id : Nat, endpoint : Nat, dir : {"request", "response"}, name : Nat, pos : Nat,
                           path : Nat, vals : SUBSET Nat, type : STRING, located : BOOLEAN]
       /\ \A d, e \in p.docs : d.id = e.id => d = e

VARIABLES
    project,     \* the imported facts, which stay
    endpointRows, \* raw_data: [action, rule] per endpoint
    roles,       \* idor_parameter_candidate, by its unique fields
    relations,   \* parameter_relation, by endpoints and names
    drafts,      \* per resource family the digests of its draft versions
    ruleRun,     \* the run's document: [status, watermark, cursor, error]
    work,        \* the worker: [pc, mark, outputs, read, at]
    people,      \* per endpoint the action a person gave last, "" for none
    ruleCounts   \* [runs, crashes, classings]

ruleVars == <<project, endpointRows, roles, relations, drafts, ruleRun, work, people, ruleCounts>>

Endpoints == DOMAIN project.endpoints

-----------------------------------------------------------------------------
(* Facts.                                                                  *)

\* endpoint_fact_from_document: who classified, by the prefix of the rule.
ClassifiedBy(asset) ==
    IF asset.action = "" THEN "none"
    ELSE IF asset.rule = "abstract_rule" THEN "machine" ELSE "manual"

\* classify_endpoint_detail: the points of an action.
Points(e, action) ==
    LET method ==
          CASE e.method = "GET" /\ action = "query" -> 35
            [] e.method = "DELETE" /\ action = "delete" -> 35
            [] e.method \in {"PUT", "PATCH"} /\ action = "modify" -> 35
            [] e.method = "POST" /\ action = "create" -> 25
            [] e.method = "POST" /\ action = "modify" -> 10
            [] OTHER -> 0
        word == IF action \notin e.words THEN 0
                ELSE CASE action = "auth" -> 60
                       [] action \in {"download", "upload"} -> 55
                       [] action = "query" -> 35
                       [] OTHER -> 45
        body == IF e.body /\ action \in {"create", "modify"} THEN 10 ELSE 0
        status == IF ~e.created THEN 0
                  ELSE IF action \in {"create", "modify"} THEN 8
                  ELSE IF action = "delete" THEN 6 ELSE 0
    IN  method + word + body + status

\* The first of the best; below 40 points a query.
Classify(e) ==
    LET order == <<"auth", "download", "upload", "delete", "modify", "create", "query">>
        best == CHOOSE i \in DOMAIN order :
                  /\ \A j \in DOMAIN order : Points(e, order[j]) <= Points(e, order[i])
                  /\ \A j \in 1..(i - 1) : Points(e, order[j]) < Points(e, order[i])
    IN  IF Points(e, order[best]) < 40 THEN "query" ELSE order[best]

\* classify_parameter_category: the name first, then few small values.
Category(p) ==
    LET class == NameClass[p.name]
        small == p.vals # {} /\ \A v \in p.vals : v <= 10
    IN  IF class \notin {"id", "other"} THEN class
        ELSE IF small THEN "generic_enum"
        ELSE IF class = "id" THEN "resource" ELSE "unknown"

\* _parameter_facts: documents without a typed locator are skipped.
ParameterFacts == {p \in project.docs : p.located}

\* _archive_value_index: every row of the revision that names the parameter
\* and the endpoint gives all its values of that direction.
ArchiveValues(p) ==
    UNION {r.vals[p.dir] : r \in {r \in project.archive :
              r.revision = project.profile /\ r.name = p.name /\ p.endpoint \in r.paths[p.dir]}}

\* load_shadow_projection: the documents with the values of the archive, for
\* a profile with a revision; without values there is no fact.
RelationFacts ==
    IF project.profile = "" THEN {}
    ELSE {q \in {[p EXCEPT !.vals = ArchiveValues(p)] : p \in project.docs} :
            q.vals # {} /\ q.located}

-----------------------------------------------------------------------------
(* P0: classifications and relations of parameters.                        *)

Blocked == {"auth_session", "dynamic", "pagination_filter", "generic_enum"}

TypeCompatible(p, q) ==
    \/ p.type = q.type \/ "unknown" \in {p.type, q.type}
    \/ {p.type, q.type} \subseteq {"integer", "number"}

RelationKinds == {"weak_candidate", "alias_candidate", "insufficient_evidence"}

\* The predicates the three relation rules share.
Relatable(p, q) ==
    /\ p.dir = "response" /\ q.dir = "request"
    /\ p.endpoint # q.endpoint
    /\ Category(p) \notin Blocked /\ Category(q) \notin Blocked
    /\ TypeCompatible(p, q)

\* parameter_weak_relation, parameter_alias_candidate, parameter_empty_intersection.
RelationRules(p, q) ==
    IF ~Relatable(p, q) THEN {}
    ELSE {r \in RelationKinds :
            CASE r = "weak_candidate" -> p.name = q.name /\ p.vals \cap q.vals # {}
              [] r = "alias_candidate" -> p.name # q.name /\ p.vals \cap q.vals # {}
              [] OTHER -> p.name = q.name /\ p.vals # {} /\ q.vals # {} /\ p.vals \cap q.vals = {}}

RelationOutputs ==
    {m \in [src : RelationFacts, tgt : RelationFacts, relation : RelationKinds] :
        m.relation \in RelationRules(m.src, m.tgt)}

\* _emit_endpoint: a person's action stays.
ApplyAllowed(asset) == ClassifiedBy(asset) # "manual"

\* Mutant: the actions as they are stored.
EffectiveAsStored(read) == [e \in Endpoints |-> read[e].action]

\* effective_endpoint_facts: what the endpoints will be classified as.
Effective(read) ==
    [e \in Endpoints |-> IF ApplyAllowed(read[e]) THEN Classify(project.endpoints[e])
                         ELSE read[e].action]

-----------------------------------------------------------------------------
(* P1: pairs of endpoints, chains of resources, pairs of principals.       *)

\* _operation: the action, or else the method and the end of the path.
Operation(e, action) ==
    LET byAction == [query |-> "list", create |-> "create", modify |-> "update",
                     delete |-> "delete", detail |-> "detail"]
    IN  IF action \in DOMAIN byAction THEN byAction[action]
        ELSE CASE e.method = "GET" -> IF Last(e.segs) = "{}" THEN "detail" ELSE "list"
               [] e.method = "POST" -> "create"
               [] e.method \in {"PUT", "PATCH"} -> "update"
               [] e.method = "DELETE" -> "delete"
               [] OTHER -> "unknown"

\* _family: the path without a last parameter and a last verb.
Family(e) ==
    LET cut(s, ends) == IF s # <<>> /\ Last(s) \in ends THEN Front(s) ELSE s
    IN  cut(cut(e.segs, {"{}"}), {"create", "update", "delete", "detail", "list", "search"})

\* build_endpoint_pair_facts and endpoint_pair.crud_compatible.
EndpointPairs(effective) ==
    LET op(e) == Operation(project.endpoints[e], effective[e])
        family(e) == Family(project.endpoints[e])
        pair(e, f) == /\ e < f /\ family(e) = family(f) /\ family(e) # <<>>
                      /\ op(e) # op(f) /\ "unknown" \notin {op(e), op(f)}
                      /\ {op(e), op(f)} \cap {"create", "update", "delete"} # {}
    IN  {[left |-> c[1], right |-> c[2], ops |-> <<op(c[1]), op(c[2])>>, family |-> family(c[1])] :
           c \in {c \in Endpoints \X Endpoints : pair(c[1], c[2])}}

\* build_resource_chain_facts: a path and one that is up to two segments longer.
PathChains ==
    {c \in Endpoints \X Endpoints :
        LET s == project.endpoints[c[1]].segs  t == project.endpoints[c[2]].segs
        IN  IsStrictPrefix(s, t) /\ Len(t) - Len(s) <= 2}

\* _relation_resource_chains: a resource id of a response in another request.
RelationChains ==
    {<<m.src.endpoint, m.tgt.endpoint>> : m \in {m \in RelationOutputs :
        /\ Category(m.src) = "resource" /\ Category(m.tgt) = "resource"
        /\ m.relation # "insufficient_evidence"}}

\* resource_chain.eligible drops an empty family.
ResourceChains ==
    {c \in PathChains \cup RelationChains :
        /\ Family(project.endpoints[c[1]]) # <<>> /\ Family(project.endpoints[c[2]]) # <<>>}

\* principal_pair_relations.
PrincipalRelations(s, t) ==
    IF s.id = t.id THEN {"same_principal"}
    ELSE {r \in {"same_profile", "same_scope", "different_scope",
                 "higher_privilege", "lower_privilege", "peer"} :
            CASE r = "same_profile" -> s.revision # "" /\ s.revision = t.revision
              [] r = "same_scope" -> s.scope # "" /\ s.scope = t.scope
              [] r = "different_scope" -> s.scope # t.scope
              [] r = "higher_privilege" -> s.rank > t.rank
              [] r = "lower_privilege" -> s.rank < t.rank
              [] OTHER -> s.rank = t.rank}

PrincipalPairs ==
    UNION {{<<c[1].id, c[2].id, r>> : r \in PrincipalRelations(c[1], c[2])} :
             c \in project.principals \X project.principals}

-----------------------------------------------------------------------------
(* The watermark and the outputs in the order of their keys.               *)

\* endpoint_watermark_rows: only what people classified counts as input.
WatermarkRow(asset) == IF ClassifiedBy(asset) = "manual" THEN asset.action ELSE ""

Watermark(read) ==
    [rows |-> [e \in Endpoints |-> WatermarkRow(read[e])],
     pairs |-> EndpointPairs(Effective(read)), chains |-> PathChains \cup RelationChains,
     principals |-> PrincipalPairs, parameters |-> ParameterFacts, archive |-> RelationFacts]

\* evaluate: more matches than the rule allows raise, nothing is truncated.
WithinBudget ==
    \A r \in RelationKinds :
        Cardinality({m \in RelationOutputs : m.relation = r}) <= MaxMatches

\* _operation_rows: kind of output first; insufficient_evidence is not written.
Outputs(read) ==
    {[key |-> <<1, e, 0, 0>>, order |-> 0, endpoint |-> e,
      action |-> Classify(project.endpoints[e]), allowed |-> ApplyAllowed(read[e])] : e \in Endpoints}
    \cup {[key |-> <<2, m.src.id, m.tgt.id, 0>>, order |-> 0,
           row |-> [src |-> m.src.endpoint, tgt |-> m.tgt.endpoint,
                    srcName |-> m.src.name, tgtName |-> m.tgt.name]] :
            m \in {m \in RelationOutputs : m.relation # "insufficient_evidence"}}
    \cup {[key |-> <<3, p.endpoint, p.pos, p.name>>, order |-> p.id,
           row |-> [endpoint |-> p.endpoint, name |-> p.name, pos |-> p.pos,
                    dir |-> p.dir, path |-> p.path, role |-> Category(p)]] : p \in ParameterFacts}

KeyLess(k, l) == \E i \in 1..4 : k[i] < l[i] /\ \A j \in 1..(i - 1) : k[j] = l[j]

\* sorted is stable: outputs of one key stay in the order of their facts.
Ordered(outputs) ==
    LET before(o, p) == KeyLess(o.key, p.key) \/ (o.key = p.key /\ o.order < p.order)
    IN  [i \in 1..Cardinality(outputs) |->
           CHOOSE o \in outputs : Cardinality({p \in outputs : before(p, o)}) = i - 1]

-----------------------------------------------------------------------------
(* The run.                                                                *)

NoKey == <<0, 0, 0, 0>>
Away  == [pc |-> "away"]

\* parameter_analysis.enqueue_relation_analysis.
StartRuleRun ==
    /\ ruleRun.status \in {"none", "done", "failed"}
    /\ ruleCounts.runs < MaxRuleRuns
    /\ ruleRun' = [status |-> "active", mark |-> {}, cursor |-> NoKey, error |-> ""]
    /\ ruleCounts' = [ruleCounts EXCEPT !.runs = @ + 1]
    /\ UNCHANGED <<project, endpointRows, roles, relations, drafts, work, people>>

\* The run ends.
RuleRunEnded(status, error) == ruleRun' = [ruleRun EXCEPT !.status = status, !.error = error]

\* resume_after: every output up to the cursor's key is skipped.
ResumedAfter(outputs, cursor) == {o \in outputs : KeyLess(cursor, o.key)}

\* analyze_project and the first part of execute: the project is read, a
\* changed watermark refused, and what is left to write determined.
AnalyzeProject ==
    /\ ruleRun.status = "active" /\ work.pc = "away"
    /\ LET mark == Watermark(endpointRows) IN
       IF ~WithinBudget THEN RuleRunEnded("failed", "budget") /\ UNCHANGED work
       ELSE IF ruleRun.mark \notin {{}, {mark}} THEN RuleRunEnded("failed", "input") /\ UNCHANGED work
       ELSE /\ ruleRun' = [ruleRun EXCEPT !.mark = {mark}]
            /\ work' = [pc |-> "write", read |-> endpointRows, count |-> 0,
                        todo |-> Ordered(ResumedAfter(Outputs(endpointRows), ruleRun.cursor))]
    /\ UNCHANGED <<project, endpointRows, roles, relations, drafts, people, ruleCounts>>

\* A classification: decided on the document as it was read.
WriteClass(o) ==
    /\ endpointRows' = IF o.allowed /\ ApplyAllowed(work.read[o.endpoint])
                       THEN [endpointRows EXCEPT ![o.endpoint] =
                         [action |-> o.action, rule |-> "abstract_rule"]]
                       ELSE endpointRows
    /\ UNCHANGED <<roles, relations>>

\* A relation is only created, a role is created or its machine fields set.
WriteRelation(o) == relations' = relations \cup {o.row} /\ UNCHANGED <<endpointRows, roles>>
WriteRole(o)     == roles' = roles \cup {o.row} /\ UNCHANGED <<endpointRows, relations>>

\* persist_typed_outputs: one output, and the cursor after every batch.
PersistOutput ==
    /\ work.pc = "write" /\ work.todo # <<>>
    /\ LET o == Head(work.todo) IN
          /\ CASE o.key[1] = 1 -> WriteClass(o)
               [] o.key[1] = 2 -> WriteRelation(o)
               [] OTHER -> WriteRole(o)
          /\ ruleRun' = IF work.count + 1 = ProjectionBatch
                        THEN [ruleRun EXCEPT !.cursor = o.key] ELSE ruleRun
          /\ work' = [work EXCEPT !.todo = Tail(@), !.count = (@ + 1) % ProjectionBatch]
    /\ UNCHANGED <<project, drafts, people, ruleCounts>>

\* _draft_candidates_from_matches: per family the endpoints of pairs and chains.
DraftGroups(read) ==
    LET pairs == EndpointPairs(Effective(read))
        chains == {[ends |-> {c[1], c[2]}, family |-> Family(project.endpoints[c[2]])] : c \in ResourceChains}
        rows == Watermark(read).rows
    IN  [f \in {p.family : p \in pairs} \cup {c.family : c \in chains} |->
           [mark |-> rows, ops |-> {p \in pairs : p.family = f},
            pathids |-> UNION {{p.left, p.right} : p \in {p \in pairs : p.family = f}}
                        \cup UNION {c.ends : c \in {c \in chains : c.family = f}}]]

\* A draft of the same digest, whatever its version.
DraftKnown(f, digest) == digest \in {drafts[f][i] : i \in DOMAIN drafts[f]}

DraftsDue ==
    LET groups == DraftGroups(work.read)
    IN  {<<f, groups[f]>> : f \in {f \in DOMAIN groups : ~DraftKnown(f, groups[f])}}

\* create_non_executable_plan_drafts: one family, a first or a next version.
CreateDraft ==
    /\ work.pc = "write" /\ work.todo = <<>>
    /\ \E due \in DraftsDue : drafts' = [drafts EXCEPT ![due[1]] = Append(@, due[2])]
    /\ UNCHANGED <<project, endpointRows, roles, relations, ruleRun, work, people, ruleCounts>>

\* The last part of execute.
FinishRun ==
    /\ work.pc = "write" /\ work.todo = <<>> /\ DraftsDue = {}
    /\ RuleRunEnded("done", "")
    /\ work' = Away
    /\ UNCHANGED <<project, endpointRows, roles, relations, drafts, people, ruleCounts>>

\* The worker dies; the run is recovered and claimed again.
CrashRun ==
    /\ work.pc = "write" /\ ruleCounts.crashes < MaxCrashes
    /\ work' = Away
    /\ ruleCounts' = [ruleCounts EXCEPT !.crashes = @ + 1]
    /\ UNCHANGED <<project, endpointRows, roles, relations, drafts, ruleRun, people>>

\* A person edits an endpoint, with or without its rule field.
ClassifyByHand(e) ==
    /\ ruleCounts.classings < MaxClassings
    /\ \E a \in ManualActions, rule \in {endpointRows[e].rule, "manual"} :
          /\ endpointRows' = [endpointRows EXCEPT ![e] = [action |-> a, rule |-> rule]]
          /\ people' = [people EXCEPT ![e] = a]
    /\ ruleCounts' = [ruleCounts EXCEPT !.classings = @ + 1]
    /\ UNCHANGED <<project, roles, relations, drafts, ruleRun, work>>

-----------------------------------------------------------------------------
RuleInit ==
    /\ project \in RuleProjects
    /\ endpointRows = [e \in Endpoints |-> [action |-> "", rule |-> ""]]
    /\ roles = {} /\ relations = {}
    /\ drafts = [f \in {Family(project.endpoints[e]) : e \in Endpoints} |-> <<>>]
    /\ ruleRun = [status |-> "none", mark |-> {}, cursor |-> NoKey, error |-> ""]
    /\ work = Away
    /\ people = [e \in Endpoints |-> ""]
    /\ ruleCounts = [runs |-> 0, crashes |-> 0, classings |-> 0]

RuleNext ==
    \/ StartRuleRun \/ AnalyzeProject \/ PersistOutput \/ CreateDraft \/ FinishRun \/ CrashRun
    \/ \E e \in Endpoints : ClassifyByHand(e)

-----------------------------------------------------------------------------
(* Properties.                                                             *)

\* What a run itself writes never makes its own input look changed: without
\* a classification by a person, a run resumed after any crash is accepted.
ResumeIsAccepted == ruleRun.error = "input" => ruleCounts.classings > 0

Written(o) ==
    CASE o.key[1] = 1 -> o.allowed => endpointRows[o.endpoint] = [action |-> o.action, rule |-> "abstract_rule"]
      [] o.key[1] = 2 -> o.row \in relations
      [] OTHER -> o.row \in roles

\* A run that is done has written every output whose key no other output
\* has, through crashes and resumed cursors.
DoneIsProjected ==
    (ruleRun.status = "done" /\ ruleCounts.classings = 0) =>
        LET outputs == Outputs(endpointRows) IN
        \A o \in outputs : (\A p \in outputs : p.key = o.key => p = o) => Written(o)

\* One analysis of one input makes one draft of a family, however often the
\* input changes and comes back and the worker dies among the drafts.
DraftsAreDistinct ==
    \A f \in DOMAIN drafts : \A i, j \in DOMAIN drafts[f] :
        drafts[f][i] = drafts[f][j] => i = j

\* An interrupted projection is accepted when it resumes, a finished one has
\* written everything, and neither crashes nor returning inputs double a draft.
ProjectionSound == ResumeIsAccepted /\ DoneIsProjected /\ DraftsAreDistinct

\* docs/abstract_rule_analysis_framework.md: 人工分类 ... 不会被覆盖, what a
\* person classified is not overwritten.
ManualClassHolds == \A e \in Endpoints : people[e] # "" => endpointRows[e].action = people[e]

\* docs/abstract_rule_analysis_framework.md: 支持完整项目的持久化游标 ... 恢复, a
\* resumed run covers the whole project, roles that share a key included.
ResumeIsComplete ==
    (ruleRun.status = "done" /\ ruleCounts.classings = 0) =>
        \A o \in Outputs(endpointRows) : Written(o)
=============================================================================
