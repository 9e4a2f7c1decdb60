------------------------- MODULE AuthorizationPolicy -------------------------
(***************************************************************************)
(* apiAnalysis/tool/authorization_policy.py and authorization_matrix.py:   *)
(* versions of one policy (one policy_key), their rules, the one ACTIVE    *)
(* version, and the matrix runs that compare who may read whose resource   *)
(* with what the version expects.  Every operation is a call that reads,   *)
(* then writes; calls of several operators interleave.                     *)
(***************************************************************************)
EXTENDS Integers, Sequences, FiniteSets

CONSTANTS
    PolicyCalls,    \* operators' calls that run at once
    Principals,     \* records [id, role, rank, scope, labels]
    PolicyRules,    \* records [id, priority, owner, subject, scope, decision]
    PolicyDefault,  \* default_decision of the policy
    PolicySame,     \* same_principal_decision
    MaxVersions, MaxPolicyCalls, MaxPolicyChanges, MaxMatrixCases   \* bounds

ASSUME PolicyAssumption ==
    /\ MaxVersions \in Nat /\ MaxPolicyCalls \in Nat /\ MaxPolicyChanges \in Nat
    /\ MaxMatrixCases \in Nat
    /\ {PolicyDefault, PolicySame} \subseteq {"allow", "deny", "review"}

VARIABLES
    versions,    \* AuthorizationPolicy in the order of version: [lifecycle, context]
    policyRules, \* the rules stored for each version
    policyNow,   \* revision of the credentials and relations a version depends on
    policyCall,  \* the calls
    policyUsed,  \* calls so far
    matrixRuns,  \* scheduled matrices: [version, rules, context]
    matrixCases, \* AuthorizationMatrixCase
    published,   \* rules a version had when it was activated
    lateRules    \* versions that an add begun while it was a draft reached after

policyVars == <<versions, policyRules, policyNow, policyCall, policyUsed, matrixRuns,
                matrixCases, published, lateRules>>

-----------------------------------------------------------------------------
(* Expectations                                                            *)

\* selector_matches: every criterion that is given must hold.
SelectorMatches(sel, p) ==
    /\ sel.roles = {} \/ p.role \in sel.roles
    /\ sel.minRank <= p.rank
    /\ sel.labels = {} \/ sel.labels \cap p.labels # {}

\* _scope_relation_matches: no scope is not the same scope.
ScopeMatches(relation, owner, subject) ==
    CASE relation = "same"      -> owner.scope # "" /\ owner.scope = subject.scope
      [] relation = "different" -> owner.scope # subject.scope
      [] relation = "any"       -> TRUE

RuleApplies(r, owner, subject) ==
    /\ ScopeMatches(r.scope, owner, subject)
    /\ SelectorMatches(r.owner, owner) /\ SelectorMatches(r.subject, subject)

\* resolve_authorization_expectation: what an applicable rule of highest priority
\* says, or the default.  Of several the one with the smallest rule_id counts,
\* which is random and drawn anew for a clone.
Expectations(rules, owner, subject) ==
    LET apply == {r \in rules : RuleApplies(r, owner, subject)} IN
    IF apply # {} THEN {r.decision : r \in {t \in apply : \A q \in apply : q.priority <= t.priority}}
    ELSE {IF owner = subject THEN PolicySame ELSE PolicyDefault}

\* expand_authorization_matrix with include_self.
MatrixCells(rules) ==
    {cell \in [owner : Principals, subject : Principals, expected : {"allow", "deny", "review"}] :
        cell.expected \in Expectations(rules, cell.owner, cell.subject)}

\* What a replay of a cell meets: the owner's own read and the subject's.
\* "rest" is any other status, a 2xx answer without a matching field included.
SourceAnswers  == {"ok", "bad"}
SubjectAnswers == {"blocked", "failed", "full", "partial", "rest"}

\* observe_authorization_decision.
ObservedDecision(source, answer) ==
    IF source # "ok" THEN "unknown"
    ELSE CASE answer = "blocked" -> "deny"
           [] answer = "full"    -> "allow"
           [] answer = "partial" -> "allow_partial"
           [] OTHER              -> "unknown"

\* judge_authorization_matrix.
MatrixVerdict(expected, source, answer) ==
    LET seen == ObservedDecision(source, answer) IN
    IF source # "ok" THEN "not_evaluable"
    ELSE CASE expected = "deny"   -> IF seen \in {"allow", "allow_partial"} THEN "potential_vuln"
                                     ELSE IF seen = "deny" THEN "no_vuln" ELSE "need_review"
           [] expected = "allow"  -> IF seen = "allow" THEN "no_vuln" ELSE "need_review"
           [] expected = "review" -> "need_review"

-----------------------------------------------------------------------------
(* Calls                                                                   *)

PolicyIdle == [op |-> "idle"]
PolicyGo(c, call) == policyCall' = [policyCall EXCEPT ![c] = call]
PolicyBegin(c, call) ==
    /\ policyCall[c].op = "idle" /\ policyUsed < MaxPolicyCalls
    /\ policyUsed' = policyUsed + 1 /\ PolicyGo(c, call)

ActiveVersions == {v \in DOMAIN versions : versions[v].lifecycle = "active"}

\* create_authorization_policy_version and clone: the number after the latest one
\* is read, with the rules to copy.
CreateVersion(c, todo) ==
    /\ Len(versions) < MaxVersions
    /\ PolicyBegin(c, [op |-> "insert", version |-> Len(versions) + 1, todo |-> todo])
    /\ UNCHANGED <<versions, policyRules, policyNow, matrixRuns, matrixCases, published, lateRules>>

\* policy.save(): the number is unique, a second insert of it raises.
InsertVersion(c) ==
    LET call == policyCall[c] IN
    /\ call.op = "insert"
    /\ IF call.version = Len(versions) + 1
       THEN /\ versions' = Append(versions, [lifecycle |-> "draft", context |-> -1])
            /\ policyRules' = Append(policyRules, {}) /\ published' = Append(published, {})
            /\ PolicyGo(c, [call EXCEPT !.op = "add"])
       ELSE /\ UNCHANGED <<versions, policyRules, published>> /\ PolicyGo(c, PolicyIdle)
    /\ UNCHANGED <<policyNow, policyUsed, matrixRuns, matrixCases, lateRules>>

AddRule(c, v, r) ==
    /\ r \notin policyRules[v]
    /\ PolicyBegin(c, [op |-> "add", version |-> v, todo |-> {r}])
    /\ UNCHANGED <<versions, policyRules, policyNow, matrixRuns, matrixCases, published, lateRules>>

\* add_authorization_policy_rule reads the version: only a draft takes rules.
ReadForAdd(c) ==
    LET call == policyCall[c] IN
    /\ call.op = "add"
    /\ PolicyGo(c, IF call.todo = {} \/ versions[call.version].lifecycle # "draft"
                   THEN PolicyIdle ELSE [call EXCEPT !.op = "save"])
    /\ UNCHANGED <<versions, policyRules, policyNow, policyUsed, matrixRuns, matrixCases,
                   published, lateRules>>

\* rule.save(); a clone goes on with its next rule, by falling priority.
SaveRule(c) ==
    LET call == policyCall[c] IN
    /\ call.op \in {"save", "force"}
    /\ \E r \in call.todo :
          /\ \A q \in call.todo : q.priority <= r.priority
          /\ policyRules' = [policyRules EXCEPT ![call.version] = @ \cup {r}]
          /\ PolicyGo(c, [call EXCEPT !.op = "add", !.todo = @ \ {r}])
    /\ lateRules' = IF call.op = "save" /\ versions[call.version].lifecycle # "draft"
                    THEN lateRules \cup {call.version} ELSE lateRules
    /\ UNCHANGED <<versions, policyNow, policyUsed, matrixRuns, matrixCases, published>>

\* activate_authorization_policy: principals, profiles and relations are checked
\* and their current state is what the version will be frozen to.
Activate(c, v) ==
    /\ versions[v].lifecycle # "archived"
    /\ PolicyBegin(c, [op |-> "archive", version |-> v, context |-> policyNow])
    /\ UNCHANGED <<versions, policyRules, policyNow, matrixRuns, matrixCases, published, lateRules>>

\* The other ACTIVE versions are archived first.
ArchiveOthers(c) ==
    LET call == policyCall[c] IN
    /\ call.op = "archive"
    /\ versions' = [v \in DOMAIN versions |->
                       IF v \in ActiveVersions \ {call.version}
                       THEN [versions[v] EXCEPT !.lifecycle = "archived"] ELSE versions[v]]
    /\ PolicyGo(c, [call EXCEPT !.op = "publish"])
    /\ UNCHANGED <<policyRules, policyNow, policyUsed, matrixRuns, matrixCases, published, lateRules>>

\* Mutant: without the unique index on the ACTIVE version of a policy_key.
PublishUnchecked(c) ==
    LET call == policyCall[c] IN
    /\ call.op = "publish"
    /\ IF versions[call.version].lifecycle = "draft"
       THEN /\ versions' = [versions EXCEPT ![call.version] =
                               [lifecycle |-> "active", context |-> call.context]]
            /\ published' = [published EXCEPT ![call.version] = policyRules[call.version]]
       ELSE UNCHANGED <<versions, published>>
    /\ PolicyGo(c, PolicyIdle)
    /\ UNCHANGED <<policyRules, policyNow, policyUsed, matrixRuns, matrixCases, lateRules>>

\* Then the draft becomes ACTIVE, if it still is a draft; the index that admits
\* one ACTIVE version of a policy_key makes a second one raise.
Publish(c) ==
    LET call == policyCall[c] IN
    /\ call.op = "publish"
    /\ IF versions[call.version].lifecycle = "draft" /\ ActiveVersions = {}
       THEN /\ versions' = [versions EXCEPT ![call.version] =
                               [lifecycle |-> "active", context |-> call.context]]
            /\ published' = [published EXCEPT ![call.version] = policyRules[call.version]]
       ELSE UNCHANGED <<versions, published>>
    /\ PolicyGo(c, PolicyIdle)
    /\ UNCHANGED <<policyRules, policyNow, policyUsed, matrixRuns, matrixCases, lateRules>>

-----------------------------------------------------------------------------
(* Matrix runs                                                             *)

\* schedule_authorization_matrix: the version is ACTIVE and the credentials and
\* relations are those it was frozen to.
ScheduleMatrix(c, v) ==
    /\ versions[v].lifecycle = "active" /\ versions[v].context = policyNow
    /\ PolicyBegin(c, [op |-> "expand", version |-> v, context |-> policyNow])
    /\ UNCHANGED <<versions, policyRules, policyNow, matrixRuns, matrixCases, published, lateRules>>

\* The rules are read and the expanded cells enqueued; the version may have been
\* archived meanwhile.
EnqueueMatrix(c) ==
    LET call == policyCall[c] IN
    /\ call.op = "expand"
    /\ matrixRuns' = Append(matrixRuns, [version |-> call.version, context |-> call.context,
                                         rules |-> policyRules[call.version]])
    /\ PolicyGo(c, PolicyIdle)
    /\ UNCHANGED <<versions, policyRules, policyNow, policyUsed, matrixCases, published, lateRules>>

\* A cell is replayed, judged and recorded once per run and cell.
RunCell(n, cell) ==
    \E source \in SourceAnswers, answer \in SubjectAnswers :
       /\ Cardinality(matrixCases) < MaxMatrixCases
       /\ \A m \in matrixCases : m.run = n => <<m.cell.owner, m.cell.subject>> # <<cell.owner, cell.subject>>
       /\ matrixCases' = matrixCases \cup
             {[run |-> n, cell |-> cell, source |-> source, answer |-> answer,
               verdict |-> MatrixVerdict(cell.expected, source, answer)]}
       /\ UNCHANGED <<versions, policyRules, policyNow, policyCall, policyUsed, matrixRuns,
                      published, lateRules>>

\* An authentication profile or a relation of the version is revised.
PolicyContextChanges ==
    /\ policyNow < MaxPolicyChanges
    /\ policyNow' = policyNow + 1
    /\ UNCHANGED <<versions, policyRules, policyCall, policyUsed, matrixRuns, matrixCases,
                   published, lateRules>>

PolicyInit ==
    /\ versions = << >> /\ policyRules = << >> /\ published = << >>
    /\ policyNow = 0 /\ policyUsed = 0
    /\ policyCall = [c \in PolicyCalls |-> PolicyIdle]
    /\ matrixRuns = << >> /\ matrixCases = {} /\ lateRules = {}

PolicyNext ==
    \/ \E c \in PolicyCalls :
          \/ CreateVersion(c, {})
          \/ \E v \in DOMAIN versions :
                \/ CreateVersion(c, policyRules[v])
                \/ \E r \in PolicyRules : AddRule(c, v, r)
                \/ Activate(c, v)
                \/ ScheduleMatrix(c, v)
          \/ InsertVersion(c)
          \/ ReadForAdd(c)
          \/ SaveRule(c)
          \/ ArchiveOthers(c)
          \/ Publish(c)
          \/ EnqueueMatrix(c)
    \/ \E n \in DOMAIN matrixRuns : \E cell \in MatrixCells(matrixRuns[n].rules) : RunCell(n, cell)
    \/ PolicyContextChanges

PolicySpec == PolicyInit /\ [][PolicyNext]_policyVars

-----------------------------------------------------------------------------
(* Properties.                                                             *)

\* However activations interleave, one version of a policy is ACTIVE at most.
OneActiveVersion == Cardinality(ActiveVersions) <= 1

\* A matrix run uses the rules its version had when it was activated, and the
\* credentials and relations it was frozen to.  Only an add_authorization_policy_rule
\* that read the draft before the activation can still reach the version after it.
MatrixUsesPublishedVersion ==
    \A n \in DOMAIN matrixRuns :
       LET run == matrixRuns[n] IN
       /\ run.version \notin lateRules => run.rules = published[run.version]
       /\ run.context = versions[run.version].context

\* A recorded cell is judged by what its run's rules say of the two principals: a
\* denied subject that got any of the resource is a potential_vuln and nothing else
\* is, and no_vuln stands only for an enforced denial or a granted access.
VerdictFollowsRules ==
    \A m \in matrixCases :
       LET said   == Expectations(matrixRuns[m.run].rules, m.cell.owner, m.cell.subject)
           leaked == m.source = "ok" /\ m.answer \in {"full", "partial"}
       IN  /\ said = {"deny"} /\ leaked => m.verdict = "potential_vuln"
           /\ m.verdict = "potential_vuln" => leaked /\ "deny" \in said
           /\ m.verdict = "no_vuln" =>
                 /\ m.source = "ok"
                 /\ \/ m.answer = "blocked" /\ "deny" \in said
                    \/ m.answer = "full" /\ "allow" \in said

\* One version is in force, runs are frozen to what was published, and cells are
\* judged by those rules, through overlapping edits, activations and clones.
PolicyGoverns == OneActiveVersion /\ MatrixUsesPublishedVersion /\ VerdictFollowsRules
=============================================================================
