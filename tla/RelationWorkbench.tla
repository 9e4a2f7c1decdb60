-------------------------- MODULE RelationWorkbench --------------------------
(***************************************************************************)
(* The parameter relation workbench: apiAnalysis/tool/                     *)
(* parameter_relation_workbench.py, the scheduling and recording half of   *)
(* parameter_validation.py, discover_project_relations of                  *)
(* interface_knowledge.py and the forms of web/views_parameter_workbench   *)
(* .py.  People, imports and the worker write the same relation documents; *)
(* the worker holds a copy of one while it records a result.               *)
(***************************************************************************)
EXTENDS Integers, Sequences, FiniteSets, SequencesExt

CONSTANTS
    RelFields,   \* relations that share one source endpoint
    PairSetups,  \* [pair, mutation, allowed, estimate, auto, first, gap]: the endpoint pair
                 \* of each relation, what pairs and environment allow, the relations
                 \* auto_next preprocesses (20, by id), and whether an input has no value
    Outcomes,    \* statuses a validation case can end with
    MaxSchema,   \* versions of an endpoint's schema
    MaxRelOps,   \* bound on edits, imports and requests to analyse or to validate
    MaxRelRuns   \* bound on validation runs

ASSUME WorkbenchAssumption ==
    /\ \A s \in PairSetups : DOMAIN s.pair = RelFields /\ s.first \subseteq RelFields
    /\ MaxSchema \in Nat /\ MaxRelOps \in Nat /\ MaxRelRuns \in Nat

VARIABLES
    setup,      \* the chosen member of PairSetups
    rel,        \* parameter_relation of each field
    rows,       \* parameter_validation_result, in ctime order
    vruns,      \* validation runs
    exper,      \* process_status of the parameter's experience
    relFixture,    \* per side: revision and mtime (as a length of rows)
    relProfile,    \* revision and mtime of the auth profile
    gap,        \* a required input has no value
    asking,     \* a form of the workbench, between two of its operations
    recording,  \* the worker's copy of a relation inside record_parameter_validation
    relOps,     \* how many of these there were
    byHand      \* relations a person declared trusted

relVars == <<setup, rel, rows, vruns, exper, relFixture, relProfile, gap, asking, recording, relOps,
             byHand>>

Passed     == {"verified", "mutation_verified", "mutation_effect_after_error"}
Successful == Passed \cup {"mutation_accepted"}
SourceRejected   == {"source_request_rejected", "source_auth_rejected"}
ConsumerRejected == {"consumer_request_rejected", "consumer_auth_rejected"}
LiveRun  == {"queued", "running"}
Hidden   == {"rejected", "deleted"}
NotReady == {"needs_context", "needs_data", "needs_correction", "policy_blocked", "rejected", "running"}

None   == "none"
NoCopy == [field |-> None]

\* No form is being handled.  One that is has the relations it loaded (docs), the
\* relations it has yet to treat (todo), those of its endpoint pair (peers), the ones
\* it let into the case, the frozen plan (key) with the run that answers for it, and
\* the number of rows there were when it looked (seen).
NoForm == [stage |-> "idle", action |-> None, field |-> None, approved |-> FALSE, docs |-> <<>>,
           todo |-> {}, peers |-> {}, case |-> {}, key |-> None, run |-> 0, seen |-> 0]

-----------------------------------------------------------------------------
(* preprocess_relation                                                     *)

\* _latest_validation, as an index of rows, 0 without one.
LatestRow(f) == SelectLastInSeq(rows, LAMBDA r : r.field = f)

\* source_request_succeeded
SourceAnswered(status) ==
    status \in Successful \cup ConsumerRejected \cup {"value_not_found", "consumer_failed"}

\* _validation_superseded: the fixture or the profile is newer than the row.
Superseded(i) ==
    CASE rows[i].status = "source_request_rejected"   -> relFixture["source"].at >= i
      [] rows[i].status = "consumer_request_rejected" -> relFixture["consumer"].at >= i
      [] rows[i].status \in {"source_auth_rejected", "consumer_auth_rejected"} -> relProfile.at >= i
      [] OTHER -> FALSE

\* _effective_validation: the relation's own row, unless a later row of the
\* shared source refutes or replaces it.
EffectiveRow(f) ==
    LET source == Len(rows)
        own    == LatestRow(f)
        pair   == IF own # 0 /\ rows[own].status \in SourceRejected /\ source > own
                     /\ SourceAnswered(rows[source].status)
                  THEN 0 ELSE own
        row    == IF source # 0 /\ source >= pair /\ rows[source].status \in SourceRejected
                  THEN source ELSE pair
    IN  IF row # 0 /\ Superseded(row) THEN 0 ELSE row

Effective(f) == IF EffectiveRow(f) = 0 THEN "" ELSE rows[EffectiveRow(f)].status

\* Mutant: the feedback note alone counts, whatever it says.
ScheduledVerifiedNote(r) == r.noted

\* verified, and the note is one that record_parameter_validation writes.
ScheduledVerified(r) == r.verified /\ r.noted

StatusOf(r, latest) ==
    IF r.decision = "deleted" THEN "deleted"
    ELSE IF r.stale THEN "stale"
    ELSE IF r.decision \in {"rejected", "trusted", "needs_data"} THEN r.decision
    ELSE IF r.decision = "stale" THEN "needs_context"
    ELSE IF latest \in Passed \/ ScheduledVerified(r) THEN "verified"
    ELSE IF latest = "mutation_accepted" THEN "accepted"
    ELSE IF setup.mutation /\ ~setup.allowed THEN "policy_blocked"
    ELSE IF latest \in {"source_request_rejected", "consumer_request_rejected"} THEN "needs_data"
    ELSE IF latest \in {"source_auth_rejected", "consumer_auth_rejected"} THEN "needs_context"
    ELSE IF gap THEN "needs_data"
    ELSE IF setup.estimate > setup.auto \/ latest = "host_scope_approval_required"
    THEN "approval_required"
    ELSE IF latest # "" THEN "automatic_failed" ELSE "auto_ready"

Preprocessed(r, f) == [r EXCEPT !.status = StatusOf(r, Effective(f))]

\* sync_relation_experience
Experience(r, old) ==
    IF r.decision = "rejected" THEN "rejected"
    ELSE IF r.decision = "trusted" \/ r.status = "verified" THEN "trusted"
    ELSE IF r.status = "accepted" /\ old # "trusted" THEN "needs_verify"
    ELSE old

\* _relation_case_relations
Peers(f) ==
    LET usable == {g \in RelFields : setup.pair[g] = setup.pair[f] /\ rel[g].decision \notin Hidden}
    IN  IF usable = {} THEN {f} ELSE usable

-----------------------------------------------------------------------------
(* Forms of /parameter-relations and imports                               *)

Edit == relOps < MaxRelOps /\ relOps' = relOps + 1

\* save_mapping
SaveMapping(f, m) ==
    LET r == [rel[f] EXCEPT !.map = m, !.origin = "manual_override", !.verified = FALSE, !.decision = "stale",
                            !.stale = TRUE]
    IN
    /\ Edit /\ rel' = [rel EXCEPT ![f] = Preprocessed(r, f)]
    /\ UNCHANGED <<setup, rows, vruns, exper, relFixture, relProfile, gap, asking, recording, byHand>>

\* delete_relation leaves a tombstone.
DeleteRelation(f) ==
    /\ Edit
    /\ rel' = [rel EXCEPT ![f] = [@ EXCEPT !.decision = "deleted", !.origin = "manual_tombstone",
                                           !.verified = FALSE, !.stale = TRUE, !.status = "deleted"]]
    /\ UNCHANGED <<setup, rows, vruns, exper, relFixture, relProfile, gap, asking, recording, byHand>>

\* save_manual
SaveManual(f, decision) ==
    LET r == [rel[f] EXCEPT !.decision  = IF decision = "reset" THEN "" ELSE decision,
                            !.confirmed = IF decision = "trusted" THEN rel[f].schema ELSE @,
                            !.stale     = @ /\ decision \notin {"trusted", "reset"},
                            !.origin    = IF decision = "reset" /\ @ = "manual_override" THEN "found" ELSE @]
        p == Preprocessed(r, f)
    IN
    /\ Edit
    /\ rel' = [rel EXCEPT ![f] = p]
    /\ exper' = [exper EXCEPT ![f] = Experience(p, @)]
    /\ byHand' = IF decision = "trusted" THEN byHand \cup {f} ELSE byHand
    /\ UNCHANGED <<setup, rows, vruns, relFixture, relProfile, gap, asking, recording>>

\* save_fixture stores the fixture; then it treats the relations of the pair.
SaveRelFixture(f, side, filled) ==
    /\ Edit /\ asking = NoForm
    /\ gap' = (gap /\ ~filled)
    /\ relFixture' = [relFixture EXCEPT ![side] = [rev |-> relOps + 1, at |-> Len(rows)]]
    /\ asking' = [NoForm EXCEPT !.stage = "pair", !.action = "save_fixture", !.field = f]
    /\ UNCHANGED <<setup, rel, rows, vruns, exper, relProfile, recording, byHand>>

\* The auth profile is saved or its login refreshed (project_auth.py).
TouchProfile ==
    /\ Edit /\ relProfile' = [rev |-> relOps + 1, at |-> Len(rows)]
    /\ UNCHANGED <<setup, rel, rows, vruns, exper, relFixture, gap, asking, recording, byHand>>

\* _protected
Protected(r) ==
    r.verified \/ r.decision \in {"trusted", "rejected", "deleted"} \/ r.origin # "found"

\* discover_project_relations after an import that shows schema s of the field
\* (0: gone).  A protected mapping is kept and turns stale; others follow.
Discover(f, s) ==
    LET r == rel[f]
        base == IF r.confirmed = 0 THEN r.schema ELSE r.confirmed
    IN
    /\ Edit
    /\ rel' = [rel EXCEPT ![f] =
         IF s = 0 THEN [r EXCEPT !.stale = TRUE, !.status = "stale"]
         ELSE IF r.decision = "deleted" THEN r
         ELSE IF Protected(r)
         THEN [r EXCEPT !.confirmed = base, !.schema = s, !.stale = @ \/ base # s,
                        !.status = IF base # s THEN "stale" ELSE @]
         ELSE [r EXCEPT !.map = s, !.schema = s, !.stale = FALSE]]
    /\ UNCHANGED <<setup, rows, vruns, exper, relFixture, relProfile, gap, asking, recording, byHand>>

-----------------------------------------------------------------------------
(* Forms of several operations.  One is handled at a time, beside the edits, *)
(* the imports and the worker, which may come between any two of them.       *)

AskRest == UNCHANGED <<setup, rows, exper, relFixture, relProfile, gap, recording, byHand>>

Ask(form) ==
    /\ asking = NoForm /\ relOps < MaxRelOps
    /\ relOps' = relOps + 1
    /\ asking' = form
    /\ UNCHANGED <<rel, vruns>> /\ AskRest

Goes(form) == asking' = form /\ UNCHANGED <<vruns, relOps>> /\ AskRest

\* A loop over relations loaded in one query; the form holds its copies meanwhile.
Loop(form, fs) == [form EXCEPT !.stage = "treat", !.todo = fs, !.docs = [f \in fs |-> rel[f]]]

\* What follows once every loaded relation is treated.
AfterLoop(form) ==
    IF form.todo # {} THEN form
    ELSE IF form.action \in {"auto_next", "validate_relation"} THEN [form EXCEPT !.stage = "freeze"]
    ELSE IF form.action = "scan" THEN [NoForm EXCEPT !.stage = "pick", !.action = "auto_next"]
    ELSE NoForm

\* preprocess_project, in the background.
PreprocessProject == Ask(Loop([NoForm EXCEPT !.action = "preprocess_project"], RelFields))

\* auto_next preprocesses the first relations.
AutoNext == Ask(AfterLoop(Loop([NoForm EXCEPT !.action = "scan"], setup.first)))

\* save_hosts, validate_relation and, approved, approve_validate.
OpenRelation(action, f, approved) ==
    Ask([NoForm EXCEPT !.stage = "pair", !.action = action, !.field = f, !.approved = approved])

\* _relation_case_relations; a hidden relation that was asked about is looked at too.
LoadPair ==
    LET f    == asking.field
        form == [asking EXCEPT !.peers = Peers(f), !.seen = Len(rows)]
    IN
    /\ asking.stage = "pair" /\ UNCHANGED rel
    /\ Goes(Loop(form, Peers(f) \cup IF asking.action = "validate_relation" THEN {f} ELSE {}))

\* save writes what the copy changed, over what others wrote since it was read.
Saved(now, old, new) == [k \in DOMAIN now |-> IF new[k] # old[k] THEN new[k] ELSE now[k]]

\* save_fixture: the pair waits for data no more.
Released(r) == IF asking.action = "save_fixture" /\ r.decision = "needs_data"
               THEN [r EXCEPT !.decision = ""] ELSE r

\* One loaded relation is preprocessed and saved; one of the pair that needs nothing
\* from a person belongs to the case.
Treat(f) ==
    LET old  == asking.docs[f]
        new  == Preprocessed(Released(old), f)
        case == IF f \in asking.peers /\ new.status \notin NotReady THEN {f} ELSE {}
    IN
    /\ asking.stage = "treat" /\ f \in asking.todo
    /\ rel' = [rel EXCEPT ![f] = Saved(@, old, new)]
    /\ Goes(AfterLoop([asking EXCEPT !.todo = @ \ {f}, !.docs[f] = new, !.case = @ \cup case]))

\* auto_next: the first relation that is ready, if any.
PickReady ==
    LET ready == {f \in RelFields : rel[f].status = "auto_ready"} IN
    /\ asking.stage = "pick" /\ UNCHANGED rel
    /\ \/ ready = {} /\ Goes(NoForm)
       \/ \E f \in ready : Goes([asking EXCEPT !.stage = "pair", !.field = f])

\* validate_ready_batch: one batch at a time.
ValidateBatch(approved) ==
    /\ \A i \in 1..Len(vruns) : vruns[i].status \notin LiveRun
    /\ Ask([NoForm EXCEPT !.stage = "select", !.action = "validate_ready_batch", !.approved = approved])

\* select_ready_validation_batch takes the statuses as they stand ...
SelectReady ==
    LET ready == {f \in RelFields : rel[f].status = "auto_ready" /\ rel[f].decision \notin Hidden} IN
    /\ asking.stage = "select" /\ UNCHANGED rel
    /\ Goes(IF ready = {} THEN NoForm
            ELSE [asking EXCEPT !.stage = "blockers", !.docs = [f \in ready |-> rel[f]], !.case = ready])

\* _batch_source_blockers: the shared source last refused, and nothing changed.
SourceBlocked ==
    LET last == Len(rows) IN
    last # 0 /\ rows[last].status \in SourceRejected /\ ~Superseded(last)

\* Mutant: only a refused login blocks the source.
LeavesOutBlockedLoose ==
    /\ asking.stage = "blockers" /\ UNCHANGED rel
    /\ Goes(IF SourceBlocked /\ rows[Len(rows)].status = "source_request_rejected" THEN NoForm
            ELSE [asking EXCEPT !.stage = "freeze", !.seen = Len(rows)])

\* ... and leaves out the pairs of a blocked source: here all of them.
LeavesOutBlocked ==
    /\ asking.stage = "blockers" /\ UNCHANGED rel
    /\ Goes(IF SourceBlocked THEN NoForm ELSE [asking EXCEPT !.stage = "freeze", !.seen = Len(rows)])

-----------------------------------------------------------------------------
(* schedule_validation_batch                                               *)

\* The idempotency key: the frozen plan, the latest rows, the approval.
RunKey(fs, approved, docs) ==
    [fields |-> fs, maps |-> [f \in fs |-> docs[f].map], context |-> <<relFixture, relProfile>>,
     latest |-> [f \in fs |-> LatestRow(f)], approved |-> approved]

\* Requests of a run over the relations fs: each endpoint pair is replayed once.
Requests(fs) == setup.estimate * Cardinality({setup.pair[f] : f \in fs})

\* No case, a relation that needs something from a person, a write nobody allowed, or
\* more requests than an unapproved run may send.
Refused ==
    \/ asking.case = {}
    \/ asking.action = "validate_relation" /\ asking.docs[asking.field].status \in NotReady
    \/ setup.mutation /\ ~setup.allowed
    \/ Requests(asking.case) > setup.auto /\ ~asking.approved

FreezePlan ==
    /\ asking.stage = "freeze" /\ UNCHANGED rel
    /\ Goes(IF Refused THEN NoForm
            ELSE [asking EXCEPT !.stage = "insert",
                                !.key = RunKey(asking.case, asking.approved, asking.docs)])

\* enqueue_snapshot_batch answers with the run that has the key, whatever became of
\* it, else with a new one.
InsertRun ==
    LET same == {i \in 1..Len(vruns) : vruns[i].key = asking.key} IN
    /\ asking.stage = "insert"
    /\ same = {} => Len(vruns) < MaxRelRuns
    /\ vruns' = IF same # {} THEN vruns
                ELSE Append(vruns, [key |-> asking.key, status |-> "queued", outcome |-> None])
    /\ asking' = [NoForm EXCEPT !.stage = "mark", !.case = asking.case,
                                !.run = IF same # {} THEN CHOOSE i \in same : TRUE ELSE Len(vruns) + 1]
    /\ UNCHANGED <<rel, relOps>> /\ AskRest

\* The relations of the answered run are shown as running.
MarkRunning ==
    /\ asking.stage = "mark"
    /\ rel' = [f \in RelFields |-> IF f \in asking.case
                                   THEN [rel[f] EXCEPT !.status = "running", !.run = asking.run]
                                   ELSE rel[f]]
    /\ Goes(NoForm)

\* The web process dies within the form.
AskDies == asking # NoForm /\ Goes(NoForm) /\ UNCHANGED rel

-----------------------------------------------------------------------------
(* The run, as the scheduler drives it                                     *)

\* _sync_parameter_relation_run_state
SyncRunState(i, status) ==
    LET from == IF status = "running" THEN {"running", "needs_context", "automatic_failed"}
                ELSE {"running"}
    IN  [f \in RelFields |-> IF rel[f].run = i /\ rel[f].status \in from
                             THEN [rel[f] EXCEPT !.status = status] ELSE rel[f]]

RunTo(i, from, to) == vruns[i].status \in from /\ vruns' = [vruns EXCEPT ![i].status = to]

RunRest == UNCHANGED <<setup, rows, exper, relFixture, relProfile, gap, asking, relOps, byHand>>

\* One worker executes.
ClaimRun(i) ==
    /\ \A j \in 1..Len(vruns) : vruns[j].status # "running"
    /\ RunTo(i, {"queued"}, "running") /\ UNCHANGED <<rel, recording>> /\ RunRest

\* The case is replayed once; its fields share the outcome.
ReplayCase(i, outcome) ==
    /\ vruns[i].status = "running" /\ vruns[i].outcome = None
    /\ vruns' = [vruns EXCEPT ![i].outcome = outcome]
    /\ UNCHANGED <<rel, recording>> /\ RunRest

Recorded(i) == {rows[k].field : k \in {k \in 1..Len(rows) : rows[k].run = i}}

\* record_parameter_validation reads the relation and writes the result row.
RecordRow(i, f) ==
    /\ vruns[i].status = "running" /\ vruns[i].outcome # None /\ recording.field = None
    /\ f \in vruns[i].key.fields \ Recorded(i)
    /\ rows' = Append(rows, [field |-> f, run |-> i, status |-> vruns[i].outcome,
                             map |-> vruns[i].key.maps[f]])
    /\ recording' = [field |-> f, doc |-> rel[f], status |-> vruns[i].outcome]
    /\ UNCHANGED <<setup, rel, vruns, exper, relFixture, relProfile, gap, asking, relOps, byHand>>

\* The relation as the copy has it after the result.
AfterResult(r, status) ==
    LET ok == status \in Successful IN
    [r EXCEPT !.noted     = TRUE,
              !.verified  = @ \/ status \in Passed,
              !.confirmed = IF ok THEN r.schema ELSE @,
              !.stale     = @ /\ ~ok,
              !.decision  = IF ok /\ r.origin = "manual_override" /\ @ = "stale" THEN "trusted" ELSE @]

\* The relation is saved and preprocessed from the copy, then read again for the
\* parameter experience.
RecordRelation ==
    LET f   == recording.field
        new == Preprocessed(AfterResult(recording.doc, recording.status), f)
        doc == Saved(rel[f], recording.doc, new)
    IN
    /\ recording.field # None
    /\ rel' = [rel EXCEPT ![f] = doc]
    /\ exper' = [exper EXCEPT ![f] = Experience(doc, @)]
    /\ recording' = NoCopy
    /\ UNCHANGED <<setup, rows, vruns, relFixture, relProfile, gap, asking, relOps, byHand>>

FinishRun(i) ==
    /\ recording.field = None /\ Recorded(i) = vruns[i].key.fields
    /\ RunTo(i, {"running"}, "done") /\ UNCHANGED <<rel, recording>> /\ RunRest

\* The worker gives the run up: authentication failed, it was asked to stop, or a
\* dispatch failed for good.
PauseRun(i) ==
    /\ vruns[i].outcome = None /\ RunTo(i, {"running"}, "paused")
    /\ rel' = SyncRunState(i, "needs_context") /\ UNCHANGED recording /\ RunRest

StopRun(i) ==
    /\ recording.field = None /\ RunTo(i, {"running"}, "stopped")
    /\ rel' = SyncRunState(i, "automatic_failed") /\ UNCHANGED recording /\ RunRest

\* resume_execution and resume_auth_dependency.
ResumeRun(i) ==
    /\ RunTo(i, {"paused"}, "queued")
    /\ rel' = SyncRunState(i, "running") /\ UNCHANGED recording /\ RunRest

\* _finalize_cancelled_run of a run nobody executes, and recovery of a run whose
\* attempts are used up: the relations are left as they are.
DropRun(i) ==
    /\ recording.field = None
    /\ RunTo(i, {"queued", "running", "paused"}, "stopped")
    /\ UNCHANGED <<rel, recording>> /\ RunRest

-----------------------------------------------------------------------------
\* A relation as discovery leaves it; the project was analysed once.
NewRelation == [map |-> 1, verified |-> FALSE, decision |-> "", stale |-> FALSE, origin |-> "found",
                noted |-> FALSE, status |-> "pending", run |-> 0, schema |-> 1, confirmed |-> 0]

RelInit ==
    /\ setup \in PairSetups
    /\ gap = setup.gap /\ rows = <<>> /\ vruns = <<>> /\ exper = [f \in RelFields |-> "none"]
    /\ relFixture = [side \in {"source", "consumer"} |-> [rev |-> 0, at |-> -1]]
    /\ relProfile = [rev |-> 0, at |-> -1]
    /\ rel = [f \in RelFields |-> Preprocessed(NewRelation, f)]
    /\ asking = NoForm /\ recording = NoCopy /\ relOps = 0 /\ byHand = {}

\* Statuses the configured pair can produce.
CaseOutcomes ==
    Outcomes \ (IF setup.mutation THEN {"verified"}
                ELSE {"mutation_verified", "mutation_accepted", "mutation_effect_after_error"})

ManualMapping == MaxSchema + 1

\* An approval changes something only above the automatic limit.
Approvals == IF Requests(RelFields) > setup.auto THEN BOOLEAN ELSE {FALSE}

RelNext ==
    \/ \E f \in RelFields :
          \/ SaveMapping(f, ManualMapping)
          \/ DeleteRelation(f)
          \/ \E decision \in {"trusted", "rejected", "needs_data", "stale", "reset"} :
                SaveManual(f, decision)
          \/ \E side \in {"source", "consumer"}, filled \in {gap} : SaveRelFixture(f, side, filled)
          \/ \E s \in 0..MaxSchema : Discover(f, s)
          \/ OpenRelation("save_hosts", f, FALSE)
          \/ \E approved \in Approvals : OpenRelation("validate_relation", f, approved)
          \/ Treat(f)
    \/ TouchProfile
    \/ PreprocessProject
    \/ AutoNext
    \/ \E approved \in Approvals : ValidateBatch(approved)
    \/ LoadPair
    \/ PickReady
    \/ SelectReady
    \/ LeavesOutBlocked
    \/ FreezePlan
    \/ InsertRun
    \/ MarkRunning
    \/ AskDies
    \/ RecordRelation
    \/ \E i \in 1..Len(vruns) :
          \/ ClaimRun(i)
          \/ \E outcome \in CaseOutcomes : ReplayCase(i, outcome)
          \/ \E f \in RelFields : RecordRow(i, f)
          \/ FinishRun(i)
          \/ PauseRun(i)
          \/ StopRun(i)
          \/ ResumeRun(i)
          \/ DropRun(i)

RelSpec == RelInit /\ [][RelNext]_relVars

-----------------------------------------------------------------------------
(* Properties                                                              *)

\* A parameter's experience is reusable only if a validation of the relation
\* succeeded or a person declared it trusted.
ExperienceIsBacked ==
    \A f \in RelFields : exper[f] = "trusted" =>
        f \in byHand \/ \E i \in 1..Len(rows) : rows[i].field = f /\ rows[i].status \in Successful

\* Stated by _sync_parameter_relation_run_state: a relation shown as running has
\* a run that can still continue.
RunningHasLiveRun ==
    \A f \in RelFields : rel[f].status = "running" /\ asking.stage # "mark"
        => vruns[rel[f].run].status \in LiveRun

\* Stated by the notice of save_mapping: an edited mapping is trusted only after
\* that mapping passed a validation.
CertifiedMappingWasTested ==
    \A f \in RelFields : rel[f].origin = "manual_override" /\ rel[f].decision = "trusted" /\ f \notin byHand =>
        \E i \in 1..Len(rows) :
            rows[i].field = f /\ rows[i].status \in Successful /\ rows[i].map = rel[f].map

\* Stated by the notice of delete_relation: project_chain_candidates shows no
\* deleted relation.
DeletedLeavesChains ==
    \A f \in RelFields : rel[f].decision = "deleted" => rel[f].stale

AutoForms  == {"auto_next", "validate_ready_batch"}
AutoInsert == Len(vruns') > Len(vruns) /\ asking.action \in AutoForms

\* Statuses a rejection of the source does not displace.
Concluded == {"deleted", "stale", "trusted", "verified"}

\* A run nobody asked for relation by relation (auto_next, validate_ready_batch)
\* meets a rejection of the shared source, which neither a fixture nor a profile
\* change has addressed, only if the worker recorded it after the form had looked,
\* or if the form let in nothing but relations that were concluded already.
AutomaticRunsUnblocked ==
    [][AutoInsert /\ SourceBlocked =>
         Len(rows) > asking.seen \/ \A f \in asking.case : asking.docs[f].status \in Concluded]_relVars

\* Stated by _batch_source_blockers ("Find shared source requests that need new
\* fixture/auth context first") and the notice of validate_ready_batch: a batch does
\* not meet such a rejection.
BatchNeverBlocked ==
    [][AutoInsert /\ asking.action = "validate_ready_batch" => ~SourceBlocked]_relVars
=============================================================================
