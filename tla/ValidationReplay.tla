-------------------------- MODULE ValidationReplay --------------------------
(***************************************************************************)
(* apiAnalysis/tool/parameter_validation.py: one validation case.  A value   *)
(* is read from the source endpoint and sent to the consumer endpoint, over  *)
(* candidate hosts and within a request budget; after a write the source is  *)
(* read again.  The tested service may answer, refuse, fail, stay silent or  *)
(* lose its answer after it did the work.                                    *)
(***************************************************************************)
EXTENDS Integers, Sequences

CONSTANTS
    CaseFields,      \* the mappings of one endpoint pair
    MaxCaseHosts,    \* candidate hosts of an endpoint
    AutoLimit,       \* auto_request_limit of the environment
    ApprovedLimit    \* approved_request_limit of the environment

ASSUME CaseAssumption ==
    MaxCaseHosts \in Nat \ {0} /\ AutoLimit \in Nat \ {0} /\ ApprovedLimit \in Nat \ {0}

VARIABLES
    vcase,      \* the plan of the case, [method |-> "none"] before it exists
    vpc,        \* where replay_parameter_validation is
    sent,       \* request_count
    tried,      \* source_attempts and consumer_attempts
    values,     \* fields whose value is known (value_records)
    lastReply,  \* evidence of the last source or consumer request
    effects,    \* relation_effects
    fieldStatus,\* relation_results
    caseStatus, \* validation_status
    writes,     \* how often the service carried out the consumer's write
    lostReplies,\* writes whose answer was lost to a connection error
    unshown     \* values the source stopped to show for a reason of its own

caseVars == <<vcase, vpc, sent, tried, values, lastReply, effects, fieldStatus, caseStatus,
              writes, lostReplies, unshown>>

ReadMethods     == {"GET"}
MutationMethods == {"PUT", "DELETE"}
Mutation        == vcase.method \in MutationMethods

-----------------------------------------------------------------------------
(* Replies                                                                 *)

\* A reply: its status code (0 without one), whether the body names a business
\* error, and the class of the transport error.
Reply(code, explicit, err) == [code |-> code, explicit |-> explicit, err |-> err]

Replies ==
    {Reply(code, FALSE, "") : code \in {200, 400, 401, 404, 409, 429, 500}}
    \cup {Reply(400, TRUE, ""), Reply(0, FALSE, "ReadTimeout"), Reply(0, FALSE, "ConnectionError")}

NoReply  == Reply(0, FALSE, "")
OkReply(r) == r.code = 200

\* _explicit_request_rejection
ExplicitRejection(r) == r.code = 409 \/ (r.code = 400 /\ r.explicit)

\* _read_host_retryable: the host or the route may be wrong.
ReadRetryable(r) ==
    r.code = 404 \/ (r.code = 400 /\ ~ExplicitRejection(r)) \/ r.err = "ConnectionError"

\* _mutation_host_retryable: refused by route or auth, or no answer began.
MutationRetryable(r) == r.code \in {401, 404} \/ r.err = "ConnectionError"

\* _request_failure_status: the role of the request names the status.
SourceStatus ==
    [rejected |-> "source_request_rejected", auth |-> "source_auth_rejected",
     limited |-> "source_rate_limited", failed |-> "source_failed"]
ConsumerStatus ==
    [rejected |-> "consumer_request_rejected", auth |-> "consumer_auth_rejected",
     limited |-> "consumer_rate_limited", failed |-> "consumer_failed"]

FailureStatus(status, r, remaining, exhausted, mutation) ==
    IF ExplicitRejection(r) THEN status.rejected
    ELSE IF r.code = 401 THEN status.auth
    ELSE IF r.code = 429 THEN status.limited
    ELSE IF (IF mutation THEN MutationRetryable(r) ELSE ReadRetryable(r)) /\ remaining > 0 /\ exhausted
    THEN "host_scope_approval_required"
    ELSE status.failed

-----------------------------------------------------------------------------
(* create_validation_case_snapshot                                         *)

\* relation_request_estimate
Estimate(method) == IF method \in MutationMethods THEN 3 ELSE 2

\* The requested budget within the limit of the environment.
PlanBudget(requested, approved) ==
    LET limit == IF approved THEN ApprovedLimit ELSE AutoLimit IN
    IF requested > limit THEN limit ELSE requested

\* The plan freezes the hosts, as many as the budget has requests, and the values
\* given by hand; lists are the fields whose name ends in _ids.  A write needs the
\* permission of environment and accounts (allowed); a budget below the estimate
\* is refused.
PlanCase(method, requested, approved, srcHosts, conHosts, manual, lists, allowed) ==
    LET budget == PlanBudget(requested, approved) IN
    /\ vpc = "none"
    /\ method \in MutationMethods => allowed
    /\ Estimate(method) <= budget
    /\ vcase' = [method |-> method, budget |-> budget, srcHosts |-> srcHosts, conHosts |-> conHosts,
                 manual |-> manual, lists |-> lists]
    /\ values' = manual
    /\ vpc' = IF manual = CaseFields THEN "consumer" ELSE "source"
    /\ UNCHANGED <<sent, tried, lastReply, effects, fieldStatus, caseStatus, writes, lostReplies, unshown>>

-----------------------------------------------------------------------------
(* replay_parameter_validation                                             *)

\* The source may use all but one request.
SourceShare == IF vcase.budget - 1 > 1 THEN vcase.budget - 1 ELSE 1

FieldsWith(status, fields) == [f \in CaseFields |-> IF f \in fields THEN status ELSE fieldStatus[f]]

\* One source request; the next host is tried only after a reply that may be the
\* host's fault.
SourceRequest(r) ==
    LET n == tried.source + 1 IN
    /\ vpc = "source"
    /\ sent' = sent + 1 /\ tried' = [tried EXCEPT !.source = n] /\ lastReply' = r
    /\ vpc' = IF OkReply(r) THEN "extract"
              ELSE IF ReadRetryable(r) /\ n < vcase.srcHosts /\ sent + 1 < SourceShare THEN "source"
              ELSE "source_failed"
    /\ UNCHANGED <<vcase, values, effects, fieldStatus, caseStatus, writes, lostReplies, unshown>>

\* No source reply: the fields without a value get the reason; the case goes on
\* with the values given by hand, if any.
SourceFailed ==
    LET status == FailureStatus(SourceStatus, lastReply, vcase.srcHosts - tried.source,
                                sent >= SourceShare, FALSE)
    IN
    /\ vpc = "source_failed"
    /\ fieldStatus' = FieldsWith(status, CaseFields \ values)
    /\ IF values = {} THEN caseStatus' = status /\ vpc' = "done"
       ELSE UNCHANGED caseStatus /\ vpc' = "consumer"
    /\ UNCHANGED <<vcase, sent, tried, values, lastReply, effects, writes, lostReplies, unshown>>

\* The values found by locator or by name; a field without one is value_not_found.
Extract(found) ==
    /\ vpc = "extract" /\ values \subseteq found
    /\ values' = found
    /\ fieldStatus' = FieldsWith("value_not_found", CaseFields \ found)
    /\ IF found = {} THEN caseStatus' = "value_not_found" /\ vpc' = "done"
       ELSE UNCHANGED caseStatus /\ vpc' = "consumer"
    /\ UNCHANGED <<vcase, sent, tried, lastReply, effects, writes, lostReplies, unshown>>

\* Whether the service may have carried out a write it answered with r; it may also
\* accept one and leave it (external).
MayHaveWritten(r) == IF OkReply(r) \/ r.code = 500 \/ r.err # "" THEN BOOLEAN ELSE {FALSE}

\* One consumer request with every known value.
ConsumerRequest(r, wrote) ==
    LET n     == tried.consumer + 1
        again == IF Mutation THEN MutationRetryable(r) ELSE ReadRetryable(r)
    IN
    /\ vpc = "consumer"
    /\ sent' = sent + 1 /\ tried' = [tried EXCEPT !.consumer = n] /\ lastReply' = r
    /\ writes' = IF wrote /\ Mutation THEN writes + 1 ELSE writes
    /\ lostReplies' = IF wrote /\ Mutation /\ r.err = "ConnectionError" THEN lostReplies + 1
                      ELSE lostReplies
    /\ vpc' = IF ~OkReply(r) /\ again /\ n < vcase.conHosts /\ sent + 1 < vcase.budget
              THEN "consumer" ELSE "effect"
    /\ UNCHANGED <<vcase, values, effects, fieldStatus, caseStatus, unshown>>

Unchecked == [f \in CaseFields |-> "not_checked"]

\* The write went through, or it stopped at a reply after which it may have.
NeedsReadBack == Mutation /\ (OkReply(lastReply) \/ ~MutationRetryable(lastReply))

\* Values that are one item of the source's own reply.  The read-back can find only
\* these again: a value given by hand need never have been there, and a list is
\* compared as a whole with single items.
Comparable == values \ (vcase.manual \cup vcase.lists)

\* The source may stop to show a value without this case: another user removed it,
\* or it is no longer among the first twenty (external).
StopsShowing(f) ==
    /\ vpc \in {"consumer", "effect"} /\ vcase.method = "DELETE" /\ f \in Comparable
    /\ unshown' = unshown \cup {f}
    /\ UNCHANGED <<vcase, vpc, sent, tried, values, lastReply, effects, fieldStatus, caseStatus,
                   writes, lostReplies>>

\* The values whose digest a read-back may lack: any after a write, and without one
\* those it could not find anyhow.
MayLack(lacking) ==
    /\ (values \ vcase.manual) \cap vcase.lists \subseteq lacking
    /\ unshown \subseteq lacking
    /\ writes = 0 => lacking \cap Comparable \subseteq unshown

\* Mutant: the read-back counts as a success whatever it answered.
ObservedLoose(r, lacking) ==
    [f \in CaseFields |->
       IF f \notin values THEN "not_checked"
       ELSE IF vcase.method # "DELETE" THEN "post_read_reachable"
       ELSE IF f \in lacking \/ ~OkReply(r) THEN "delete_observed" ELSE "value_still_present"]

\* What the read-back shows of each value.
Observed(r, lacking) ==
    [f \in CaseFields |->
       IF f \notin values THEN "not_checked"
       ELSE IF ~OkReply(r) THEN "post_read_failed"
       ELSE IF vcase.method # "DELETE" THEN "post_read_reachable"
       ELSE IF f \in lacking THEN "delete_observed" ELSE "value_still_present"]

\* The after-read, within the budget.
ReadAfter(r, lacking) ==
    /\ vpc = "effect" /\ NeedsReadBack /\ sent < vcase.budget /\ MayLack(lacking)
    /\ sent' = sent + 1 /\ effects' = Observed(r, lacking) /\ vpc' = "judge"
    /\ UNCHANGED <<vcase, tried, values, lastReply, fieldStatus, caseStatus, writes, lostReplies, unshown>>

SkipReadAfter ==
    /\ vpc = "effect" /\ ~(NeedsReadBack /\ sent < vcase.budget)
    /\ vpc' = "judge"
    /\ UNCHANGED <<vcase, sent, tried, values, lastReply, effects, fieldStatus, caseStatus,
                   writes, lostReplies, unshown>>

Established == {"verified", "mutation_verified", "mutation_accepted", "mutation_effect_after_error"}

HostApproval ==
    /\ ~OkReply(lastReply) /\ vcase.conHosts > tried.consumer /\ sent >= vcase.budget
    /\ IF Mutation THEN MutationRetryable(lastReply) ELSE ReadRetryable(lastReply)

ConsumerFailure ==
    FailureStatus(ConsumerStatus, lastReply, vcase.conHosts - tried.consumer, sent >= vcase.budget, Mutation)

\* The status of a field whose value was sent.
SentStatus(effect) ==
    IF ~OkReply(lastReply)
    THEN IF effect = "delete_observed" THEN "mutation_effect_after_error"
         ELSE IF HostApproval THEN "host_scope_approval_required" ELSE ConsumerFailure
    ELSE IF ~Mutation THEN "verified"
    ELSE IF effect = "delete_observed" THEN "mutation_verified" ELSE "mutation_accepted"

\* The group: some and not all established, else the one status its fields share.
GroupStatus(results) ==
    LET established == {f \in CaseFields : results[f] \in Established} IN
    IF established # {} /\ established # CaseFields THEN "partially_verified"
    ELSE IF \E f \in CaseFields : results[f] = "mutation_effect_after_error"
    THEN "mutation_effect_after_error"
    ELSE IF HostApproval THEN "host_scope_approval_required"
    ELSE IF ~OkReply(lastReply) THEN ConsumerFailure
    ELSE IF ~Mutation THEN "verified"
    ELSE IF \A f \in values : effects[f] = "delete_observed" THEN "mutation_verified"
    ELSE "mutation_accepted"

JudgeFields ==
    LET results == [f \in CaseFields |-> IF f \in values THEN SentStatus(effects[f]) ELSE fieldStatus[f]]
    IN
    /\ vpc = "judge"
    /\ fieldStatus' = results /\ caseStatus' = GroupStatus(results) /\ vpc' = "done"
    /\ UNCHANGED <<vcase, sent, tried, values, lastReply, effects, writes, lostReplies, unshown>>

\* judge_parameter_validation: the verdict of the execution result.
CaseVerdict(status) ==
    CASE status \in {"verified", "mutation_verified"} -> "relation_verified"
      [] status = "mutation_effect_after_error"       -> "relation_verified_with_api_defect"
      [] status = "mutation_accepted"                 -> "relation_accepted"
      [] status = "partially_verified"                -> "relation_group_partial"
      [] status = "host_scope_approval_required"      -> "approval_required"
      [] status \in {"source_request_rejected", "consumer_request_rejected"} -> "test_data_required"
      [] status \in {"source_auth_rejected", "consumer_auth_rejected"}       -> "auth_rejected"
      [] status \in {"source_rate_limited", "consumer_rate_limited"}         -> "rate_limited"
      [] OTHER -> IF lastReply.err # "" THEN "error" ELSE "not_evaluable"

CaseInit ==
    /\ vcase = [method |-> "none"] /\ vpc = "none" /\ sent = 0
    /\ tried = [source |-> 0, consumer |-> 0] /\ values = {} /\ lastReply = NoReply
    /\ effects = Unchecked /\ fieldStatus = [f \in CaseFields |-> "none"] /\ caseStatus = "none"
    /\ writes = 0 /\ lostReplies = 0 /\ unshown = {}

\* Lists matter to the read-back after a DELETE only.
ListChoices(method) == IF method = "DELETE" THEN SUBSET CaseFields ELSE {{}}

CaseNext ==
    \/ \E method \in ReadMethods \cup MutationMethods, requested \in 1..ApprovedLimit,
          approved \in BOOLEAN, s, c \in 1..MaxCaseHosts, manual \in SUBSET CaseFields,
          allowed \in BOOLEAN :
          \E lists \in ListChoices(method) : PlanCase(method, requested, approved, s, c, manual, lists, allowed)
    \/ \E f \in CaseFields : StopsShowing(f)
    \/ \E r \in Replies :
          \/ SourceRequest(r)
          \/ \E wrote \in MayHaveWritten(r) : ConsumerRequest(r, wrote)
          \/ \E lacking \in SUBSET values : ReadAfter(r, lacking)
    \/ SourceFailed
    \/ \E found \in SUBSET CaseFields : Extract(found)
    \/ SkipReadAfter
    \/ JudgeFields

CaseSpec == CaseInit /\ [][CaseNext]_caseVars

-----------------------------------------------------------------------------
(* Properties                                                              *)

\* A write the service may have carried out is not sent to another host, as long
\* as no answer is lost to a connection error.
MutationNotRepeated == lostReplies = 0 => writes <= 1

\* Stated by _mutation_host_retryable ("Return true only when the request clearly
\* missed business execution"): the service carries out a write at most once.
MutationAtMostOnce == writes <= 1

\* A case never sends more requests than its plan allows, host retries and the
\* read-back after a write included.
RequestsWithinBudget == vpc # "none" => sent <= vcase.budget

\* A field counts as established only if its value was known and the consumer
\* accepted it, or a DELETE did not clearly miss and the read-back lacked the value.
\* A deletion that was observed on a value the read-back can find was carried out, or
\* the source stopped to show it; a verified case was accepted in every field.
VerdictIsEarned ==
    vpc = "done" =>
       /\ \A f \in CaseFields :
             /\ fieldStatus[f] \in Established => f \in values
             /\ fieldStatus[f] \in Established /\ ~OkReply(lastReply) =>
                   vcase.method = "DELETE" /\ ~MutationRetryable(lastReply) /\ effects[f] = "delete_observed"
             /\ fieldStatus[f] \in {"mutation_verified", "mutation_effect_after_error"} /\ f \in Comparable =>
                   writes > 0 \/ f \in unshown
       /\ CaseVerdict(caseStatus) = "relation_verified"
             => OkReply(lastReply) /\ \A f \in CaseFields : fieldStatus[f] \in Established

\* Stated by the comment of the after-read ("gives DELETE a real effect check") and
\* by the text of the status: an observed deletion was carried out.
ObservedDeleteHappened ==
    \A f \in CaseFields :
       fieldStatus[f] \in {"mutation_verified", "mutation_effect_after_error"} => writes > 0 \/ f \in unshown

\* A replayed case keeps to its budget, repeats no write that may have happened,
\* and claims no more than its replies show.
ReplaySound == RequestsWithinBudget /\ MutationNotRepeated /\ VerdictIsEarned
=============================================================================
