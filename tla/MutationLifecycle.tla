-------------------------- MODULE MutationLifecycle --------------------------
(***************************************************************************)
(* apiAnalysis/tool/apifox_mutation_lifecycle.py: a write request of a     *)
(* test environment is sent only between readbacks and is then undone.     *)
(* An update is read before, sent, read after, restored and read again; a  *)
(* created resource is read, deleted and read again.  Lifecycles run as    *)
(* checkpoints of the scheduler, PerHost of them at once, and start over   *)
(* when the worker that ran them is gone.  The tested service is external: *)
(* each request is applied or not, and answered or not, in one step.       *)
(***************************************************************************)
EXTENDS Integers, Sequences, FiniteSets

CONSTANTS
    Assets,       \* imported endpoints: [method, path], path a sequence
    PerHost,      \* checkpoints of a host in flight (per_host_workers)
    MaxLost,      \* bound on writes applied without a good answer
    MaxCrashes,   \* bound on workers lost in a lifecycle
    None

ASSUME LifecycleAssumption ==
    /\ PerHost \in Nat \ {0} /\ MaxLost \in Nat /\ MaxCrashes \in Nat
    /\ IsFiniteSet(Assets)
    /\ None \notin {"original"} \cup {a.method : a \in Assets}

VARIABLES
    preflight, \* preflight_only of the plan
    value,    \* the service: the field values of an updated resource
    created,  \* the service: resources that a POST made and that still exist
    life,     \* where each lifecycle is, with its local variables
    result,   \* the recorded result, or None
    nextId,   \* the service: next id of a created resource
    lost, crashes

vars == <<preflight, value, created, life, result, nextId, lost, crashes>>

-----------------------------------------------------------------------------
(* build_mutation_lifecycle_plan                                           *)

At(path, method) == {a \in Assets : a.path = path /\ a.method = method}
Unique(path, method) == Cardinality(At(path, method)) = 1
Detail(path) == Append(path, "{}")

Strategy(a) ==
    CASE a.method \in {"PUT", "PATCH"} /\ Unique(a.path, "GET") -> "update_restore"
      [] /\ a.method = "POST" /\ ~preflight
         /\ Unique(Detail(a.path), "GET") /\ Unique(Detail(a.path), "DELETE") -> "create_cleanup"
      [] OTHER -> "skipped"

Candidates == {a \in Assets : Strategy(a) # "skipped"}
Updates    == {a \in Candidates : Strategy(a) = "update_restore"}
Creates    == Candidates \ Updates
Paths      == {a.path : a \in Updates}

\* What the candidate's body writes.
Body(a) == a.method
Original == "original"

NoEvidence == [error |-> FALSE, gap |-> "", effect |-> FALSE, accepted |-> FALSE,
               cleanup |-> FALSE, cleaned |-> FALSE, verified |-> FALSE, requests |-> 0]

\* Before replay_mutation_lifecycle is called.
Fresh == [pc |-> "start", restore |-> None, id |-> None, ev |-> NoEvidence]

InFlight == {a \in Candidates : life[a].pc \notin {"start", "done"}}

Go(a, l)  == life' = [life EXCEPT ![a] = l]

\* Goes on with the next request, or ends with a gap.
Then(a, next, ev)   == [life[a] EXCEPT !.pc = next, !.ev = ev]
Return(a, gap, ev)  == [life[a] EXCEPT !.pc = "judge", !.ev = [ev EXCEPT !.gap = gap]]
Sent(a)             == [life[a].ev EXCEPT !.requests = @ + 1]

-----------------------------------------------------------------------------
(* The tested service.                                                     *)

\* A write was applied or not and the answer is good, bad or lost.  A good
\* answer to a write that changed nothing is a redirect or a no-op.
WriteOutcomes == {<<TRUE, "ok">>, <<FALSE, "ok">>, <<FALSE, "refused">>, <<FALSE, "lost">>,
                  <<TRUE, "refused">>, <<TRUE, "lost">>}

\* Applied all the same: counted in lost.
Account(o) ==
    IF o[1] /\ o[2] # "ok" THEN lost < MaxLost /\ lost' = lost + 1 ELSE UNCHANGED lost

\* What a readback of an update yields: the one value that fits the body, or
\* nothing unique, or no usable answer.
ReadOutcomes == {"value", "ambiguous", "refused", "lost"}

-----------------------------------------------------------------------------
(* update_restore                                                          *)

\* The gates: values made up for required parameters, a readback of another
\* resource.
Refuse(a, gap) ==
    /\ life[a].pc = "start" /\ Cardinality(InFlight) < PerHost
    /\ Go(a, Return(a, gap, life[a].ev))
    /\ UNCHANGED <<value, created, result, nextId, lost, crashes>>

ReadBefore(a) ==
    \E o \in ReadOutcomes :
       /\ life[a].pc = "start" /\ Cardinality(InFlight) < PerHost
       /\ LET ev == Sent(a)
          IN  Go(a, CASE o = "value" /\ preflight ->
                           [Return(a, "preflight_complete_mutation_not_sent", ev)
                               EXCEPT !.restore = value[a.path]]
                      [] o = "value" /\ ~preflight ->
                           [Then(a, "mutate", ev) EXCEPT !.restore = value[a.path]]
                      [] o = "ambiguous" -> Return(a, "unique_restore_payload_unavailable", ev)
                      [] o = "refused"   -> Return(a, "before_readback_unavailable", ev)
                      [] o = "lost"      -> Return(a, "before_readback_unavailable",
                                                   [ev EXCEPT !.error = TRUE]))
       /\ UNCHANGED <<value, created, result, nextId, lost, crashes>>

\* The write itself.  Whatever is not a good answer ends the lifecycle.
Mutate(a) ==
    \E o \in WriteOutcomes :
       /\ life[a].pc = "mutate"
       /\ Account(o)
       /\ value' = IF o[1] THEN [value EXCEPT ![a.path] = Body(a)] ELSE value
       /\ LET ev == Sent(a) IN
          Go(a, IF o[2] = "ok" THEN Then(a, "after", [ev EXCEPT !.accepted = TRUE])
                ELSE Return(a, "mutation_not_accepted", [ev EXCEPT !.error = (o[2] = "lost")]))
       /\ UNCHANGED <<created, result, nextId, crashes>>

\* Mutant: a failed readback ends the lifecycle before the restore, for review.
ReadAfterOrStop(a) ==
    \E o \in ReadOutcomes :
       /\ life[a].pc = "after" /\ a \in Updates
       /\ LET ev == Sent(a) IN
          Go(a, IF o = "value"
                THEN Then(a, "restore", [ev EXCEPT !.effect = value[a.path] # life[a].restore])
                ELSE Return(a, "created_id_unavailable_cleanup_not_possible", ev))
       /\ UNCHANGED <<value, created, result, nextId, lost, crashes>>

\* The restore follows whatever this readback says.
ReadAfter(a) ==
    \E o \in ReadOutcomes :
       /\ life[a].pc = "after" /\ a \in Updates
       /\ Go(a, Then(a, "restore", [Sent(a) EXCEPT
                    !.effect = (o = "value" /\ value[a.path] # life[a].restore)]))
       /\ UNCHANGED <<value, created, result, nextId, lost, crashes>>

Restore(a) ==
    \E o \in WriteOutcomes :
       /\ life[a].pc = "restore"
       /\ Account(o)
       /\ value' = IF o[1] THEN [value EXCEPT ![a.path] = life[a].restore] ELSE value
       /\ LET ev == [Sent(a) EXCEPT !.cleanup = TRUE] IN
          Go(a, IF o[2] = "ok" THEN Then(a, "final", ev)
                ELSE Return(a, "restore_request_failed", ev))
       /\ UNCHANGED <<created, result, nextId, crashes>>

\* Mutant: an answered readback is enough.
ReadFinalAnswered(a) ==
    \E o \in ReadOutcomes :
       /\ life[a].pc = "final" /\ a \in Updates
       /\ LET ok == o = "value"
          IN  Go(a, Return(a, IF ok THEN "" ELSE "restore_readback_mismatch",
                           [Sent(a) EXCEPT !.verified = ok]))
       /\ UNCHANGED <<value, created, result, nextId, lost, crashes>>

\* Only a readback equal to the first one proves the restore.
ReadFinal(a) ==
    \E o \in ReadOutcomes :
       /\ life[a].pc = "final" /\ a \in Updates
       /\ LET ok == o = "value" /\ value[a.path] = life[a].restore
          IN  Go(a, Return(a, IF ok THEN "" ELSE "restore_readback_mismatch",
                           [Sent(a) EXCEPT !.verified = ok]))
       /\ UNCHANGED <<value, created, result, nextId, lost, crashes>>

-----------------------------------------------------------------------------
(* create_cleanup                                                          *)

\* An accepted POST names the new resource in its answer, or not uniquely.  The code
\* takes the only scalar of the answer that looks like an id; that it is the one of
\* the new resource, and not of another one, is assumed of the service.
Create(a) ==
    \E o \in WriteOutcomes, named \in BOOLEAN :
       /\ life[a].pc = "start" /\ Cardinality(InFlight) < PerHost
       /\ Account(o)
       /\ created' = IF o[1] THEN created \cup {nextId} ELSE created
       /\ nextId' = IF o[1] THEN nextId + 1 ELSE nextId
       /\ named => o[1]
       /\ LET ev == Sent(a)
              taken == [ev EXCEPT !.accepted = TRUE]
          IN  Go(a, CASE o[2] # "ok" ->
                           Return(a, "mutation_not_accepted", [ev EXCEPT !.error = (o[2] = "lost")])
                      [] o[2] = "ok" /\ ~named ->
                           Return(a, "created_id_unavailable_cleanup_not_possible", taken)
                      [] o[2] = "ok" /\ named -> [Then(a, "after", taken) EXCEPT !.id = nextId])
       /\ UNCHANGED <<value, result, crashes>>

\* A readback of a created resource: found, gone, or no usable answer.
Seen(a) == {IF life[a].id \in created THEN "found" ELSE "gone", "refused", "lost"}

ReadCreated(a) ==
    \E o \in Seen(a) :
       /\ life[a].pc = "after" /\ a \in Creates
       /\ Go(a, Then(a, "delete", [Sent(a) EXCEPT !.effect = (o = "found")]))
       /\ UNCHANGED <<value, created, result, nextId, lost, crashes>>

\* The answer to the delete is kept; the final readback follows either way.
Delete(a) ==
    \E o \in WriteOutcomes :
       /\ life[a].pc = "delete"
       /\ Account(o)
       /\ created' = IF o[1] THEN created \ {life[a].id} ELSE created
       /\ Go(a, Then(a, "final", [Sent(a) EXCEPT !.cleanup = TRUE, !.cleaned = (o[2] = "ok")]))
       /\ UNCHANGED <<value, result, nextId, crashes>>

ReadDeleted(a) ==
    \E o \in Seen(a) :
       /\ life[a].pc = "final" /\ a \in Creates
       /\ LET ok == life[a].ev.cleaned /\ o = "gone"
          IN  Go(a, Return(a, IF ok THEN "" ELSE "delete_cleanup_unverified",
                           [Sent(a) EXCEPT !.verified = ok]))
       /\ UNCHANGED <<value, created, result, nextId, lost, crashes>>

-----------------------------------------------------------------------------
(* judge_mutation_lifecycle, recorded by the scheduler.                    *)

Verdict(ev) ==
    CASE ev.error -> "error"
      [] /\ ~ev.error /\ ~ev.verified
         /\ ev.gap \notin {"before_readback_unavailable", "unique_restore_payload_unavailable",
                           "preflight_complete_mutation_not_sent", "mutation_not_accepted"}
         /\ ev.cleanup \/ ev.gap = "created_id_unavailable_cleanup_not_possible" -> "need_review"
      [] OTHER -> "not_evaluable"

Record(a) ==
    /\ life[a].pc = "judge"
    /\ result' = [result EXCEPT ![a] = [verdict |-> Verdict(life[a].ev), ev |-> life[a].ev]]
    /\ Go(a, [life[a] EXCEPT !.pc = "done"])
    /\ UNCHANGED <<value, created, nextId, lost, crashes>>

\* The worker is gone.  Its lease expires, recover_expired_executions makes
\* the checkpoint pending, and the next worker begins again.
Crash(a) ==
    /\ life[a].pc \notin {"start", "done"}
    /\ crashes < MaxCrashes /\ crashes' = crashes + 1
    /\ Go(a, Fresh)
    /\ UNCHANGED <<value, created, result, nextId, lost>>

-----------------------------------------------------------------------------
Init ==
    /\ preflight \in BOOLEAN
    /\ value = [p \in Paths |-> Original]
    /\ created = {}
    /\ life = [a \in Candidates |-> Fresh]
    /\ result = [a \in Candidates |-> None]
    /\ nextId = 1
    /\ lost = 0
    /\ crashes = 0

Advance(a) ==
    \/ Mutate(a) \/ ReadAfter(a) \/ Restore(a) \/ ReadFinal(a)
    \/ ReadCreated(a) \/ Delete(a) \/ ReadDeleted(a) \/ Record(a)

Next ==
    /\ \/ \E a \in Candidates :
             Advance(a) \/ Crash(a) \/ Refuse(a, "synthetic_required_mutation_value")
       \/ \E a \in Updates : ReadBefore(a) \/ Refuse(a, "readback_resource_identity_mismatch")
       \/ \E a \in Creates : Create(a)
    /\ UNCHANGED preflight

Spec == Init /\ [][Next]_vars

\* Every request has a timeout, so a lifecycle under way goes on.
LiveSpec == Spec /\ \A a \in Assets : WF_vars(a \in Candidates /\ Advance(a) /\ UNCHANGED preflight)

-----------------------------------------------------------------------------
(* Properties.                                                             *)

\* Values, ids and evidence keep their types, and a lifecycle sends no more
\* requests than its budget, 5 for an update and 4 for a create.
TypeOK ==
    /\ preflight \in BOOLEAN
    /\ value \in [Paths -> {Original} \cup {Body(a) : a \in Updates}]
    /\ created \subseteq 1..(nextId - 1)
    /\ lost \in 0..MaxLost /\ crashes \in 0..MaxCrashes
    /\ \A a \in Candidates :
          /\ life[a].pc \in {"start", "mutate", "after", "restore", "delete", "final", "judge", "done"}
          /\ life[a].ev.requests \in 0..(IF a \in Updates THEN 5 ELSE 4)
          /\ result[a] # None => result[a].verdict \in {"error", "need_review", "not_evaluable"}

\* A value is overwritten only while the lifecycle holds what it read there,
\* and never in a preflight.
NoWriteWithoutRestore ==
    \A a \in Updates : life[a].pc \in {"mutate", "after", "restore", "final"} =>
        life[a].restore # None /\ ~preflight

\* When every lifecycle is over, whatever they left behind in the service is
\* on somebody's list: a changed resource, a created one, has a lifecycle
\* that ended in need_review.
Settled == \A a \in Candidates : life[a].pc = "done"
Reviewed(S) == \E a \in S : result[a].verdict = "need_review"
ResidueIsReviewed ==
    Settled => /\ \A p \in Paths : value[p] # Original => Reviewed({a \in Updates : a.path = p})
               /\ created # {} => Reviewed(Creates)

\* The same as far as the code can know: while no worker died and no write was
\* applied behind a bad answer, a resource with one writer is back at its
\* original value, and a created one gone, or a lifecycle is in need_review.
OneWriter(p) == Cardinality({a \in Updates : a.path = p}) = 1
KnownResidueIsReviewed ==
    Settled /\ lost = 0 /\ crashes = 0 =>
        /\ \A a \in Updates : OneWriter(a.path) /\ value[a.path] # Original => Reviewed({a})
        /\ created # {} => Reviewed(Creates)

\* A cleanup reported as verified did happen: the resource of that lifecycle
\* is gone, also beside other lifecycles, lost answers and crashes.
VerifiedIsGone ==
    \A a \in Creates : (life[a].pc \in {"judge", "done"} /\ life[a].ev.verified) =>
        life[a].id \notin created

\* A write is undone or reviewed: what cannot be restored is not written, what
\* is verified is gone, and what is known to be left is on a list.
UndoSound == TypeOK /\ NoWriteWithoutRestore /\ VerifiedIsGone /\ KnownResidueIsReviewed

\* Once the service accepted a write that can be undone, the undo is sent,
\* whatever the readbacks say, unless the worker is lost first.
CleanupFollows ==
    \A a \in Assets :
        (a \in Candidates /\ life[a].ev.accepted /\ (a \in Updates \/ life[a].id # None))
            ~> (a \in Candidates => life[a].ev.cleanup \/ life[a].pc = "start")
=============================================================================
