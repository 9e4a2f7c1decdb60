-------------------------- MODULE FindingLifecycle --------------------------
(***************************************************************************)
(* The way of a machine result to a closed finding:                        *)
(* apiAnalysis/tool/result_review.py (confirm_result) and                 *)
(* apiAnalysis/tool/vulnerability_lifecycle.py (transitions, retests and   *)
(* their evaluation), called by managers' web requests and by the          *)
(* maintenance process.  No handler locks anything: each reads, decides,   *)
(* and writes in separate database operations, which are the steps here.   *)
(*                                                                         *)
(* A machine result is a pair <<run, snapshot>>.  Runs 1 to Origins are    *)
(* the runs that found something; later ones are retests, which the        *)
(* execution scheduler (external to these two files) carries out.          *)
(***************************************************************************)
EXTENDS Integers, Sequences, FiniteSets, FiniteSetsExt

CONSTANTS
    Findings,      \* ids of findings, 1..n, taken in order
    Snapshots,
    Origin,        \* the run whose result on a snapshot is reviewed
    Managers,      \* web requests of managers
    Maintenance,   \* the maintenance process
    Limit,         \* limit of evaluate_completed_finding_retests
    MaxRuns,       \* bound on the runs
    MaxCrashes,    \* bound on the requests that die half way
    None

Actors  == Managers \cup {Maintenance}
Origins == {Origin[s] : s \in Snapshots}

OPEN == "open"
FIXING == "fixing"
FIXED_PENDING_VERIFY == "fixed_pending_verify"
VERIFIED_FIXED == "verified_fixed"
REOPENED == "reopened"
FALSE_POSITIVE == "false_positive"
ACCEPTED_RISK == "accepted_risk"
Statuses == {OPEN, FIXING, FIXED_PENDING_VERIFY, VERIFIED_FIXED, REOPENED,
             FALSE_POSITIVE, ACCEPTED_RISK}

VALID_TRANSITIONS ==
    ({OPEN} \X {FIXING, FALSE_POSITIVE, ACCEPTED_RISK})
    \cup ({FIXING} \X {FIXED_PENDING_VERIFY, ACCEPTED_RISK})
    \cup ({FIXED_PENDING_VERIFY} \X {VERIFIED_FIXED, REOPENED})
    \cup ({REOPENED} \X {FIXING, ACCEPTED_RISK})

ASSUME LifecycleAssumption ==
    /\ Findings \subseteq Nat /\ IsFiniteSet(Findings)
    /\ IsFiniteSet(Snapshots) /\ MaxCrashes \in Nat
    /\ \E n \in 0..MaxRuns : Origins = 1..n
    /\ None \notin Findings \cup Nat \cup Statuses

VARIABLES
    finding,   \* vulnerability_finding: status, result_ids
    related,   \* related_vuln_id of the original result on a snapshot
    runs,      \* the retests, by number
    marks,     \* finding events that carry a retest's reason code: runs
    loc,       \* where an actor is in its handler, with what it has read
    crashes

vars == <<finding, related, runs, marks, loc, crashes>>

Absent == [status |-> None, results |-> {}]
Idle   == [pc |-> "idle"]

Created(f)  == finding[f].status # None
LastRun     == Cardinality(Origins) + Len(runs)
Retest(n)   == runs[n - Cardinality(Origins)]
Retests     == Cardinality(Origins) + 1 .. LastRun
RetestsOf(f) == {n \in Retests : Retest(n).finding = f}

Become(a, l) == loc' = [loc EXCEPT ![a] = l]

-----------------------------------------------------------------------------
(* result_review.py                                                        *)

\* confirm_result reads the result; one linked to a finding that is neither
\* a false positive nor verified only gets one more CONFIRM event.
ConfirmResult(m, s) ==
    /\ loc[m].pc = "idle"
    /\ related[s] # None => finding[related[s]].status \in {FALSE_POSITIVE, VERIFIED_FIXED}
    /\ Become(m, [pc |-> "create", snap |-> s])
    /\ UNCHANGED <<finding, related, runs, marks, crashes>>

\* A new finding with its CREATED event.
CreateFinding(m) ==
    /\ loc[m].pc = "create"
    /\ \E f \in Findings :
          /\ ~Created(f) /\ \A g \in Findings : g < f => Created(g)
          /\ finding' = [finding EXCEPT ![f] =
                [status |-> OPEN, results |-> {<<Origin[loc[m].snap], loc[m].snap>>}]]
          /\ Become(m, [pc |-> "relate", snap |-> loc[m].snap, f |-> f])
    /\ UNCHANGED <<related, runs, marks, crashes>>

\* The result refers to the finding; the CONFIRM event is appended.
RelateResult(m) ==
    /\ loc[m].pc = "relate"
    /\ related' = [related EXCEPT ![loc[m].snap] = loc[m].f]
    /\ Become(m, Idle)
    /\ UNCHANGED <<finding, runs, marks, crashes>>

\* add_result_to_finding
AddResultToFinding(m, f, s) ==
    /\ loc[m].pc = "idle" /\ Created(f)
    /\ finding' = [finding EXCEPT ![f].results = @ \cup {<<Origin[s], s>>}]
    /\ related' = [related EXCEPT ![s] = f]
    /\ UNCHANGED <<runs, marks, loc, crashes>>

-----------------------------------------------------------------------------
(* transition_finding                                                      *)

\* The request that begins here runs on to "write", "event" and then to its
\* continuation: nothing, or the push of the run's id.
Transition(f, target, evidence, run, code) ==
    [pc |-> "transition", f |-> f, target |-> target, evidence |-> evidence,
     run |-> run, code |-> code]

\* A manager asks for a status.
RequestTransition(m, f, target) ==
    /\ loc[m].pc = "idle" /\ Created(f)
    /\ Become(m, Transition(f, target, FALSE, None, FALSE))
    /\ UNCHANGED <<finding, related, runs, marks, crashes>>

NeedsEvidence(from, target) ==
    target = FIXED_PENDING_VERIFY \/ from = FIXED_PENDING_VERIFY

\* The finding is read and the transition validated; what is refused raises
\* and ends the request.
ValidateTransition(a) ==
    LET l == loc[a]
        from == finding[l.f].status
        ok == /\ <<from, l.target>> \in VALID_TRANSITIONS
              /\ NeedsEvidence(from, l.target) => l.evidence
    IN  /\ l.pc = "transition"
        /\ Become(a, IF ok THEN [l EXCEPT !.pc = "write"] ELSE Idle)
        /\ UNCHANGED <<finding, related, runs, marks, crashes>>

\* The update filters on the id alone.
WriteStatus(a) ==
    /\ loc[a].pc = "write"
    /\ finding' = [finding EXCEPT ![loc[a].f].status = loc[a].target]
    /\ Become(a, [loc[a] EXCEPT !.pc = "event"])
    /\ UNCHANGED <<related, runs, marks, crashes>>

\* The event; that of an evaluation carries the reason code that marks the run.
WriteEvent(a) ==
    /\ loc[a].pc = "event"
    /\ marks' = IF loc[a].code THEN marks \cup {loc[a].run} ELSE marks
    /\ Become(a, Idle)
    /\ UNCHANGED <<finding, related, runs, crashes>>

-----------------------------------------------------------------------------
(* schedule_finding_retest and link_fix_verification                       *)

ActiveRetests(f) == {n \in RetestsOf(f) : Retest(n).status = "active"}

\* The baseline: of the runs of the finding's results the newest, and of it
\* the snapshots with a result.
BaselineRun(f) == Max({r[1] : r \in finding[f].results})
BaselineSnaps(f) == {s \in Snapshots : <<BaselineRun(f), s>> \in finding[f].results}

\* The checks and the reads before the enqueue; an active retest is returned
\* as it is.
ScheduleRetest(m, f) ==
    /\ loc[m].pc = "idle" /\ Created(f)
    /\ finding[f].status \in {FIXING, FIXED_PENDING_VERIFY}
    /\ ActiveRetests(f) = {}
    /\ Become(m, [pc |-> "enqueue", f |-> f, source |-> BaselineRun(f),
                  snaps |-> BaselineSnaps(f)])
    /\ UNCHANGED <<finding, related, runs, marks, crashes>>

LatestTerminal(f) ==
    LET Ended == {n \in RetestsOf(f) : Retest(n).status \in {"done", "ended"}}
    IN  IF Ended = {} THEN None ELSE Max(Ended)

\* enqueue_snapshot_batch under the key made of finding, baseline run,
\* snapshots and latest ended retest; only who creates the run links it.
EnqueueRetest(m) ==
    LET l == loc[m]
        new == [finding |-> l.f, source |-> l.source, snaps |-> l.snaps,
                after |-> LatestTerminal(l.f), status |-> "active", case |-> << >>]
        same(n) == /\ Retest(n).finding = new.finding /\ Retest(n).source = new.source
                   /\ Retest(n).snaps = new.snaps /\ Retest(n).after = new.after
    IN  /\ l.pc = "enqueue"
        /\ \/ /\ \E n \in Retests : same(n)
              /\ Become(m, Idle)
              /\ UNCHANGED runs
           \/ /\ ~\E n \in Retests : same(n)
              /\ LastRun < MaxRuns
              /\ runs' = Append(runs, new)
              /\ Become(m, [pc |-> "link", f |-> l.f, run |-> LastRun + 1])
        /\ UNCHANGED <<finding, related, marks, crashes>>

\* link_fix_verification: a finding in FIXING moves to pending verify, any
\* other gets a FIX_VERIFY event.
LinkFixVerification(m) ==
    LET l == loc[m] IN
    /\ l.pc = "link"
    /\ Become(m, IF finding[l.f].status = FIXING
                 THEN Transition(l.f, FIXED_PENDING_VERIFY, TRUE, l.run, FALSE)
                 ELSE Idle)
    /\ UNCHANGED <<finding, related, runs, marks, crashes>>

-----------------------------------------------------------------------------
(* The scheduler runs the retest.                                          *)

\* What a finished checkpoint leaves: a settled one may lack a result (it was
\* skipped or blocked), a done one has it.
Outcomes == {<<"done", "pass">>, <<"done", "candidate">>, <<"done", "review">>,
             <<"error", "error">>, <<"skipped", None>>}

RunEnds(n) ==
    /\ Retest(n).status \in {"active", "cancel_requested"}
    /\ \/ \E c \in [Retest(n).snaps -> Outcomes] :
            runs' = [runs EXCEPT ![n - Cardinality(Origins)].status = "done",
                                 ![n - Cardinality(Origins)].case = c]
       \/ runs' = [runs EXCEPT ![n - Cardinality(Origins)].status = "ended"]
    /\ UNCHANGED <<finding, related, marks, loc, crashes>>

RunCancelRequested(n) ==
    /\ Retest(n).status = "active"
    /\ runs' = [runs EXCEPT ![n - Cardinality(Origins)].status = "cancel_requested"]
    /\ UNCHANGED <<finding, related, marks, loc, crashes>>

-----------------------------------------------------------------------------
(* evaluate_finding_retest                                                 *)

\* Mutant: a run passes when its results do, however many cases it had.
ClassifyResultsOnly(run) ==
    LET Cases == {run.case[s] : s \in run.snaps}
    IN  IF \E c \in Cases : c[2] = "candidate" THEN "reopened"
        ELSE IF \A c \in Cases : c[2] \in {"pass", None} THEN "verified_fixed"
        ELSE "pending"

\* classify_finding_retest
ClassifyFindingRetest(run) ==
    LET Cases == {run.case[s] : s \in run.snaps}
        complete == run.snaps # {} /\ \A c \in Cases : c[1] = "done" /\ c[2] # None
    IN  IF \E c \in Cases : c[2] = "candidate" THEN "reopened"
        ELSE IF complete /\ \A c \in Cases : c[2] = "pass" THEN "verified_fixed"
        ELSE "pending"

ResultsOf(n) == {<<n, s>> : s \in {t \in Retest(n).snaps : Retest(n).case[t][2] # None}}

MayEvaluate(a, n) == loc[a].pc = "idle" /\ Retest(n).status = "done"

BeginEvaluation(a, n) ==
    Become(a, [pc |-> "evaluate", f |-> Retest(n).finding, run |-> n,
               status |-> finding[Retest(n).finding].status])

\* A manager evaluates a done retest.
EvaluateRetest(m, n) ==
    /\ MayEvaluate(m, n)
    /\ BeginEvaluation(m, n)
    /\ UNCHANGED <<finding, related, runs, marks, crashes>>

\* The first Limit done retests.
Window == LET Done == {n \in Retests : Retest(n).status = "done"}
          IN  {n \in Done : Cardinality({k \in Done : k < n}) < Limit}

\* evaluate_completed_finding_retests: those whose finding waits for them
\* and that no event marks.
EvaluateCompleted(n) ==
    /\ n \in Window
    /\ finding[Retest(n).finding].status = FIXED_PENDING_VERIFY
    /\ n \notin marks
    /\ MayEvaluate(Maintenance, n)
    /\ BeginEvaluation(Maintenance, n)
    /\ UNCHANGED <<finding, related, runs, marks, crashes>>

\* Mutant: the run is marked before the transition.
ApplyMarksFirst(a) ==
    LET l == loc[a]
        decision == ClassifyFindingRetest(Retest(l.run))
    IN  /\ l.pc = "evaluate"
        /\ finding' = [finding EXCEPT ![l.f].results = @ \cup ResultsOf(l.run)]
        /\ marks' = marks \cup {l.run}
        /\ Become(a, IF l.status = FIXED_PENDING_VERIFY /\ decision # "pending"
                     THEN Transition(l.f, decision, TRUE, l.run, TRUE) ELSE Idle)
        /\ UNCHANGED <<related, runs, crashes>>

\* Every result is attached to the finding; then the decision, on the status
\* that was read before.
ApplyEvaluation(a) ==
    LET l == loc[a]
        decision == ClassifyFindingRetest(Retest(l.run))
    IN  /\ l.pc = "evaluate"
        /\ finding' = [finding EXCEPT ![l.f].results = @ \cup ResultsOf(l.run)]
        /\ \/ /\ l.status = FIXED_PENDING_VERIFY /\ decision # "pending"
              /\ Become(a, Transition(l.f, decision, TRUE, l.run, TRUE))
              /\ UNCHANGED marks
           \/ /\ l.status = FIXED_PENDING_VERIFY /\ decision = "pending"
              /\ marks' = marks \cup {l.run}
              /\ Become(a, Idle)
           \/ /\ l.status # FIXED_PENDING_VERIFY
              /\ Become(a, Idle)
              /\ UNCHANGED marks
        /\ UNCHANGED <<related, runs, crashes>>

\* A request or the maintenance process dies between two operations.
Crash(a) ==
    /\ loc[a].pc # "idle" /\ crashes < MaxCrashes
    /\ crashes' = crashes + 1
    /\ Become(a, Idle)
    /\ UNCHANGED <<finding, related, runs, marks>>

-----------------------------------------------------------------------------
Init ==
    /\ finding = [f \in Findings |-> Absent]
    /\ related = [s \in Snapshots |-> None]
    /\ runs = << >>
    /\ marks = {}
    /\ loc = [a \in Actors |-> Idle]
    /\ crashes = 0

Step(a) ==
    \/ CreateFinding(a) \/ RelateResult(a)
    \/ ValidateTransition(a) \/ WriteStatus(a) \/ WriteEvent(a)
    \/ EnqueueRetest(a) \/ LinkFixVerification(a) \/ ApplyEvaluation(a)

Next ==
    \/ \E m \in Managers, s \in Snapshots : ConfirmResult(m, s)
    \/ \E m \in Managers, f \in Findings :
          \/ ScheduleRetest(m, f)
          \/ \E s \in Snapshots : AddResultToFinding(m, f, s)
          \/ \E t \in Statuses : RequestTransition(m, f, t)
    \/ \E m \in Managers, n \in Retests : EvaluateRetest(m, n)
    \/ \E n \in Retests : EvaluateCompleted(n) \/ RunEnds(n) \/ RunCancelRequested(n)
    \/ \E a \in Actors : Step(a) \/ Crash(a)

Spec == Init /\ [][Next]_vars

\* Handlers run to their end, the scheduler ends every run, and maintenance
\* comes back to every retest in its window.
LiveSpec ==
    /\ Spec
    /\ \A a \in Actors : WF_vars(Step(a))
    /\ \A n \in 1..MaxRuns : /\ WF_vars(n \in Retests /\ RunEnds(n))
                             /\ SF_vars(n \in Retests /\ EvaluateCompleted(n))

-----------------------------------------------------------------------------
(* Properties.                                                             *)

Pcs == {"idle", "create", "relate", "transition", "write", "event", "enqueue",
        "link", "evaluate"}

\* Findings have a status of the table and results of known runs, retests
\* belong to findings that exist, and every actor is at a step of a handler.
TypeOK ==
    /\ \A f \in Findings : /\ finding[f].status \in Statuses \cup {None}
                           /\ finding[f].results \subseteq (1..LastRun) \X Snapshots
                           /\ Created(f) => finding[f].results # {}
    /\ related \in [Snapshots -> Findings \cup {None}]
    /\ \A s \in Snapshots : related[s] # None => Created(related[s])
    /\ \A n \in Retests : Created(Retest(n).finding) /\ Retest(n).snaps # {}
    /\ marks \subseteq Retests
    /\ \A a \in Actors : loc[a].pc \in Pcs
    /\ crashes \in 0..MaxCrashes

AllPassed(n) == /\ Retest(n).status = "done"
                /\ \A s \in Retest(n).snaps : Retest(n).case[s] = <<"done", "pass">>
Reproduced(n) == /\ Retest(n).status = "done"
                 /\ \E s \in Retest(n).snaps : Retest(n).case[s][2] = "candidate"

\* Whatever managers and maintenance do at the same time, a finding is
\* verified fixed only if a finished retest of it passed in every case, is
\* reopened only if one reproduced it, and waits for verification only if
\* a retest was scheduled: no request of a manager alone gets there.
EvidenceBehindStatus ==
    \A f \in Findings :
        /\ finding[f].status = VERIFIED_FIXED => \E n \in RetestsOf(f) : AllPassed(n)
        /\ finding[f].status = REOPENED => \E n \in RetestsOf(f) : Reproduced(n)
        /\ finding[f].status = FIXED_PENDING_VERIFY => RetestsOf(f) # {}

\* Findings are well formed and no status claims more than the retests show.
FindingSound == TypeOK /\ EvidenceBehindStatus

Applied(n) == \/ n \in marks
              \/ \E a \in Actors : loc[a].pc \in {"write", "event"} /\ loc[a].run = n
                                   /\ loc[a].code

\* A retest that decides is applied in the end, also when the process that
\* evaluates it dies half way: the finding does not stay pending.
DecisiveRetestSettles ==
    \A n \in Cardinality(Origins) + 1 .. MaxRuns :
        (/\ n \in Retests /\ ~Applied(n)
         /\ AllPassed(n) \/ Reproduced(n)
         /\ finding[Retest(n).finding].status = FIXED_PENDING_VERIFY)
          ~> ~(/\ n \in Retests
               /\ finding[Retest(n).finding].status = FIXED_PENDING_VERIFY)

Support(f) == {s \in Snapshots : <<Origin[s], s>> \in finding[f].results}

\* A retest replays every snapshot that supports the finding when it is
\* scheduled.
RetestReplaysSupport ==
    [][\A m \in Managers : loc[m].pc = "idle" /\ loc'[m].pc = "enqueue" =>
          loc'[m].snaps = Support(loc'[m].f)]_vars
=============================================================================
