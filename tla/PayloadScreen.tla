---- MODULE PayloadScreen ----
\* The per-parameter screening adapter (tool/sqli_screen.py): one baseline
\* request, then a fixed list of probes for every target parameter, each sent
\* through the scheduler's request executor, which may refuse it; the rows are
\* judged into one result. A reply is abstracted to its status class and to the
\* two observations the code makes on it.
EXTENDS Naturals, FiniteSets

CONSTANTS
    ScreenMethods,   \* methods of the operations
    Overrides,       \* what an operator may write as the class of an operation
    Probes,          \* names of the probes, a boolean pair among them
    Targets,         \* parameters of the request
    ReplyChoices     \* replies a probe may get: [status, sign]

\* status: "base" for the baseline's status and body, "body" for its status with
\* a clearly different body, "rejected" another 4xx, "server" 5xx, "problem" for
\* a transport error, a 401, 403 or 429; "none" for no request. sign: an error
\* marker the baseline did not have, or a timing probe that took much longer.
ASSUME ScreenAssumption ==
    /\ {"true", "false"} \subseteq Probes
    /\ IsFiniteSet(Targets)
    /\ ReplyChoices \subseteq
         [status : {"base", "body", "rejected", "server", "problem"}, sign : BOOLEAN]

VARIABLES
    screen,      \* the snapshot's class, its targets, whether a readback is registered
    stage,       \* where the replay is
    replies,     \* what the probes of each target were answered
    judged       \* the result's verdict

screenVars == <<screen, stage, replies, judged>>

\* SCREENING_CLASS_RULES.
SendsProbes(class) == class \in {"read_only", "additive", "idempotent_config"}
NeedsReadback(class) == class \in {"additive", "idempotent_config", "stateful"}
KnownClasses == {"read_only", "additive", "idempotent_config", "stateful", "destructive", "unknown"}

\* DEFAULT_SCREENING_CLASS_BY_METHOD.
DefaultClass(method) ==
    CASE method \in {"GET", "HEAD", "OPTIONS"} -> "read_only"
      [] method \in {"POST", "DELETE"} -> "destructive"
      [] method \in {"PUT", "PATCH"} -> "stateful"
      [] OTHER -> "unknown"

\* _screening_class: a stored class that is none of the known ones is ignored.
ClassOf(method, stored) == IF stored \in KnownClasses THEN stored ELSE DefaultClass(method)

----
\* Which snapshots there are to screen. The parameters of an operation are
\* told apart by what the code asks of them: where they are, whether their type
\* holds text, and whether the name is authentication scaffolding (SKIP_NAMES).
Kinds == {"query text", "query other", "body text", "body other", "path", "scaffolding"}

\* The documented operations, with the origins their document's servers give
\* (templated and relative ones left out).
Documents == [method : ScreenMethods, kinds : [Targets -> Kinds], origins : SUBSET {"o1", "o2"}]

\* build_sqli_screen_manifest: an operation is listed with its text parameters
\* when it has any, and with a host when the document names exactly one.
ManifestTargets(doc) == {t \in Targets : doc.kinds[t] \in {"query text", "body text"}}
Manifest == {doc \in Documents : ManifestTargets(doc) # {}}
RoutePending(doc) == Cardinality(doc.origins) # 1

\* persist_sqli_screen_snapshots: pending operations are skipped; the class is
\* the operator's for this method and path, or the method's.
PlannedScreens(registered) ==
    {[class |-> ClassOf(doc.method, IF o = "none" THEN DefaultClass(doc.method) ELSE o),
      targets |-> ManifestTargets(doc), readback |-> registered] :
        doc \in {d \in Manifest : ~RoutePending(d)}, o \in Overrides \cup {"none"}}

\* _targets and _screening_class of a snapshot from another source: the query
\* and body parameters it was built with, those sent empty left out.
RecordedScreens(registered) ==
    {[class |-> DefaultClass(m), targets |-> ts, readback |-> registered] :
        m \in ScreenMethods, ts \in SUBSET Targets}

Unsent == [status |-> "none", sign |-> FALSE]

\* Whether a readback is registered is an argument of the call that no caller
\* in the repository gives yet; its default is FALSE.
ScreenInit ==
    /\ \E registered \in BOOLEAN :
         screen \in PlannedScreens(registered) \cup RecordedScreens(registered)
    /\ stage = "start"
    /\ replies = [t \in Targets |-> [p \in Probes |-> Unsent]]
    /\ judged = "none"

----
\* _screen_one_param: the row of one parameter.

Problem(r) == r.status = "problem"
UsableReply(r) == r.status \notin {"none", "problem"}

\* The boolean pair was answered differently, one of them like the baseline.
BooleanDivergence(row) ==
    /\ UsableReply(row["true"]) /\ UsableReply(row["false"])
    /\ row["true"].status # row["false"].status
    /\ {"base", "body"} \cap {row["true"].status, row["false"].status} # {}

Signals(row) ==
    \/ BooleanDivergence(row)
    \/ \E p \in Probes : UsableReply(row[p]) /\ (row[p].sign \/ row[p].status = "server")

RowVerdict(row) ==
    IF Signals(row) THEN "interest"
    ELSE IF \E p \in Probes : Problem(row[p]) THEN "not_evaluable"
    ELSE IF \A p \in Probes : row[p].status = "rejected" THEN "blocked"
    ELSE "clean"

\* _screen_judge over the rows, after a usable baseline.
JudgeRowsFirst(rows) ==
    LET verdicts == {RowVerdict(replies[t]) : t \in rows} IN
    IF "interest" \in verdicts THEN "need_review"
    ELSE IF rows # {} /\ verdicts \subseteq {"not_evaluable", "blocked"} THEN "not_evaluable"
    ELSE IF rows = {} THEN "not_evaluable"
    ELSE "no_vuln"

JudgeRows(rows) ==
    LET verdicts == {RowVerdict(replies[t]) : t \in rows} IN
    IF "interest" \in verdicts THEN "need_review"
    ELSE IF verdicts \cap {"not_evaluable", "blocked"} # {} THEN "not_evaluable"
    ELSE IF rows = {} THEN "not_evaluable"
    ELSE "no_vuln"

----
\* _screen_replay.

Ended(verdict) == stage' = "ended" /\ judged' = verdict /\ UNCHANGED <<screen, replies>>

\* ExecutionRequestBlocked: without a readback the replay is refused, and the
\* request executor refuses a request when budget, lease or policy end.
ReadbackMissing ==
    /\ stage = "start" /\ NeedsReadback(screen.class) /\ ~screen.readback
    /\ Ended("blocked")

RequestRefused ==
    /\ stage \in {"start", "probing"}
    /\ stage = "start" => ~(NeedsReadback(screen.class) /\ ~screen.readback)
    /\ stage = "start" => ~(~SendsProbes(screen.class) /\ screen.targets = {})
    /\ stage = "probing" => SendsProbes(screen.class) /\ screen.targets # {}
    /\ Ended("blocked")

\* A class that sends no probes is not even tried without targets.
NothingToScreen ==
    /\ stage = "start" /\ ~(NeedsReadback(screen.class) /\ ~screen.readback)
    /\ ~SendsProbes(screen.class) /\ screen.targets = {}
    /\ Ended("not_evaluable")

Baseline(outcome) ==
    /\ stage = "start" /\ ~(NeedsReadback(screen.class) /\ ~screen.readback)
    /\ ~(~SendsProbes(screen.class) /\ screen.targets = {})
    /\ IF outcome = "usable" THEN stage' = "probing" /\ UNCHANGED <<screen, replies, judged>>
       ELSE Ended(IF outcome = "transport error" THEN "error" ELSE "not_evaluable")

\* One target's probes; a probe that raises is a transport error of its own.
ScreenParameter(t, row) ==
    /\ stage = "probing" /\ SendsProbes(screen.class)
    /\ t \in screen.targets
    /\ \A p \in Probes : replies[t][p] = Unsent
    /\ replies' = [replies EXCEPT ![t] = row]
    /\ UNCHANGED <<screen, stage, judged>>

\* Every target has its row; without probes the row's probes stay unsent.
Judge ==
    /\ stage = "probing"
    /\ SendsProbes(screen.class) => \A t \in screen.targets, p \in Probes : replies[t][p] # Unsent
    /\ Ended(JudgeRows(screen.targets))

ScreenNext ==
    \/ ReadbackMissing \/ RequestRefused \/ NothingToScreen
    \/ \E outcome \in {"usable", "unusable", "transport error"} : Baseline(outcome)
    \/ \E t \in Targets, row \in [Probes -> ReplyChoices] : ScreenParameter(t, row)
    \/ Judge

----
\* A parameter is only cleared by replies: where probes are sent, a result
\* no_vuln means that every probe of every target was answered by the service
\* itself, none refused, throttled or lost (sqli_screen.py:467-538, 710-750).
ClearedByReplies ==
    (judged = "no_vuln" /\ SendsProbes(screen.class)) =>
      \A t \in screen.targets, p \in Probes : UsableReply(replies[t][p])

\* sqli_screen.py:744: when the class sends no probe, the result is not_evaluable.
UnsentIsNotCleared ==
    (judged = "no_vuln") => \E t \in screen.targets, p \in Probes : replies[t][p] # Unsent
====
