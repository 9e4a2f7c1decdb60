---- MODULE AiSession ----
\* Sessions of the AI command line (ai_cli/): the effective policy of a session,
\* its approval gate, and the two loops that hand tool calls to it, one over
\* requests read from a file and one over the answers of a model. Sessions run
\* at the same time and share the directory of per-tool rules, which each reads
\* once, when it starts.
EXTENDS Naturals, FiniteSets

CONSTANTS
    Sessions,
    Tools,           \* [name, capability, effects, risky]
    Capabilities,    \* capability names, known to the presets or not
    SessionArgs,     \* [mode ("requests", "model", "single"), access, approval, file, yes, interactive, dry]
    NoFile,
    MaxToolCalls

ASSUME SessionAssumption ==
    /\ \A t \in Tools : t.capability \in Capabilities /\ t.effects \in BOOLEAN /\ t.risky \in BOOLEAN
    /\ \A t \in Tools : t.risky => t.effects   \* as every registered tool is declared
    /\ MaxToolCalls \in Nat

VARIABLES
    rules,       \* the per-tool rules stored in the policy directory
    session,     \* each session: its policy, what it was granted, its exit code
    ran,         \* how often a session ran each tool
    approved,    \* how many calls of each tool the user's answers cover
    toolCalls

sessionVars == <<rules, session, ran, approved, toolCalls>>

----
\* policy.py.

KnownToPresets == {"read", "write", "network", "shell"}

PresetAllows(access) ==
    CASE access = "read-only" -> {"read"}
      [] access = "workspace-write" -> {"read", "write"}
      [] access = "full-access" -> KnownToPresets
      [] OTHER -> {}

PresetStatus(access, cap) ==
    IF access = "custom" \/ cap \notin KnownToPresets THEN "unknown"
    ELSE IF cap \in PresetAllows(access) THEN "allowed" ELSE "denied"

\* A policy file: its access preset with its own capabilities over it. The
\* arguments replace access and approval unless both have their default values;
\* what the file's preset and capabilities said stays.
FileStatus(file, cap) ==
    IF cap \in DOMAIN file.capabilities THEN file.capabilities[cap]
    ELSE PresetStatus(file.access, cap)

ArgumentsGiven(args) == args.access # "read-only" \/ args.approval # "on-risk"

CapabilityStatus(args, cap) ==
    IF args.file = NoFile THEN PresetStatus(args.access, cap)
    ELSE IF FileStatus(args.file, cap) # "unknown" \/ ~ArgumentsGiven(args) THEN FileStatus(args.file, cap)
    ELSE PresetStatus(args.access, cap)

Approval(args) ==
    IF args.file # NoFile /\ ~ArgumentsGiven(args) THEN args.file.approval ELSE args.approval

NoSession == [state |-> "idle", mode |-> "none", yes |-> FALSE, interactive |-> FALSE, dry |-> FALSE,
              approval |-> "none", status |-> [c \in Capabilities |-> "unknown"],
              trusted |-> {}, granted |-> {}, exit |-> "ok"]

SessionInit ==
    /\ rules = [t \in Tools |-> "none"]
    /\ session = [s \in Sessions |-> NoSession]
    /\ ran = [s \in Sessions |-> [t \in Tools |-> 0]]
    /\ approved = [s \in Sessions |-> [t \in Tools |-> 0]]
    /\ toolCalls = 0

\* compose_policy and merge_fragments.
StartSession(s, args) ==
    /\ session[s].state = "idle"
    /\ session' = [session EXCEPT ![s] =
         [NoSession EXCEPT !.state = "open", !.mode = args.mode, !.yes = args.yes,
            !.interactive = args.interactive, !.dry = args.dry,
            !.approval = Approval(args),
            !.status = [c \in Capabilities |-> CapabilityStatus(args, c)],
            !.trusted = {t \in Tools : rules[t] = "allow"}]]
    /\ UNCHANGED <<rules, ran, approved, toolCalls>>

\* The user edits a rule file by hand.
EditRule(t, rule) ==
    /\ rules[t] # rule /\ toolCalls < MaxToolCalls
    /\ rules' = [rules EXCEPT ![t] = rule]
    /\ toolCalls' = toolCalls + 1
    /\ UNCHANGED <<session, ran, approved>>

----
\* ApprovalGate.decide.

NeedsPrompt(s, t) == IF session[s].approval = "always" THEN t.effects ELSE t.risky

Decision(s, t) ==
    IF session[s].status[t.capability] = "denied" THEN "denied"
    ELSE IF \/ session[s].yes
            \/ t \in session[s].trusted \/ t \in session[s].granted
            \/ session[s].approval = "never"
            \/ ~NeedsPrompt(s, t)
    THEN "approved"
    ELSE IF ~session[s].interactive THEN "approval_required" ELSE "prompt"

\* The worst outcome a session has seen is its exit code.
Worse(old, new) == IF "approval" \in {old, new} THEN "approval" ELSE IF "error" \in {old, new} THEN "error" ELSE "ok"

\* The commands task and shell hand over one call and end.
AfterCall(s) == IF session[s].mode = "single" THEN "closed" ELSE "open"

WithExit(s, code) == [session EXCEPT ![s].exit = Worse(@, code), ![s].state = AfterCall(s)]

CountCall == toolCalls < MaxToolCalls /\ toolCalls' = toolCalls + 1

\* Running the tool, unless the session only tries out: invalid arguments and
\* exceptions of the tool are outcomes, not crashes.
Invoke(s, t, granted, ok) ==
    /\ session' = [WithExit(s, IF ok \/ session[s].dry THEN "ok" ELSE "error") EXCEPT ![s].granted = granted]
    /\ ran' = IF session[s].dry THEN ran ELSE [ran EXCEPT ![s][t] = @ + 1]

CallApproved(s, t, ok) ==
    /\ session[s].state = "open" /\ Decision(s, t) = "approved" /\ CountCall
    /\ Invoke(s, t, session[s].granted, ok)
    /\ UNCHANGED <<rules, approved>>

CallDenied(s, t) ==
    /\ session[s].state = "open" /\ Decision(s, t) = "denied" /\ CountCall
    /\ session' = WithExit(s, "error")
    /\ UNCHANGED <<rules, ran, approved>>

\* Without a user to ask: the model loop ends here, the request loop goes on.
CallNeedsApproval(s, t) ==
    /\ session[s].state = "open" /\ Decision(s, t) = "approval_required" /\ CountCall
    /\ session' = [WithExit(s, "approval") EXCEPT
         ![s].state = IF session[s].mode = "requests" THEN "open" ELSE "closed"]
    /\ UNCHANGED <<rules, ran, approved>>

\* The answers of the prompt: once, for this session, always, or no.
GrantedAfterAny(s, t, answer) == IF answer = "no" THEN session[s].granted ELSE session[s].granted \cup {t}

GrantedAfter(s, t, answer) == IF answer = "session" THEN session[s].granted \cup {t} ELSE session[s].granted

CallPrompted(s, t, answer, ok) ==
    /\ session[s].state = "open" /\ Decision(s, t) = "prompt" /\ CountCall
    /\ rules' = IF answer = "always" THEN [rules EXCEPT ![t] = "allow"] ELSE rules
    /\ approved' = [approved EXCEPT ![s][t] = CASE answer = "no" -> @
                                                [] answer = "session" -> MaxToolCalls
                                                [] OTHER -> @ + 1]
    /\ IF answer = "no" THEN session' = WithExit(s, "error") /\ UNCHANGED ran
       ELSE Invoke(s, t, GrantedAfter(s, t, answer), ok)

UnknownTool(s) ==
    /\ session[s].state = "open" /\ CountCall
    /\ session' = WithExit(s, "error")
    /\ UNCHANGED <<rules, ran, approved>>

\* The requests are used up; the model finishes, fails or has used up its steps.
EndRequests(s) ==
    /\ session[s].state = "open" /\ session[s].mode = "requests"
    /\ session' = [session EXCEPT ![s].state = "closed"]
    /\ UNCHANGED <<rules, ran, approved, toolCalls>>

ModelEnds(s, code) ==
    /\ session[s].state = "open" /\ session[s].mode = "model"
    /\ session' = [session EXCEPT ![s].state = "closed", ![s].exit = Worse(@, code)]
    /\ UNCHANGED <<rules, ran, approved, toolCalls>>

SessionNext ==
    \/ \E s \in Sessions, args \in SessionArgs : StartSession(s, args)
    \/ \E t \in Tools, rule \in {"none", "allow", "deny"} : EditRule(t, rule)
    \/ \E s \in Sessions, t \in Tools : CallDenied(s, t) \/ CallNeedsApproval(s, t)
    \/ \E s \in Sessions, t \in Tools, ok \in BOOLEAN : CallApproved(s, t, ok)
    \/ \E s \in Sessions, t \in Tools, ok \in BOOLEAN, answer \in {"once", "session", "always", "no"} :
         CallPrompted(s, t, answer, ok)
    \/ \E s \in Sessions : UnknownTool(s) \/ EndRequests(s) \/ ModelEnds(s, "ok") \/ ModelEnds(s, "error")

----
\* Approval is not inherited: a session that asks runs a risky tool no more often
\* than the user's answers cover, unless a rule trusted the tool when the session
\* started (session.py:98-134).
RisksAreApproved ==
    \A s \in Sessions, t \in Tools :
      ( /\ t.risky /\ ~session[s].yes /\ session[s].approval \in {"always", "on-risk"}
        /\ t \notin session[s].trusted )
      => ran[s][t] <= approved[s][t]

\* policy.py:5-7: "Unknown capabilities are prompted by default and can be allowed
\* or denied through custom policy files or per-tool fragments."
UnknownIsPrompted ==
    \A s \in Sessions, t \in Tools :
      ( /\ session[s].status[t.capability] = "unknown"
        /\ ~session[s].yes /\ session[s].approval \in {"always", "on-risk"}
        /\ t \notin session[s].trusted )
      => ran[s][t] <= approved[s][t]
====
