---- MODULE InterfaceChain ----
\* Read chains (tool/interface_chain.py and tools/interface_chain_cli.py): a
\* declarative definition is validated, saved, bound to the imported endpoints
\* and replayed live, one step after another; a step takes values from the
\* replies of earlier steps. Endpoints may be imported anew during a replay.
\* A reply is abstracted to the one field that later steps refer to.
EXTENDS Naturals, Sequences, FiniteSets

CONSTANTS
    RawChains,      \* definitions an operator may try to save
    MaxReplays      \* bound: replays started

\* A step: [read, profile, secret: BOOLEAN, placeholders: set of names,
\* dependsOn: set of step numbers, params: set of parameters]; a parameter:
\* [name, position, required, nonEmpty, ref (0 for a constant), value].
ASSUME ChainAssumption ==
    /\ MaxReplays \in Nat
    /\ \E c \in RawChains : \A d \in RawChains : Len(d) <= Len(c)   \* a longest one
    /\ \A c \in RawChains : c \in Seq([read : BOOLEAN, profile : BOOLEAN, secret : BOOLEAN,
         placeholders : SUBSET STRING, dependsOn : SUBSET Nat,
         params : SUBSET [name : STRING, position : {"path", "query"}, required : BOOLEAN,
                          nonEmpty : BOOLEAN, ref : Nat, value : {"constant", "empty"}]])

VARIABLES
    saved,       \* the stored definition, <<>> before the first import
    bound,       \* steps whose endpoint asset still agrees with the definition
    replay,      \* the replay in progress
    sent,        \* requests of the replay: step and the upstream values it carried
    answered,    \* what this replay's own requests were answered with
    replays      \* replays started so far

chainVars == <<saved, bound, replay, sent, answered, replays>>

Absent == "absent"              \* no source of that reference
Fields == {"stale", "fresh", "empty"}
Bodies == Fields \cup {"without the field"}
Steps(c) == 1..Len(c)
Lengths == {Len(c) : c \in RawChains}
MaxSteps == CHOOSE n \in Lengths : \A m \in Lengths : m <= n
NoReplay == [pc |-> "idle", chain |-> <<>>, at |-> 1, captured |-> [k \in 1..MaxSteps |-> Absent],
             failures |-> {}]
NothingAnswered == [k \in 1..MaxSteps |-> Absent]

ChainInit ==
    /\ saved = <<>>
    /\ bound = 1..MaxSteps
    /\ replay = NoReplay
    /\ sent = {}
    /\ answered = NothingAnswered
    /\ replays = 0

----
\* normalize_chain_definition.

Refs(step) == {p.ref : p \in step.params} \ {0}

\* A reference, declared or derived, points to an earlier step.
ValidParameter(p, k) == p.ref < k

ValidStep(step, k) ==
    /\ step.read
    /\ \A p \in step.params : ValidParameter(p, k)
    /\ step.dependsOn \subseteq 1..(k - 1)
    /\ step.dependsOn # {} => Refs(step) \subseteq step.dependsOn
    /\ \A name \in step.placeholders :
         \E p \in step.params : p.name = name /\ p.position = "path" /\ p.required

DependsOn(step) == IF step.dependsOn # {} THEN step.dependsOn ELSE Refs(step)

KnownProfiles(c) == \A k \in Steps(c) : c[k].profile

\* assert_no_secrets.
Clean(c) == \A k \in Steps(c) : ~c[k].secret

Valid(c) ==
    /\ c # <<>>
    /\ \A k \in Steps(c) : ValidStep(c[k], k)
    /\ KnownProfiles(c)
    /\ Clean(c)

----
\* Resolution in memory: bind_chain_sources and resolve_chain.

SourcesBound(c) == \A k \in Steps(c) : k \in bound

\* resolve_upstream_ref: whether the field is there.
Found(captured, ref) == captured[ref] \in Fields

Resolved(p, captured) ==
    IF p.ref = 0 THEN p.value
    ELSE IF Found(captured, p.ref) THEN captured[p.ref] ELSE Absent

\* A parameter blocks its step: a required value is missing or empty.
Blocks(p, captured) ==
    IF p.ref = 0 THEN p.required /\ p.value = "empty"
    ELSE IF Found(captured, p.ref) THEN p.nonEmpty /\ captured[p.ref] = "empty"
    ELSE p.required

\* render_path_template leaves placeholders without a value unresolved.
PathResolved(step, captured) ==
    \A name \in step.placeholders :
      \E p \in step.params : p.name = name /\ Resolved(p, captured) \notin {Absent, "empty"}

\* The steps that are ready, in the order of the chain.
Ready(c, captured, failures) ==
    LET ready[k \in 0..Len(c)] ==
          IF k = 0 THEN {}
          ELSE LET ok == /\ k \notin failures
                         /\ DependsOn(c[k]) \subseteq ready[k - 1]
                         /\ k \in bound
                         /\ \A p \in c[k].params : ~Blocks(p, captured)
                         /\ PathResolved(c[k], captured)
               IN IF ok THEN ready[k - 1] \cup {k} ELSE ready[k - 1]
    IN ready[Len(c)]

----
\* Operations.

\* command_import: persist_chain_definition replaces the definition of the name.
ImportChain(c) ==
    /\ Valid(c) /\ c # saved
    /\ saved' = c
    /\ UNCHANGED <<bound, replay, sent, answered, replays>>

\* Importing documents or traffic changes what the endpoint of a step looks like.
EndpointDrifts(k) ==
    /\ bound' = IF k \in bound THEN bound \ {k} ELSE bound \cup {k}
    /\ UNCHANGED <<saved, replay, sent, answered, replays>>

\* command_replay and the start of replay_chain_live: the definition is loaded
\* once; the operator may provide recorded replies as sources.
StartReplay(recorded) ==
    /\ replay.pc = "idle" /\ replays < MaxReplays
    /\ Valid(saved) /\ SourcesBound(saved)
    /\ replay' = [NoReplay EXCEPT !.pc = "step", !.chain = saved,
                    !.captured = [k \in 1..MaxSteps |-> IF recorded THEN "stale" ELSE Absent]]
    /\ sent' = {} /\ answered' = NothingAnswered
    /\ replays' = replays + 1
    /\ UNCHANGED <<saved, bound>>

Carried(step, captured) == [r \in Refs(step) |-> IF Found(captured, r) THEN captured[r] ELSE Absent]

\* One turn of the loop up to the request: the whole chain is resolved again.
ComposeStep ==
    /\ replay.pc = "step" /\ replay.at <= Len(replay.chain)
    /\ LET k == replay.at IN
       IF k \in Ready(replay.chain, replay.captured, replay.failures)
       THEN /\ sent' = sent \cup {[step |-> k, values |-> Carried(replay.chain[k], replay.captured)]}
            /\ replay' = [replay EXCEPT !.pc = "sent"]
       ELSE /\ replay' = [replay EXCEPT !.at = k + 1, !.failures = @ \cup {k}]
            /\ UNCHANGED sent
    /\ UNCHANGED <<saved, bound, answered, replays>>

FailuresKept(failures, k) == failures

\* The step numbers that failed so far, when step k's request failed.
FailuresAfter(failures, k) == failures \cup {k}

\* replay_snapshot_with_json: a reply with a JSON body is captured.
StepAnswered(body) ==
    /\ replay.pc = "sent"
    /\ LET k == replay.at IN
       /\ replay' = [replay EXCEPT !.pc = "step", !.at = k + 1, !.captured[k] = body]
       /\ answered' = [answered EXCEPT ![k] = body]
    /\ UNCHANGED <<saved, bound, sent, replays>>

StepFails ==
    /\ replay.pc = "sent"
    /\ replay' = [replay EXCEPT !.pc = "step", !.at = @ + 1,
                    !.failures = FailuresAfter(@, replay.at)]
    /\ UNCHANGED <<saved, bound, sent, answered, replays>>

\* The end of the chain, or an exception (no account context, no asset, no URL).
EndReplay ==
    /\ replay.pc # "idle"
    /\ replay' = NoReplay
    /\ UNCHANGED <<saved, bound, sent, answered, replays>>

ChainNext ==
    \/ \E c \in RawChains : ImportChain(c)
    \/ \E k \in 1..MaxSteps : EndpointDrifts(k)
    \/ \E recorded \in BOOLEAN : StartReplay(recorded)
    \/ ComposeStep
    \/ \E body \in Bodies \ {"stale"} : StepAnswered(body)
    \/ StepFails
    \/ EndReplay

ChainSpec == ChainInit /\ [][ChainNext]_chainVars

----
\* A request of a replay depends only on steps this replay had answered, and
\* the values it carries are theirs: neither a recorded reply nor an earlier
\* replay stands in for a step that failed or was blocked
\* (interface_chain.py:788-797, 989-1001, 1069-1073).
CarriesItsOwnReplies ==
    \A m \in sent :
      \A r \in DOMAIN m.values : answered[r] # Absent /\ m.values[r] \in {answered[r], Absent}
====
