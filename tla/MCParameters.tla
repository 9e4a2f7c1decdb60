---- MODULE MCParameters ----
\* What a project knows of its parameters and expects of its accounts, each service
\* on an instance of its own: a behaviour is one of RequestFixture,
\* AuthorizationPolicy, ValidationReplay, RelationWorkbench, PayloadScreen,
\* ObservationRouting or ParameterArchive.
EXTENDS RequestFixture, AuthorizationPolicy, ValidationReplay, RelationWorkbench, PayloadScreen,
        ObservationRouting, ParameterArchive, TLC

CONSTANTS
    Parts,                             \* the services looked at
    field1, field2, user1, user2

VARIABLE part    \* the service this behaviour is about

-----------------------------------------------------------------------------
(* Authorization: two principals of different scope and rank.             *)
FromRank(n) == [roles |-> {}, minRank |-> n, labels |-> {}]

MCPrincipals ==
    {[id |-> "p1", role |-> "user", rank |-> 0, scope |-> "a", labels |-> {}],
     [id |-> "p2", role |-> "admin", rank |-> 1, scope |-> "b", labels |-> {}]}

\* Other scopes are denied, unless an administrator asks.
MCRules ==
    {[id |-> "r1", priority |-> 1, owner |-> FromRank(0), subject |-> FromRank(0),
      scope |-> "different", decision |-> "deny"],
     [id |-> "r2", priority |-> 2, owner |-> FromRank(0), subject |-> FromRank(1),
      scope |-> "any", decision |-> "allow"]}

MCReplyChoices ==
    {[status |-> s, sign |-> FALSE] : s \in {"base", "body", "rejected", "problem"}}
    \cup {[status |-> "server", sign |-> TRUE]}

(* Workbench: reads within the automatic limit over two pairs that share their
   source; one pair with writes, where an automatic run looks at every relation
   first; one pair above the limit, with an input that has no value.        *)
OnePair  == [f \in RelFields |-> "pair"]
TwoPairs == field1 :> field1 @@ field2 :> field2
Setup(pair, mutation, estimate, auto, first, missing) ==
    [pair |-> pair, mutation |-> mutation, allowed |-> mutation, estimate |-> estimate, auto |-> auto,
     first |-> first, gap |-> missing]
MCSetups == {Setup(TwoPairs, FALSE, 2, 4, {}, FALSE), Setup(OnePair, TRUE, 3, 3, RelFields, FALSE),
             Setup(OnePair, FALSE, 2, 1, {}, TRUE)}

(* Routing: A has a host rule, B only its bindings.                        *)
MCHostRules == "A" :> 82 @@ "B" :> 0

(* Archive: two captures of the account, one of another; name 3 is a session. *)
Capture(account, e, found) == [account |-> account, endpoint |-> e, found |-> found]
MCCaptures ==
    {Capture("own", 1, {<<"response", 1, 11>>}),
     Capture("own", 2, {<<"request", 1, 12>>, <<"request", 1, 13>>, <<"request", 3, 31>>}),
     Capture("other", 1, {<<"request", 1, 14>>})}
MCExported == {Capture("none", 2, {<<"request", 2, 21>>})}
Body(reference, fields) == [reference |-> reference, fields |-> fields]
MCDescribed == {[endpoint |-> 3, params |-> {1},
                 schemas |-> [request |-> Body(TRUE, {3}), response |-> Body(FALSE, {2})]]}

-----------------------------------------------------------------------------
\* A service that is not looked at has one initial state.
Init ==
    /\ part \in Parts
    /\ FixtureInit /\ PolicyInit /\ CaseInit /\ RelInit /\ ScreenInit /\ RoutingInit /\ ArchiveInit
    /\ part # "workbench" => setup = Setup(OnePair, FALSE, 2, 1, {}, TRUE)
    /\ part # "screen" => screen = [class |-> "read_only", targets |-> Targets, readback |-> FALSE]

Next ==
    /\ UNCHANGED part
    /\ \/ /\ part = "fixture" /\ FixtureNext
          /\ UNCHANGED <<policyVars, caseVars, relVars, screenVars, routingVars, archiveVars>>
       \/ /\ part = "policy" /\ PolicyNext
          /\ UNCHANGED <<fixtureVars, caseVars, relVars, screenVars, routingVars, archiveVars>>
       \/ /\ part = "replay" /\ CaseNext
          /\ UNCHANGED <<fixtureVars, policyVars, relVars, screenVars, routingVars, archiveVars>>
       \/ /\ part = "workbench" /\ RelNext
          /\ UNCHANGED <<fixtureVars, policyVars, caseVars, screenVars, routingVars, archiveVars>>
       \/ /\ part = "screen" /\ ScreenNext
          /\ UNCHANGED <<fixtureVars, policyVars, caseVars, relVars, routingVars, archiveVars>>
       \/ /\ part = "routing" /\ RoutingNext
          /\ UNCHANGED <<fixtureVars, policyVars, caseVars, relVars, screenVars, archiveVars>>
       \/ /\ part = "archive" /\ ArchiveNext
          /\ UNCHANGED <<fixtureVars, policyVars, caseVars, relVars, screenVars, routingVars>>

parameterVars == <<fixtureVars, policyVars, caseVars, relVars, screenVars, routingVars, archiveVars, part>>

Spec == Init /\ [][Next]_parameterVars

\* The fields of one endpoint pair, and the imports and operators of the archive, are
\* interchangeable.
Alike == Permutations({field1, field2}) \cup Permutations({user1, user2})
====
