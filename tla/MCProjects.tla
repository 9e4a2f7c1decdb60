---- MODULE MCProjects ----
\* The services that hold credentials or act with them, and what a project makes of
\* its endpoints, each on an instance of its own: a behaviour is one of MfaBroker,
\* AuthRepair, AccountContext, AuthRecipe, AgentAccess (with TestPlan), UnlockPlan,
\* AiSession, InterfaceChain or RuleProjection, so their state spaces add up instead
\* of multiplying.
EXTENDS MfaBroker, AuthRepair, AccountContext, AuthRecipe, AgentAccess, UnlockPlan, AiSession,
        InterfaceChain, RuleProjection, TLC

CONSTANTS
    Parts,                             \* the services looked at
    caller1, caller2

VARIABLE part    \* the service this behaviour is about

-----------------------------------------------------------------------------
MCUnder == "*.x" :> {"api"}

(* Imported recipes: redirects within a login, a second factor asked for and
   one pushed, and an origin the adapter does not have.                    *)
Request(origin, needs, gives, hops) == RecipeStep("http", needs, gives, TRUE, origin, hops, 0)
MCUserRecipes ==
    {[steps |-> <<Request("auth", {}, {"token"}, 2), Request("auth", {"token"}, {"access"}, 1)>>,
      needs |-> {"access"}, kind |-> "bearer", jar |-> FALSE],
     [steps |-> <<Request("auth", {}, {}, 0),
                  RecipeStep("pull", {}, {"code"}, TRUE, "mfa", 0, 3),
                  Request("auth", {"code"}, {"access"}, 0)>>,
      needs |-> {"access"}, kind |-> "mixed", jar |-> TRUE],
     [steps |-> <<RecipeStep("push", {}, {"code"}, TRUE, "none", 0, 0), Request("old", {"code"}, {}, 0)>>,
      needs |-> {}, kind |-> "cookie", jar |-> TRUE]}

(* Unlock plan: the second step needs the fact the first one produces.     *)
MCPlanSteps == <<[key |-> "obtain", requires |-> {}, produces |-> {"owner"}],
                 [key |-> "mint", requires |-> {"owner"}, produces |-> {}]>>

(* Chains: a listing whose field two later steps use, with an optional and a
   required reference; a forward reference and a stored secret.            *)
Param(n, pos, req, ref) ==
    [name |-> n, position |-> pos, required |-> req, nonEmpty |-> req, ref |-> ref,
     value |-> "constant"]
ChainStep(params, deps) ==
    [read |-> TRUE, profile |-> TRUE, secret |-> FALSE, dependsOn |-> deps, params |-> params,
     placeholders |-> {p.name : p \in {q \in params : q.position = "path"}}]
Listing == ChainStep({Param("size", "query", FALSE, 0)}, {})
MCRawChains ==
    {<<Listing, ChainStep({Param("id", "path", TRUE, 1)}, {}),
       ChainStep({Param("id", "path", TRUE, 1), Param("tag", "query", FALSE, 2)}, {1, 2})>>,
     <<Listing, ChainStep({Param("tag", "query", FALSE, 1)}, {})>>,
     <<ChainStep({Param("id", "path", TRUE, 2)}, {}), Listing>>,
     <<[Listing EXCEPT !.secret = TRUE]>>}

(* Rules: a listing, a creation and a change of one resource; in the second
   project two roles have the same key.                                    *)
Endpoint(m, words, segs) ==
    [method |-> m, words |-> words, body |-> m # "GET", created |-> FALSE, segs |-> segs]
MCEndpoints == <<Endpoint("GET", {}, <<"orders">>), Endpoint("POST", {}, <<"orders", "{}">>),
                 Endpoint("POST", {"modify"}, <<"orders", "update">>)>>
Occurrence(id, e, dir, name, pos, vals) ==
    [id |-> id, endpoint |-> e, dir |-> dir, name |-> name, pos |-> pos, path |-> 1, vals |-> vals,
     type |-> "string", located |-> TRUE]
Archived(name, rev, reqPaths, reqVals, resPaths, resVals) ==
    [name |-> name, revision |-> rev, paths |-> [request |-> reqPaths, response |-> resPaths],
     vals |-> [request |-> reqVals, response |-> resVals]]
MCRuleProjects ==
    {[endpoints |-> MCEndpoints, profile |-> "r",
      principals |-> {[id |-> 1, revision |-> "r", scope |-> "s", rank |-> 1],
                      [id |-> 2, revision |-> "r", scope |-> "", rank |-> 2]},
      docs |-> {Occurrence(1, 2, "request", 1, 1, {11, 12}), Occurrence(2, 2, "response", 1, 1, {11}),
                Occurrence(3, 1, "response", 3, 1, {3})},
      archive |-> {Archived(1, "r", {2}, {11, 12}, {2}, {12}), Archived(3, "r", {}, {}, {1}, {12}),
                   Archived(3, "q", {}, {}, {1}, {3})}],
     [endpoints |-> MCEndpoints, profile |-> "r", principals |-> {},
      docs |-> {Occurrence(1, 1, "response", 1, 1, {}), Occurrence(2, 2, "request", 1, 1, {}),
                Occurrence(3, 2, "request", 1, 2, {}), Occurrence(4, 3, "request", 1, 2, {})},
      archive |-> {Archived(1, "r", {2, 3}, {11}, {1}, {11})}]}
MCNameClass == <<"id", "auth_session", "other">>

(* Sessions: a read, a risky write and a plugin of a capability no preset knows. *)
MCTools == {[name |-> "chains", capability |-> "read", effects |-> FALSE, risky |-> FALSE],
            [name |-> "create", capability |-> "write", effects |-> TRUE, risky |-> TRUE],
            [name |-> "plugin", capability |-> "other", effects |-> TRUE, risky |-> FALSE]}
Args(mode, access, approval, file, yes, interactive, dry) ==
    [mode |-> mode, access |-> access, approval |-> approval, file |-> file, yes |-> yes,
     interactive |-> interactive, dry |-> dry]
MCFile == [access |-> "custom", approval |-> "on-risk", capabilities |-> "write" :> "allowed"]
MCArgs == {Args("requests", "workspace-write", "on-risk", NoFile, FALSE, FALSE, FALSE),
           Args("requests", "workspace-write", "never", NoFile, FALSE, FALSE, FALSE),
           Args("requests", "workspace-write", "on-risk", NoFile, TRUE, FALSE, FALSE),
           Args("model", "workspace-write", "on-risk", NoFile, FALSE, TRUE, FALSE),
           Args("model", "full-access", "always", NoFile, FALSE, TRUE, TRUE),
           Args("model", "read-only", "on-risk", MCFile, FALSE, FALSE, FALSE),
           Args("single", "read-only", "on-risk", NoFile, FALSE, TRUE, FALSE)}

-----------------------------------------------------------------------------
\* A service that is not looked at has one initial state.
Init ==
    /\ part \in Parts
    /\ MfaInit /\ RepairInit /\ CtxInit /\ RecipeInit /\ AgentInit /\ UnlockInit
    /\ SessionInit /\ ChainInit /\ RuleInit
    /\ part # "mfa" => mfaKind = "memory"
    /\ part # "context" => ctxProvider = "callback"
    /\ part # "rules" => project = CHOOSE p \in RuleProjects : p.principals = {}

Next ==
    /\ UNCHANGED part
    /\ \/ /\ part = "mfa" /\ MfaNext
          /\ UNCHANGED <<authVars, ctxVars, login, agentVars, unlockVars, sessionVars, chainVars, ruleVars>>
       \/ /\ part = "repair" /\ RepairNext
          /\ UNCHANGED <<mfaVars, ctxVars, login, agentVars, unlockVars, sessionVars, chainVars, ruleVars>>
       \/ /\ part = "context" /\ CtxNext
          /\ UNCHANGED <<mfaVars, authVars, login, agentVars, unlockVars, sessionVars, chainVars, ruleVars>>
       \/ /\ part = "recipe" /\ RecipeNext
          /\ UNCHANGED <<mfaVars, authVars, ctxVars, agentVars, unlockVars, sessionVars, chainVars, ruleVars>>
       \/ /\ part = "agents" /\ AgentNext
          /\ UNCHANGED <<mfaVars, authVars, ctxVars, login, unlockVars, sessionVars, chainVars, ruleVars>>
       \/ /\ part = "unlock" /\ UnlockNext
          /\ UNCHANGED <<mfaVars, authVars, ctxVars, login, agentVars, sessionVars, chainVars, ruleVars>>
       \/ /\ part = "sessions" /\ SessionNext
          /\ UNCHANGED <<mfaVars, authVars, ctxVars, login, agentVars, unlockVars, chainVars, ruleVars>>
       \/ /\ part = "chain" /\ ChainNext
          /\ UNCHANGED <<mfaVars, authVars, ctxVars, login, agentVars, unlockVars, sessionVars, ruleVars>>
       \/ /\ part = "rules" /\ RuleNext
          /\ UNCHANGED <<mfaVars, authVars, ctxVars, login, agentVars, unlockVars, sessionVars, chainVars>>

projectVars == <<mfaVars, authVars, ctxVars, login, agentVars, unlockVars, sessionVars, chainVars, ruleVars, part>>

Spec == Init /\ [][Next]_projectVars

\* Calls of one service, the clients of the agent interface, and sessions, are
\* interchangeable.
Callers == Permutations({caller1, caller2})
====
