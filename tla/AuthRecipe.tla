----------------------------- MODULE AuthRecipe -----------------------------
(***************************************************************************)
(* apiAnalysis/tool/auth_recipe.py: one login.  A declarative recipe is run *)
(* step by step against the authentication hosts: variables are computed,  *)
(* requests sent, redirects followed, second factors polled for or waited  *)
(* for, and the credentials rendered from what was collected.  Everything  *)
(* is bounded by the request limit and by the origins of realm and adapter.*)
(* The recipes are the two the program builds (project_auth.py) and the    *)
(* ones users import.  The other kind of login is trusted code run behind  *)
(* a restricted HTTP client (trusted_auth_code_runner.py).                 *)
(***************************************************************************)
EXTENDS Integers, Sequences, FiniteSets

CONSTANTS
    UserRecipes,     \* imported recipes: [steps, needs, kind, jar]
    RealmOrigins,    \* origins of the realm revision
    AdapterOrigins,  \* origins of the adapter version
    Origins,         \* every origin a URL or a redirect may name
    RequestLimits    \* limits a caller may ask for

ASSUME RecipeAssumption ==
    /\ RealmOrigins \cup AdapterOrigins \subseteq Origins
    /\ RequestLimits \subseteq Nat
    /\ \A r \in UserRecipes : \A i \in 1..Len(r.steps) : r.steps[i].tries \in Nat

VARIABLE login

MAX_AUTH_REQUESTS == 6
MAX_RECIPE_STEPS  == 12

Clamp(low, n, high) == IF n < low THEN low ELSE IF n > high THEN high ELSE n

----
\* Recipes. A step needs variables to render its templates and gives variables;
\* `must` says that what it extracts is required, hops how many redirects it
\* follows, tries how often a second factor is polled for.

RecipeStep(kind, needs, gives, must, origin, hops, tries) ==
    [kind |-> kind, needs |-> needs, gives |-> gives, must |-> must,
     origin |-> origin, hops |-> hops, tries |-> tries]
SetStepOf(needs, target) == RecipeStep("set", needs, {target}, TRUE, "none", 0, 0)

\* The transformation of the password, and the variable the login sends.
PasswordSteps(transform) ==
    CASE transform = "plain"       -> << >>
      [] transform = "hash"        -> <<SetStepOf({}, "login_password")>>
      [] transform = "rsa"         -> <<SetStepOf({}, "login_password")>>
      [] transform = "rsa_stamped" -> <<SetStepOf({}, "login_timestamp"),
                                        SetStepOf({"login_timestamp"}, "rsa_plaintext"),
                                        SetStepOf({"rsa_plaintext"}, "login_password")>>

\* A cookie login may leave the token out and never needs it.
PasswordRecipe(transform, kind, token) ==
    [steps |-> Append(PasswordSteps(transform),
                      RecipeStep("http", IF transform = "plain" THEN {} ELSE {"login_password"},
                                 IF token THEN {"access_token"} ELSE {}, kind # "cookie", "auth", 0, 0)),
     needs |-> IF token /\ kind # "cookie" THEN {"access_token"} ELSE {},
     kind |-> kind, jar |-> kind # "bearer"]

\* Sign, authorise, establish the session, exchange the product token: only the
\* last one is rendered.
SsoRecipe ==
    [steps |-> <<SetStepOf({}, "client_token_hash"), SetStepOf({}, "login_timestamp"),
                 SetStepOf({"client_token_hash", "login_timestamp"}, "request_token_input"),
                 SetStepOf({"request_token_input"}, "request_token"), SetStepOf({}, "login_password"),
                 RecipeStep("http", {"request_token", "login_timestamp", "login_password"},
                            {"sso_access_token"}, TRUE, "auth", 0, 0),
                 RecipeStep("http", {"sso_access_token"}, {}, TRUE, "auth", 0, 0),
                 RecipeStep("http", {"sso_access_token"}, {"product_access_token"}, TRUE, "auth", 0, 0)>>,
     needs |-> {"product_access_token"}, kind |-> "mixed", jar |-> TRUE]

BuiltRecipes ==
    {SsoRecipe} \cup {PasswordRecipe(p[1], p[2], TRUE) :
                         p \in {"plain", "hash", "rsa_stamped"} \X {"bearer", "cookie", "mixed"}}
                \cup {PasswordRecipe("plain", "cookie", FALSE), PasswordRecipe("rsa", "mixed", FALSE)}

RecipeValid(r) ==
    /\ Len(r.steps) \in 1..MAX_RECIPE_STEPS
    /\ \A i \in 1..Len(r.steps) : r.steps[i].kind \in {"set", "http", "pull", "push"}

\* An import asks for every origin to be explicit and inside the realm.
RecipeOrigins(r) ==
    {r.steps[i].origin : i \in {j \in 1..Len(r.steps) : r.steps[j].kind \in {"http", "pull"}}}

Importable(r) == RecipeValid(r) /\ RecipeOrigins(r) # {} /\ RecipeOrigins(r) \subseteq RealmOrigins

\* The requests a recipe makes without a redirect: one per http step, and one per
\* poll of a second factor. A form that verifies raises its limit to that, which
\* the executor clamps again.
Asks(s) == IF s.kind = "http" THEN 1 ELSE IF s.kind = "pull" THEN Clamp(1, s.tries, 6) ELSE 0
Requests(r) == {q \in (1..Len(r.steps)) \X (1..6) : q[2] <= Asks(r.steps[q[1]])}
RequestFloor(r) == Cardinality(Requests(r))

RequestFloorHttpOnly(r) == Cardinality({i \in 1..Len(r.steps) : r.steps[i].kind = "http"})

FormFloorHttpOnly(r) == Clamp(1, RequestFloorHttpOnly(r), 6)
FormFloor(r) == Clamp(1, RequestFloor(r), 6)

VerifyLimit(r, requested) ==
    Clamp(1, IF requested > FormFloor(r) THEN requested ELSE FormFloor(r), MAX_AUTH_REQUESTS)

----
\* The state of a login. count is the executor's request counter, polled what a
\* running second-factor step has sent on top of it; sent is what left the program.

NoLogin == [state |-> "none", by |-> "recipe", recipe |-> SsoRecipe, limit |-> 0, at |-> 0, vars |-> {},
            jar |-> FALSE, count |-> 0, polled |-> 0, hop |-> 0, followed |-> FALSE, sent |-> 0,
            hosts |-> {}, over |-> FALSE, code |-> ""]

RecipeInit == login = NoLogin

Allowed == RealmOrigins \cap AdapterOrigins
CurrentStep == login.recipe.steps[login.at]
Stepping(kinds) ==
    /\ login.state = "running" /\ login.at \in 1..Len(login.recipe.steps)
    /\ CurrentStep.kind \in kinds

Fail(code) == login' = [login EXCEPT !.state = "failed", !.code = code]
FailOver   == login' = [login EXCEPT !.state = "failed", !.code = "CONFIG_INVALID", !.over = TRUE]
NextStep(l, gives) == [l EXCEPT !.at = @ + 1, !.vars = @ \cup gives, !.polled = 0, !.hop = 0]
SentTo(l, origin)  == [l EXCEPT !.sent = @ + 1, !.hosts = @ \cup {origin}]

StartRecipe(r, limit) ==
    /\ login.state = "none" /\ Importable(r)
    /\ login' = [NoLogin EXCEPT !.recipe = r, !.limit = limit, !.at = 1,
                                !.state = IF Allowed = {} THEN "failed" ELSE "running",
                                !.code = IF Allowed = {} THEN "CONFIG_INVALID" ELSE ""]

ComputeStep ==
    /\ Stepping({"set"})
    /\ IF CurrentStep.needs \subseteq login.vars
       THEN login' = NextStep(login, CurrentStep.gives)
       ELSE Fail("CONFIG_INVALID")

\* Push: the broker answers with a code or not in time.
PushedCode(received) ==
    /\ Stepping({"push"})
    /\ IF received THEN login' = NextStep(login, CurrentStep.gives)
       ELSE Fail("MFA_OR_INTERACTION_REQUIRED")

\* Pull: one poll. The counter of the caller moves only when the step ends well,
\* so a connection lost while polling is reported with the count from before.
PollReplies == {"code", "no_code", "not_ready", "rejected", "lost"}

PollMfa(reply) ==
    /\ Stepping({"pull"})
    /\ IF CurrentStep.origin \notin Allowed \/ ~(CurrentStep.needs \subseteq login.vars)
       THEN Fail("CONFIG_INVALID")
       ELSE IF login.count + login.polled >= login.limit THEN FailOver
       ELSE \E l \in {[SentTo(login, CurrentStep.origin) EXCEPT !.polled = @ + 1]} :
              login' = CASE reply = "lost"     -> [l EXCEPT !.state = "failed", !.code = "AUTH_HOST_UNREACHABLE"]
                         [] reply = "rejected" -> [l EXCEPT !.state = "failed", !.count = @ + l.polled,
                                                            !.code = "CREDENTIAL_REJECTED"]
                         [] reply = "code"     -> NextStep([l EXCEPT !.count = @ + l.polled], CurrentStep.gives)
                         [] OTHER -> IF l.polled < Clamp(1, CurrentStep.tries, 6) THEN l
                                     ELSE [l EXCEPT !.state = "failed", !.count = @ + l.polled,
                                                    !.code = "MFA_OR_INTERACTION_REQUIRED"]

\* What the reply of an http step leads to: a redirect the step follows, an error
\* named in the body, a refused status, or the extraction of its variables.
HttpReplies == {"values", "no_values", "redirect", "error_body", "refused", "protocol", "limited", "lost"}

StatusFailure(reply) ==
    CASE reply = "refused"  -> "CREDENTIAL_REJECTED"
      [] reply = "protocol" -> "LOGIN_PROTOCOL_CHANGED"
      [] reply = "limited"  -> "RATE_LIMITED"
      [] OTHER -> "SESSION_ESTABLISH_FAILED"

Received(l, reply) ==
    CASE reply = "lost"       -> [l EXCEPT !.state = "failed", !.code = "AUTH_HOST_UNREACHABLE"]
      [] reply = "redirect" /\ CurrentStep.hops > 0 -> [l EXCEPT !.state = "redirected"]
      [] reply = "error_body" -> [l EXCEPT !.state = "failed", !.code = "CREDENTIAL_REJECTED"]
      [] reply = "values"     -> NextStep([l EXCEPT !.state = "running"], CurrentStep.gives)
      [] reply = "no_values"  ->
            IF CurrentStep.must /\ CurrentStep.gives # {}
            THEN [l EXCEPT !.state = "failed", !.code = "TOKEN_EXTRACTION_FAILED"]
            ELSE NextStep([l EXCEPT !.state = "running"], {})
      [] OTHER -> [l EXCEPT !.state = "failed", !.code = StatusFailure(reply)]

HttpStep(reply, cookies) ==
    /\ Stepping({"http"})
    /\ IF CurrentStep.origin \notin Allowed \/ ~(CurrentStep.needs \subseteq login.vars)
       THEN Fail("CONFIG_INVALID")
       ELSE IF login.count + 1 > login.limit THEN FailOver
       ELSE login' = Received([SentTo(login, CurrentStep.origin) EXCEPT !.count = @ + 1, !.jar = @ \/ cookies], reply)

FollowRedirect(target, reply) ==
    IF login.hop + 1 > CurrentStep.hops THEN Fail("LOGIN_PROTOCOL_CHANGED")
    ELSE IF target \notin Allowed THEN Fail("CONFIG_INVALID")
    ELSE IF login.count + 1 > login.limit THEN login' = [login EXCEPT !.state = "failed", !.code = "CONFIG_INVALID",
                                                                      !.over = TRUE, !.followed = TRUE]
    ELSE login' = Received([SentTo(login, target) EXCEPT !.count = @ + 1, !.hop = @ + 1, !.followed = TRUE], reply)

Redirected(target, reply) == login.state = "redirected" /\ FollowRedirect(target, reply)

\* The output: every template must render, and the kind must find its credentials.
RenderOutput ==
    /\ login.state = "running" /\ login.at = Len(login.recipe.steps) + 1
    /\ LET r       == login.recipe
           headers == r.needs # {}
           cookies == r.jar /\ login.jar
       IN  IF /\ r.needs \subseteq login.vars
              /\ CASE r.kind = "bearer" -> headers [] r.kind = "cookie" -> cookies [] OTHER -> headers \/ cookies
           THEN login' = [login EXCEPT !.state = "done"]
           ELSE Fail("TOKEN_EXTRACTION_FAILED")

\* Trusted code: each call of its HTTP client may be refused, and the code may
\* catch that and go on.
StartCode(limit) ==
    /\ login.state = "none" /\ RealmOrigins # {}
    /\ login' = [NoLogin EXCEPT !.state = "code", !.by = "code", !.limit = Clamp(1, limit, 6)]

CodeRequest(origin) ==
    /\ login.state = "code" /\ login.count <= login.limit
    /\ IF origin \notin RealmOrigins THEN UNCHANGED login
       ELSE \E l \in {[login EXCEPT !.count = @ + 1]} :
              login' = IF l.count > login.limit THEN l ELSE SentTo(l, origin)

CodeReturns(ok) ==
    /\ login.state = "code"
    /\ login' = [login EXCEPT !.state = IF ok THEN "done" ELSE "failed",
                              !.code = IF ok THEN "" ELSE "ADAPTER_RUNTIME_ERROR"]

RecipeNext ==
    \/ \E r \in BuiltRecipes \cup UserRecipes, limit \in RequestLimits : StartRecipe(r, VerifyLimit(r, limit))
    \/ ComputeStep
    \/ \E received \in BOOLEAN : PushedCode(received)
    \/ \E reply \in PollReplies : PollMfa(reply)
    \/ \E reply \in HttpReplies, cookies \in BOOLEAN : HttpStep(reply, cookies)
    \/ \E target \in Origins, reply \in HttpReplies : Redirected(target, reply)
    \/ RenderOutput
    \/ \E limit \in RequestLimits : StartCode(limit)
    \/ \E origin \in Origins : CodeRequest(origin)
    \/ \E ok \in BOOLEAN : CodeReturns(ok)

RecipeSpec == RecipeInit /\ [][RecipeNext]_login

----
\* views_auth_profile.py:161-172: the limit the form derives from the recipe is
\* enough for it: only redirects, or a recipe that polls more often than the hard
\* limit allows, end a login on its budget.
FloorSuffices ==
    (login.over /\ ~login.followed) => RequestFloor(login.recipe) > MAX_AUTH_REQUESTS

\* "bounded", "exact-origin network confinement": whatever the recipe, the hosts'
\* replies and the redirects, a login sends at most its limit and only to origins
\* the realm allows (auth_recipe.py:424-445, 549-601).
LoginConfined ==
    /\ login.sent <= login.limit
    /\ login.hosts \subseteq IF login.by = "code" THEN RealmOrigins ELSE Allowed

\* The limit is never passed, and the limit a form proposes is never too small.
LoginBounded == LoginConfined /\ FloorSuffices
=============================================================================
