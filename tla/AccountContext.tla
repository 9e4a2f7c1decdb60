--------------------------- MODULE AccountContext ---------------------------
(***************************************************************************)
(* apiAnalysis/tool/account_context.py: how an execution obtains the        *)
(* credentials of an account.  A provider builds a context from material    *)
(* somebody else keeps (a file, a callback, a token endpoint, trusted       *)
(* code); the resolver caches it for cache_seconds.  Executions resolve     *)
(* while the material is rotated and the cache is invalidated.              *)
(***************************************************************************)
EXTENDS Integers, Sequences, FiniteSets

CONSTANTS
    CtxCalls,        \* executions that resolve at once
    CtxProviders,    \* the kinds of provider to look at
    CtxHosts,        \* target hosts
    Under,           \* wildcard pattern -> the hosts strictly under it
    CacheSeconds,    \* cache_seconds of the resolver
    MinValidity,     \* min_validity_seconds
    MaxAge,          \* max_age_seconds of a record without an expiry
    CallbackAge,     \* max_age_seconds of the callback provider
    MaxCtxTime,      \* bound on the clock
    MaxSecrets,      \* bound on the versions of a provider's material
    MaxResolves,     \* bound on the calls of resolve
    NoTime,          \* an absent time
    NoCtx            \* an absent context

ProviderKinds == {"local_json", "callback", "token_endpoint", "user_code"}

ASSUME CtxAssumption ==
    /\ CtxProviders \subseteq ProviderKinds
    /\ CacheSeconds \in Nat /\ MinValidity \in Nat /\ MaxAge \in Nat /\ CallbackAge \in Nat
    /\ MaxCtxTime \in Nat /\ MaxSecrets \in Nat /\ MaxResolves \in Nat /\ NoTime \notin Int

VARIABLES
    ctxProvider,\* the kind of the reference's provider
    ctxNow,     \* the clock
    material,   \* what the provider reads: [secret, ready, forever, expires, issued, mtime, hosts]
    ctxCache,   \* AccountContextResolver._cache of the reference: [until, ctx] or NoCtx
    ctxCall,    \* the calls of resolve under way
    ctxAnswer,  \* the last answer an execution was given
    resolves,
    replaced,   \* when each version of the material was replaced
    ctxFloor    \* the version that was current at the last quiet invalidate

ctxVars == <<ctxProvider, ctxNow, material, ctxCache, ctxCall, ctxAnswer, resolves, replaced, ctxFloor>>

-----------------------------------------------------------------------------
(* Contexts                                                                *)

\* _host_matches: no host, one of the hosts, or one strictly under a wildcard.
HostMatches(h, patterns) ==
    h = "" \/ h \in patterns \/ \E w \in patterns \cap DOMAIN Under : h \in Under[w]

\* An expiry strictly after t; a context without one is non-expiring.
ValidAfter(ctx, t) == ctx.expires = NoTime \/ ctx.expires > t

\* AccountContext.validate: identity, expiry and host, in this order.
Usable(ctx, p, host, min, t) ==
    IF ctx.provider # p THEN "mismatch"
    ELSE IF ~ValidAfter(ctx, t + min) THEN "expired"
    ELSE IF ~HostMatches(host, ctx.hosts) THEN "host" ELSE "ok"

\* _record_to_context: the explicit expiry or the token's own, else an age from the
\* issue time or the file's; without any of them the record is refused.
RecordContext(p, m, age) ==
    LET base == IF m.issued # NoTime THEN m.issued ELSE m.mtime IN
    IF ~m.ready \/ m.hosts = {} \/ (m.expires = NoTime /\ ~m.forever /\ base = NoTime) THEN NoCtx
    ELSE [provider |-> p, secret |-> m.secret, hosts |-> m.hosts,
          expires |-> IF m.expires # NoTime THEN m.expires
                      ELSE IF m.forever THEN NoTime ELSE base + age]

\* JsonFileAccountContextProvider.resolve: the file's own time bounds the record.
JsonContext(m) == RecordContext("local_json", m, MaxAge)

\* CallbackAccountContextProvider.resolve: there is no file time.
CallbackContext(m) == RecordContext("callback", [m EXCEPT !.mtime = NoTime], CallbackAge)

\* TokenEndpointProvider.resolve: the lifetime counts from the answer.
EndpointContext(m, t) ==
    IF ~m.ready \/ m.hosts = {} THEN NoCtx
    ELSE [provider |-> "token_endpoint", secret |-> m.secret, hosts |-> m.hosts, expires |-> t + MaxAge]

\* CodeAccountContextProvider.resolve: issued when the code returns.
CodeContext(m, t) == RecordContext("user_code", [m EXCEPT !.issued = t], MaxAge)

\* What a provider builds from material m read earlier, when it answers at time t.
Built(p, m, t) ==
    CASE p = "local_json"     -> JsonContext(m)
      [] p = "callback"       -> CallbackContext(m)
      [] p = "token_endpoint" -> EndpointContext(m, t)
      [] p = "user_code"      -> CodeContext(m, t)

-----------------------------------------------------------------------------
(* AccountContextResolver                                                  *)

CtxIdle == [pc |-> "idle"]
CtxGo(c, call) == ctxCall' = [ctxCall EXCEPT ![c] = call]

\* The call ends with an error, or with ctx.
CtxFail(c)        == CtxGo(c, CtxIdle) /\ UNCHANGED ctxAnswer
CtxReturn(c, ctx) ==
    /\ CtxGo(c, CtxIdle)
    /\ ctxAnswer' = [ctx |-> ctx, host |-> ctxCall[c].host, now |-> ctxCall[c].now,
                     floor |-> ctxCall[c].floor]

\* resolve reads the clock once,
ResolveBegin(c, host) ==
    /\ ctxCall[c].pc = "idle" /\ resolves < MaxResolves
    /\ resolves' = resolves + 1
    /\ CtxGo(c, [pc |-> "lookup", host |-> host, now |-> ctxNow, floor |-> ctxFloor])
    /\ UNCHANGED <<ctxProvider, ctxNow, material, ctxCache, ctxAnswer, replaced, ctxFloor>>

\* Mutant: a hit is handed out as it was stored.
ResolveLookupUnchecked(c) ==
    LET call == ctxCall[c]
        hit  == IF ctxCache # NoCtx THEN ctxCache.until > call.now ELSE FALSE
    IN
    /\ call.pc = "lookup"
    /\ IF hit THEN CtxReturn(c, ctxCache.ctx)
       ELSE CtxGo(c, [call EXCEPT !.pc = "load"]) /\ UNCHANGED ctxAnswer
    /\ UNCHANGED <<ctxProvider, ctxNow, material, ctxCache, resolves, replaced, ctxFloor>>

\* looks into the cache under the lock; an entry whose context is too close to its
\* expiry is dropped, one outside the host scope is an error,
ResolveLookup(c) ==
    LET call   == ctxCall[c]
        cached == ctxCache
        hit    == IF cached # NoCtx THEN cached.until > call.now ELSE FALSE
        use    == IF hit THEN Usable(cached.ctx, ctxProvider, call.host, MinValidity, call.now) ELSE "miss"
    IN
    /\ call.pc = "lookup"
    /\ IF use \in {"miss", "expired"}
       THEN /\ CtxGo(c, [call EXCEPT !.pc = "load"]) /\ UNCHANGED ctxAnswer
            /\ ctxCache' = IF use = "expired" THEN NoCtx ELSE ctxCache
       ELSE /\ IF use = "ok" THEN CtxReturn(c, cached.ctx) ELSE CtxFail(c)
            /\ UNCHANGED ctxCache
    /\ UNCHANGED <<ctxProvider, ctxNow, material, resolves, replaced, ctxFloor>>

\* has the provider read its material outside the lock,
ProviderLoad(c) ==
    LET call == ctxCall[c] IN
    /\ call.pc = "load"
    /\ CtxGo(c, [pc |-> "answer", host |-> call.host, now |-> call.now,
                 floor |-> call.floor, m |-> material])
    /\ UNCHANGED <<ctxProvider, ctxNow, material, ctxCache, ctxAnswer, resolves, replaced, ctxFloor>>

\* validates what it built, by the provider at its own time and by the resolver at
\* the time it read first,
ProviderAnswer(c) ==
    LET call == ctxCall[c]
        ctx  == Built(ctxProvider, call.m, ctxNow)
        ok   == IF ctx = NoCtx THEN FALSE
                ELSE /\ Usable(ctx, ctxProvider, "", 0, ctxNow) = "ok"
                     /\ Usable(ctx, ctxProvider, call.host, MinValidity, call.now) = "ok"
    IN
    /\ call.pc = "answer"
    /\ IF ~ok THEN CtxFail(c)
       ELSE /\ CtxGo(c, [pc |-> "store", host |-> call.host, now |-> call.now,
                         floor |-> call.floor, ctx |-> ctx])
            /\ UNCHANGED ctxAnswer
    /\ UNCHANGED <<ctxProvider, ctxNow, material, ctxCache, resolves, replaced, ctxFloor>>

\* and stores it, whatever the cache holds by now.
ResolveStore(c) ==
    LET call  == ctxCall[c]
        until == call.now + CacheSeconds
    IN
    /\ call.pc = "store"
    /\ ctxCache' =
          [ctx |-> call.ctx,
           until |-> IF call.ctx.expires # NoTime /\ call.ctx.expires < until THEN call.ctx.expires
                     ELSE until]
    /\ CtxReturn(c, call.ctx)
    /\ UNCHANGED <<ctxProvider, ctxNow, material, resolves, replaced, ctxFloor>>

\* invalidate, and register of a provider: the reference's entry goes.  The floor is
\* raised when no call can still store an older context.
DropsEntry == ctxCache' = NoCtx

Invalidate ==
    /\ ctxCache # NoCtx /\ DropsEntry
    /\ ctxFloor' = IF \E c \in CtxCalls : ctxCall[c].pc # "idle" THEN ctxFloor
                   ELSE material.secret
    /\ UNCHANGED <<ctxProvider, ctxNow, material, ctxCall, ctxAnswer, resolves, replaced>>

-----------------------------------------------------------------------------
(* The material's owner, and time                                          *)

\* The next version of the material: with an expiry of its own, for ever, or with
\* neither, for the hosts under the wildcards; or not ready.
Rotate(life) ==
    /\ material.secret < MaxSecrets
    /\ material' =
          [secret |-> material.secret + 1, ready |-> life # "broken", mtime |-> ctxNow, issued |-> NoTime,
           forever |-> life = "forever", expires |-> IF life = "dated" THEN ctxNow + MaxAge ELSE NoTime,
           hosts |-> DOMAIN Under]
    /\ replaced' = Append(replaced, ctxNow)
    /\ UNCHANGED <<ctxProvider, ctxNow, ctxCache, ctxCall, ctxAnswer, resolves, ctxFloor>>

CtxTick ==
    /\ ctxNow < MaxCtxTime /\ ctxNow' = ctxNow + 1
    /\ UNCHANGED <<ctxProvider, material, ctxCache, ctxCall, ctxAnswer, resolves, replaced, ctxFloor>>

FirstMaterial ==
    [secret |-> 1, ready |-> TRUE, mtime |-> 0, issued |-> NoTime, forever |-> FALSE,
     expires |-> MaxAge, hosts |-> CtxHosts]

CtxInit ==
    /\ ctxNow = 0 /\ resolves = 0
    /\ ctxProvider \in CtxProviders
    /\ material = FirstMaterial /\ ctxCache = NoCtx
    /\ ctxCall = [c \in CtxCalls |-> CtxIdle] /\ ctxAnswer = NoCtx
    /\ replaced = << >> /\ ctxFloor = 0

CtxNext ==
    \/ \E c \in CtxCalls :
          \/ \E h \in CtxHosts : ResolveBegin(c, h)
          \/ ResolveLookup(c) \/ ProviderLoad(c) \/ ProviderAnswer(c) \/ ResolveStore(c)
    \/ Invalidate
    \/ \E life \in {"dated", "forever", "aged", "broken"} : Rotate(life)
    \/ CtxTick

CtxSpec == CtxInit /\ [][CtxNext]_ctxVars

-----------------------------------------------------------------------------
(* Properties                                                              *)

Answers == {ctxAnswer} \ {NoCtx}

\* A replaced credential is not handed out to a call that starts after its
\* replacement, by cache_seconds or more, however often the cached entry is used.
RotationTakesEffect ==
    \A a \in Answers : a.ctx.secret \in DOMAIN replaced =>
       \/ replaced[a.ctx.secret] >= a.now
       \/ replaced[a.ctx.secret] > a.now - CacheSeconds

\* An execution is never handed a context that was expired when it asked for it,
\* with the margin it asked for, or one that does not cover its host, from the
\* cache or from the provider.
AnswerIsUsable ==
    \A a \in Answers : ValidAfter(a.ctx, a.now + MinValidity) /\ HostMatches(a.host, a.ctx.hosts)

\* After an invalidate that met no call in flight, no later call is answered with
\* credentials older than those in force at the invalidate.
InvalidateTakesEffect == \A a \in Answers : a.ctx.secret >= a.floor

\* The resolver's answers are usable and as new as rotation, invalidation and the
\* cache lifetime promise.
ContextIsCurrent == AnswerIsUsable /\ RotationTakesEffect /\ InvalidateTakesEffect
=============================================================================
