----------------------------- MODULE AuthRepair -----------------------------
(***************************************************************************)
(* apiAnalysis/tool/project_auth.py: the versioned login configuration of  *)
(* one authentication profile and its repair.  A profile points at one     *)
(* immutable revision, whose realm and adapter versions form its chain.  A *)
(* repair builds a candidate revision, verifies it with a real login,      *)
(* switches the pointer and moves one paused run, which has sent nothing   *)
(* yet, to the new revision.  Requests of several managers interleave with *)
(* each other, with the scheduler and with lost processes.                 *)
(***************************************************************************)
EXTENDS Integers, Sequences, FiniteSets

CONSTANTS
    RepairCalls,      \* requests that are handled at once
    RunSize,          \* checkpoints of the paused run
    MaxRevisions,     \* bound on revisions of the profile
    MaxRepairCalls,   \* bound on requests of a behaviour
    MaxRepairCrashes  \* bound on lost processes

ASSUME RepairAssumption ==
    /\ RunSize \in Nat \ {0} /\ MaxRevisions \in Nat \ {0}
    /\ MaxRepairCalls \in Nat /\ MaxRepairCrashes \in Nat

VARIABLES
    profile,     \* ProjectAuthProfile: [current, active]
    chains,      \* per revision: lifecycle of its realm revision and adapter version
    candidates,  \* AuthRepairCandidate: [prev, rev, status]
    attempts,    \* AuthVerificationAttempt: [candidate, rev, status]; candidate 0 is none
    authHealth,  \* AuthProfileHealth of each revision
    authRun,     \* security_test_run: [status, dep, rev, snaps]
    snapshots,   \* request_snapshot documents
    ckpts,       \* the run's checkpoints: [snap, status, tried]
    repair,      \* the requests being handled
    repairUsed, repairCrashes,
    imported,    \* revisions that became current by import
    disturbed    \* the run was resumed or cancelled, or a process lost, within a rebind

authVars == <<profile, chains, candidates, attempts, authHealth, authRun, snapshots, ckpts,
              repair, repairUsed, repairCrashes, imported, disturbed>>

Ordinals == 1..RunSize

\* The snapshot of an ordinal as enqueued, and the clone a request makes of it.
Original(i)     == [ord |-> i, rev |-> 1, by |-> "run"]
CloneOf(i, r, c) == [ord |-> i, rev |-> r, by |-> c]

Rebinding == {c \in RepairCalls : repair[c].pc \in {"run", "remap", "undo"}}

RepairGo(c, call) == repair' = [repair EXCEPT ![c] = call]
RepairPc(c, pc)   == repair' = [repair EXCEPT ![c].pc = pc]
RepairCall(pc, k, rev, rebind) ==
    [pc |-> pc, k |-> k, rev |-> rev, rebind |-> rebind, attempt |-> 0, moved |-> 0, old |-> << >>]
RepairIdle        == RepairCall("idle", 0, 0, FALSE)
RepairDone(c)     == RepairGo(c, RepairIdle)

RepairBegin(c, call) ==
    /\ repair[c].pc = "idle" /\ repairUsed < MaxRepairCalls
    /\ repairUsed' = repairUsed + 1 /\ RepairGo(c, call)

\* What an action leaves alone, by the part of the state it works on.
SameRun     == UNCHANGED <<authRun, snapshots, ckpts, disturbed>>
SameConfig  == UNCHANGED <<profile, chains, imported>>
SameProof   == UNCHANGED <<candidates, attempts, authHealth>>
SameBounds  == UNCHANGED <<repairUsed, repairCrashes>>

-----------------------------------------------------------------------------
(* Import and settings                                                     *)

\* The profile revision with its realm revision and adapter version, none of them
\* in use yet.
DraftRevision == authHealth' = Append(authHealth, "unknown")
DraftChain    == chains' = Append(chains, "draft")

\* import_versioned_auth_profile: adapter, realm and profile revision are
\* created as drafts,
ImportBegin(c) ==
    /\ RepairBegin(c, RepairCall("import", 0, 0, FALSE))
    /\ UNCHANGED repairCrashes /\ SameConfig /\ SameProof /\ SameRun

ImportCreate(c) ==
    /\ repair[c].pc = "import" /\ Len(chains) < MaxRevisions
    /\ DraftRevision /\ DraftChain
    /\ profile' = [profile EXCEPT !.active = TRUE]
    /\ RepairGo(c, [repair[c] EXCEPT !.pc = "import_live", !.rev = Len(chains) + 1])
    /\ UNCHANGED <<candidates, attempts, imported>> /\ SameRun /\ SameBounds

\* then made active,
ImportLive(c) ==
    /\ repair[c].pc = "import_live"
    /\ chains' = [chains EXCEPT ![repair[c].rev] = "active"]
    /\ RepairPc(c, "import_point")
    /\ UNCHANGED <<profile, imported>> /\ SameProof /\ SameRun /\ SameBounds

\* and then the pointer is set, whatever it holds.
ImportPoint(c) ==
    /\ repair[c].pc = "import_point"
    /\ profile' = [profile EXCEPT !.current = repair[c].rev]
    /\ imported' = imported \cup {repair[c].rev}
    /\ RepairDone(c)
    /\ UNCHANGED chains /\ SameProof /\ SameRun /\ SameBounds

\* toggle_profile of the settings form.
ToggleProfile ==
    /\ repairUsed < MaxRepairCalls /\ repairUsed' = repairUsed + 1
    /\ profile' = [profile EXCEPT !.active = ~@]
    /\ UNCHANGED <<chains, imported, repair, repairCrashes>> /\ SameProof /\ SameRun

-----------------------------------------------------------------------------
(* Candidates                                                              *)

\* create_auth_repair_candidate and the settings form's register: the current
\* revision is read; its chain must be active.
CandidateBegin(c) ==
    /\ profile.active /\ chains[profile.current] = "active"
    /\ RepairBegin(c, RepairCall("candidate", 0, profile.current, FALSE))
    /\ UNCHANGED repairCrashes /\ SameConfig /\ SameProof /\ SameRun

\* The draft chain, the candidate and its health are stored.
CandidateCreate(c) ==
    /\ repair[c].pc = "candidate" /\ Len(chains) < MaxRevisions
    /\ DraftRevision /\ DraftChain
    /\ candidates' = Append(candidates, [prev |-> repair[c].rev, rev |-> Len(chains) + 1,
                                         status |-> "draft"])
    /\ RepairDone(c)
    /\ UNCHANGED <<profile, imported, attempts>> /\ SameRun /\ SameBounds

\* verify_and_activate_auth_repair_candidate marks the candidate.  rebind says
\* whether the form names the paused run.
VerifyBegin(c, k, rebind) ==
    /\ candidates[k].status \in {"draft", "failed", "validating"}
    /\ RepairBegin(c, RepairCall("verify", k, candidates[k].rev, rebind))
    /\ candidates' = [candidates EXCEPT ![k].status = "validating"]
    /\ UNCHANGED <<attempts, authHealth, repairCrashes>> /\ SameConfig /\ SameRun

\* validate_auth_profile: the current revision is verified, for the paused run.
VerifyCurrent(c) ==
    /\ profile.active
    /\ RepairBegin(c, RepairCall("verify", 0, profile.current, TRUE))
    /\ UNCHANGED repairCrashes /\ SameConfig /\ SameProof /\ SameRun

\* verify_project_auth_profile: a candidate of another base becomes stale; only a
\* candidate may have a draft chain.
VerifyStart(c) ==
    LET call == repair[c]
        isCandidate == call.rev # profile.current
    IN
    /\ call.pc = "verify"
    /\ IF \/ ~profile.active
          \/ isCandidate /\ (call.k = 0 \/ candidates[call.k].status \notin {"draft", "failed", "validating"})
          \/ ~isCandidate /\ chains[call.rev] # "active"
       THEN RepairDone(c) /\ SameProof
       ELSE IF isCandidate /\ candidates[call.k].prev # profile.current
       THEN /\ candidates' = [candidates EXCEPT ![call.k].status = "stale"]
            /\ RepairDone(c) /\ UNCHANGED <<attempts, authHealth>>
       ELSE /\ attempts' = Append(attempts, [candidate |-> IF isCandidate THEN call.k ELSE 0,
                                             rev |-> call.rev, status |-> "running"])
            /\ authHealth' = [authHealth EXCEPT ![call.rev] = "verifying"]
            /\ RepairGo(c, [call EXCEPT !.pc = "login", !.attempt = Len(attempts) + 1])
            /\ UNCHANGED candidates
    /\ SameConfig /\ SameRun /\ SameBounds

\* The login of the attempt answers; its outcome is stored with the health of
\* the revision, and a failed candidate is marked.
VerifyEnd(c, ok) ==
    LET call == repair[c] IN
    /\ call.pc = "login"
    /\ attempts' = [attempts EXCEPT ![call.attempt].status = IF ok THEN "succeeded" ELSE "failed"]
    /\ authHealth' = [authHealth EXCEPT ![call.rev] = IF ok THEN "healthy" ELSE "failed"]
    /\ candidates' = IF call.k # 0 /\ ~ok THEN [candidates EXCEPT ![call.k].status = "failed"]
                     ELSE candidates
    /\ IF ~ok THEN RepairDone(c) ELSE RepairPc(c, IF call.k = 0 THEN "resume" ELSE "activate")
    /\ SameConfig /\ SameRun /\ SameBounds

\* activate_auth_repair_candidate: the candidate is not yet settled and one of its
\* own attempts succeeded.  One that is live already is left as it is.
ActivateRead(c) ==
    LET call    == repair[c]
        settled == candidates[call.k].status = "activated" /\ profile.current = call.rev
    IN
    /\ call.pc = "activate"
    /\ IF /\ candidates[call.k].status \in {"validating", "failed"} /\ profile.active
          /\ attempts[call.attempt] = [candidate |-> call.k, rev |-> call.rev, status |-> "succeeded"]
       THEN RepairPc(c, "switch")
       ELSE IF settled /\ call.rebind THEN RepairPc(c, "rebind") ELSE RepairDone(c)
    /\ SameConfig /\ SameProof /\ SameRun /\ SameBounds

\* Mutant: the pointer is set without looking at the base.
SwitchAnyway(c) ==
    LET call == repair[c] IN
    /\ call.pc = "switch"
    /\ profile' = [profile EXCEPT !.current = call.rev] /\ RepairPc(c, "chain")
    /\ UNCHANGED <<chains, imported>> /\ SameProof /\ SameRun /\ SameBounds

\* The compare-and-set of the pointer: from the revision the candidate was made
\* for, or the candidate is stale.
Switch(c) ==
    LET call == repair[c] IN
    /\ call.pc = "switch"
    /\ IF profile.current = candidates[call.k].prev /\ profile.active
       THEN /\ profile' = [profile EXCEPT !.current = call.rev] /\ RepairPc(c, "chain")
            /\ UNCHANGED candidates
       ELSE /\ UNCHANGED profile
            /\ IF profile.current = call.rev THEN RepairPc(c, "chain") /\ UNCHANGED candidates
               ELSE /\ candidates' = [candidates EXCEPT ![call.k].status = "stale"] /\ RepairDone(c)
    /\ UNCHANGED <<chains, imported, attempts, authHealth>> /\ SameRun /\ SameBounds

\* Only now do adapter and realm become active.
ChainLive(c) ==
    /\ repair[c].pc = "chain"
    /\ chains' = [chains EXCEPT ![repair[c].rev] = "active"]
    /\ RepairPc(c, "settle")
    /\ UNCHANGED <<profile, imported>> /\ SameProof /\ SameRun /\ SameBounds

Settle(c) ==
    LET call == repair[c] IN
    /\ call.pc = "settle"
    /\ candidates' = [candidates EXCEPT ![call.k].status = "activated"]
    /\ IF call.rebind THEN RepairPc(c, "rebind") ELSE RepairDone(c)
    /\ UNCHANGED <<attempts, authHealth>> /\ SameConfig /\ SameRun /\ SameBounds

-----------------------------------------------------------------------------
(* rebind_zero_progress_auth_run                                           *)

\* The run waits for the candidate's base and has sent nothing.
Untouched(k) ==
    /\ authRun.status = "paused" /\ authRun.dep = candidates[k].prev /\ authRun.rev = candidates[k].prev
    /\ \A i \in Ordinals : ckpts[i].status = "pending" /\ ~ckpts[i].tried
                           /\ ckpts[i].snap = authRun.snaps[i]

\* Every snapshot is cloned for the new revision.
RebindClone(c) ==
    LET call == repair[c] IN
    /\ call.pc = "rebind"
    /\ IF /\ candidates[call.k].status = "activated" /\ profile = [current |-> call.rev, active |-> TRUE]
          /\ chains[call.rev] = "active" /\ Untouched(call.k)
       THEN /\ snapshots' = snapshots \cup {CloneOf(i, call.rev, c) : i \in Ordinals}
            /\ RepairGo(c, [call EXCEPT !.pc = "run", !.moved = 0, !.old = authRun.snaps])
       ELSE UNCHANGED snapshots /\ RepairDone(c)
    /\ UNCHANGED <<authRun, ckpts, disturbed>> /\ SameConfig /\ SameProof /\ SameBounds

\* The run row, by compare-and-set; when it has changed the clones are deleted.
RebindRun(c) ==
    LET call == repair[c]
        prev == candidates[call.k].prev
        mine == {CloneOf(i, call.rev, c) : i \in Ordinals}
    IN
    /\ call.pc = "run"
    /\ IF authRun.status = "paused" /\ authRun.dep = prev /\ authRun.rev = prev
       THEN /\ authRun' = [authRun EXCEPT !.dep = call.rev, !.rev = call.rev,
                                          !.snaps = [i \in Ordinals |-> CloneOf(i, call.rev, c)]]
            /\ RepairPc(c, "remap") /\ UNCHANGED snapshots
       ELSE /\ snapshots' = snapshots \ mine /\ RepairDone(c) /\ UNCHANGED authRun
    /\ UNCHANGED <<ckpts, disturbed>> /\ SameConfig /\ SameProof /\ SameBounds

\* The checkpoints, one update each: still pending and on the old snapshot.
Remap(c) ==
    LET call == repair[c]
        i    == call.moved + 1
    IN
    /\ call.pc = "remap" /\ i <= RunSize
    /\ IF ckpts[i].status = "pending" /\ ~ckpts[i].tried /\ ckpts[i].snap = call.old[i]
       THEN /\ ckpts' = [ckpts EXCEPT ![i].snap = CloneOf(i, call.rev, c)]
            /\ RepairGo(c, [call EXCEPT !.moved = i])
       ELSE RepairPc(c, "undo") /\ UNCHANGED ckpts
    /\ UNCHANGED <<authRun, snapshots, disturbed>> /\ SameConfig /\ SameProof /\ SameBounds

\* The except clause: the moved checkpoints go back, the run row too if it is
\* still paused, and the clones are deleted.
Undo(c) ==
    LET call == repair[c] IN
    /\ call.pc = "undo"
    /\ ckpts' = [i \in Ordinals |-> IF ckpts[i].snap = CloneOf(i, call.rev, c)
                                    THEN [ckpts[i] EXCEPT !.snap = call.old[i]] ELSE ckpts[i]]
    /\ authRun' = IF authRun.status = "paused" /\ authRun.rev = call.rev
                  THEN [authRun EXCEPT !.dep = candidates[call.k].prev, !.rev = candidates[call.k].prev,
                                       !.snaps = call.old]
                  ELSE authRun
    /\ snapshots' = snapshots \ {CloneOf(i, call.rev, c) : i \in Ordinals}
    /\ RepairDone(c)
    /\ UNCHANGED disturbed /\ SameConfig /\ SameProof /\ SameBounds

\* Mutant: the last checkpoint is left out.
RebindEndEarly(c) ==
    /\ repair[c].pc = "remap" /\ repair[c].moved >= RunSize - 1
    /\ RepairPc(c, "resume")
    /\ SameConfig /\ SameProof /\ SameRun /\ SameBounds

RebindEnd(c) ==
    /\ repair[c].pc = "remap" /\ repair[c].moved = RunSize
    /\ RepairPc(c, "resume")
    /\ SameConfig /\ SameProof /\ SameRun /\ SameBounds

\* resume_auth_dependency: the run waits for exactly this revision.
ResumeRun(c) ==
    LET call == repair[c] IN
    /\ call.pc = "resume"
    /\ IF authRun.status = "paused" /\ authRun.dep = call.rev
       THEN /\ authRun' = [authRun EXCEPT !.status = "queued", !.dep = 0]
            /\ disturbed' = (disturbed \/ Rebinding # {})
       ELSE UNCHANGED <<authRun, disturbed>>
    /\ RepairDone(c)
    /\ UNCHANGED <<snapshots, ckpts>> /\ SameConfig /\ SameProof /\ SameBounds

-----------------------------------------------------------------------------
(* The scheduler, and lost processes                                       *)

\* Without a context the run gives its checkpoints back and waits for the revision
\* it was bound to.
PauseForAuth ==
    /\ ckpts' = [i \in Ordinals |-> IF ckpts[i].status = "running"
                                    THEN [ckpts[i] EXCEPT !.status = "pending"] ELSE ckpts[i]]
    /\ authRun' = [authRun EXCEPT !.status = "paused", !.dep = authRun.rev]

\* A worker takes a pending checkpoint of the queued run.
TakeCheckpoint(i) ==
    /\ authRun.status = "queued" /\ ckpts[i].status = "pending"
    /\ ckpts' = [ckpts EXCEPT ![i] = [@ EXCEPT !.status = "running", !.tried = TRUE]]
    /\ UNCHANGED <<authRun, snapshots, disturbed, repair>> /\ SameConfig /\ SameProof /\ SameBounds

\* RecipeAccountContextProvider.resolve: the profile must still point to revision r
\* and its chain be active; the login is tried and its outcome becomes the health of
\* the revision.
ContextLoads(r) == profile = [current |-> r, active |-> TRUE] /\ chains[r] = "active"

ResolveContext(r, ok) ==
    /\ ok => ContextLoads(r)
    /\ authHealth' = IF ContextLoads(r) THEN [authHealth EXCEPT ![r] = IF ok THEN "healthy" ELSE "failed"]
                     ELSE authHealth
    /\ UNCHANGED <<snapshots, disturbed, repair, candidates, attempts>> /\ SameConfig /\ SameBounds

\* _preflight, before a checkpoint is taken: a failure pauses the run.
PreflightFails ==
    /\ authRun.status = "queued" /\ \A i \in Ordinals : ckpts[i].status # "running"
    /\ ResolveContext(authRun.rev, FALSE) /\ PauseForAuth

\* The context of a checkpoint that was taken.
CheckpointLogin(i, ok) ==
    /\ ckpts[i].status = "running" /\ authRun.status = "queued"
    /\ ResolveContext(ckpts[i].snap.rev, ok)
    /\ IF ok THEN ckpts' = [ckpts EXCEPT ![i].status = "done"] /\ UNCHANGED authRun
       ELSE PauseForAuth

CancelAuthRun ==
    /\ authRun.status \in {"paused", "queued"}
    /\ authRun' = [authRun EXCEPT !.status = "cancelled"]
    /\ ckpts' = [i \in Ordinals |-> IF ckpts[i].status = "pending"
                                    THEN [ckpts[i] EXCEPT !.status = "cancelled"] ELSE ckpts[i]]
    /\ disturbed' = (disturbed \/ Rebinding # {})
    /\ UNCHANGED <<snapshots, repair>> /\ SameConfig /\ SameProof /\ SameBounds

RepairDies(c) ==
    /\ repair[c].pc # "idle" /\ repairCrashes < MaxRepairCrashes
    /\ repairCrashes' = repairCrashes + 1
    /\ disturbed' = (disturbed \/ c \in Rebinding)
    /\ RepairDone(c)
    /\ UNCHANGED <<repairUsed, authRun, snapshots, ckpts>> /\ SameConfig /\ SameProof

RepairInit ==
    /\ profile = [current |-> 1, active |-> TRUE] /\ chains = <<"active">>
    /\ candidates = << >> /\ attempts = << >> /\ authHealth = <<"failed">>
    /\ authRun = [status |-> "paused", dep |-> 1, rev |-> 1, snaps |-> [i \in Ordinals |-> Original(i)]]
    /\ snapshots = {Original(i) : i \in Ordinals}
    /\ ckpts = [i \in Ordinals |-> [snap |-> Original(i), status |-> "pending", tried |-> FALSE]]
    /\ repair = [c \in RepairCalls |-> RepairIdle]
    /\ repairUsed = 0 /\ repairCrashes = 0 /\ imported = {1} /\ disturbed = FALSE

RepairNext ==
    \/ \E c \in RepairCalls :
          \/ ImportBegin(c) \/ ImportCreate(c) \/ ImportLive(c) \/ ImportPoint(c)
          \/ CandidateBegin(c) \/ CandidateCreate(c)
          \/ \E k \in DOMAIN candidates, rebind \in BOOLEAN : VerifyBegin(c, k, rebind)
          \/ VerifyCurrent(c) \/ VerifyStart(c)
          \/ \E ok \in BOOLEAN : VerifyEnd(c, ok)
          \/ ActivateRead(c) \/ Switch(c) \/ ChainLive(c) \/ Settle(c)
          \/ RebindClone(c) \/ RebindRun(c) \/ Remap(c) \/ Undo(c) \/ RebindEnd(c)
          \/ ResumeRun(c)
          \/ RepairDies(c)
    \/ ToggleProfile
    \/ \E i \in Ordinals : TakeCheckpoint(i) \/ \E ok \in BOOLEAN : CheckpointLogin(i, ok)
    \/ PreflightFails
    \/ CancelAuthRun

RepairSpec == RepairInit /\ [][RepairNext]_authVars

-----------------------------------------------------------------------------
(* Properties.                                                             *)

\* A repair replaces the revision it was built and verified for, and no other: an
\* import or another repair that came first is never overwritten by it.
RepairReplacesItsBase ==
    [][profile'.current # profile.current /\ profile'.current \notin imported' =>
          \E k \in DOMAIN candidates :
             candidates[k].prev = profile.current /\ candidates[k].rev = profile'.current]_authVars

\* Moving the paused run is all or nothing: when no rebind is under way, the run,
\* its checkpoints and its snapshots name one revision and existing documents, as
\* long as nobody resumed or cancelled the run within a rebind and none was lost.
RebindAllOrNothing ==
    Rebinding = {} /\ ~disturbed =>
       \A i \in Ordinals : /\ ckpts[i].snap = authRun.snaps[i] /\ ckpts[i].snap \in snapshots
                           /\ ckpts[i].snap.rev = authRun.rev

\* Stated by rebind_zero_progress_auth_run ("checkpoints are remapped while the
\* run remains paused"): violated when another manager's verification of the new
\* revision resumes the run in between.
RemapsWhilePaused ==
    [][\A i \in Ordinals : ckpts'[i].snap # ckpts[i].snap /\ ckpts'[i].snap.by # "run"
                             => authRun.status = "paused"]_authVars

\* Stated by activate_auth_repair_candidate ("Atomically switch one profile only
\* after its candidate verified"): the live pointer never names a chain that
\* cannot be used.  It does between the switch and the updates that follow it.
SwitchIsAtomic == chains[profile.current] = "active"

\* A revision that is not imported is live only after a login with that very
\* revision succeeded for a candidate: activation looks for the candidate's own
\* attempt, and nothing else moves the pointer.
LiveRevisionVerified ==
    profile.current \in imported \/
    \E n \in DOMAIN attempts :
       /\ attempts[n].rev = profile.current /\ attempts[n].status = "succeeded"
       /\ attempts[n].candidate \in DOMAIN candidates

\* A repair goes live only verified, and moves a paused run as a whole or not at
\* all, through overlapping repairs and a process that dies.
RepairSound == LiveRevisionVerified /\ RebindAllOrNothing
=============================================================================
