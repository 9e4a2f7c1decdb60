------------------------ MODULE RelationAnalysisProofs ------------------------
(***************************************************************************)
(* Proofs about RelationAnalysis, for any number of runs, workers, clients,*)
(* outputs and faults.  The inductive invariant is AnalysisInv: types,     *)
(* Behind (what the documents say is persisted, is) and Carries (what a    *)
(* worker carries in its local variables is true, and as long as it still  *)
(* owns the run, agrees with the run's document).                          *)
(* At the end proofs about RuleProjection, what such a run does with one   *)
(* project, for any projects, rules' limits, batches, crashes and          *)
(* classifications: its inductive invariant is ProjectionInv.              *)
(***************************************************************************)
EXTENDS RelationAnalysis, RuleProjection, FiniteSetTheorems, TLAPS

Statuses == Active \cup Final \cup {None}
Phases   == {"", "rule_persistence", "preprocessing"}
Marks    == Nat \cup {None}

RunDoc == [status : Statuses, owner : Workers \cup {None}, lease : {"none", "live", "expired"},
           phase : Phases, cursor : Nat, watermark : Marks]

IdleAt    == [pc : {"idle"}]
AnalyzeAt == [pc : {"analyze"}, r : Runs, phase : Phases, cursor : Nat, watermark : Marks]
PublishAt == [pc : {"publish"}, r : Runs, phase : Phases, cursor : Nat,
              expected : Marks, watermark : Nat]
PersistAt == [pc : {"persist", "report"}, r : Runs, watermark : Nat, item : Nat \ {0}, count : Nat]
LeavingAt == [pc : {"finish", "interrupted", "fail"}, r : Runs]

\* The shapes of the documents and of a worker's local variables.
Shapes ==
    /\ run \in [Runs -> RunDoc]
    /\ worker \in [Workers -> IdleAt \cup AnalyzeAt \cup PublishAt \cup PersistAt \cup LeavingAt]
    /\ input \in Nat
    /\ faults \in Nat

\* The outputs 1..n of input w are persisted.
Prefix(w, n) == \A i \in 1..n : <<w, i>> \in stored
All(w)       == \A i \in Items : <<w, i>> \in stored

\* A position (phase, cursor) reached for input w is backed by its outputs; a
\* run that names no input yet is at the start.
Backed(w, phase, cursor) ==
    /\ Prefix(w, cursor)
    /\ phase = "preprocessing" => All(w)
    /\ w = None => phase = "" /\ cursor = 0

RunBehind(r) ==
    /\ Backed(run[r].watermark, run[r].phase, run[r].cursor)
    /\ run[r].status = DONE => All(run[r].watermark)

Behind == \A r \in Runs : RunBehind(r)

Agrees(r, w, phase, cursor) ==
    run[r].watermark = w /\ run[r].phase = phase /\ run[r].cursor = cursor

Carry(k) ==
    LET l == worker[k] IN
    /\ l.pc = "analyze" => /\ Backed(l.watermark, l.phase, l.cursor)
                           /\ Owns(k, l.r) => Agrees(l.r, l.watermark, l.phase, l.cursor)
    /\ l.pc = "publish" => /\ Backed(l.expected, l.phase, l.cursor)
                           /\ Owns(k, l.r) => Agrees(l.r, l.expected, l.phase, l.cursor)
    /\ l.pc \in {"persist", "report"} =>
          /\ Prefix(l.watermark, l.item - 1)
          /\ Owns(k, l.r) => run[l.r].watermark = l.watermark
    /\ (l.pc = "finish" /\ Owns(k, l.r)) => All(run[l.r].watermark)

Carries == \A k \in Workers : Carry(k)

AnalysisInv == Shapes /\ Behind /\ Carries

-----------------------------------------------------------------------------
(* What a step leaves alone keeps its part of the invariant.               *)

\* The place a run has reached does not change.
SamePlace(r) ==
    /\ run'[r].watermark = run[r].watermark
    /\ run'[r].phase = run[r].phase
    /\ run'[r].cursor = run[r].cursor

\* Outputs are only ever added, so what was persisted still is.
LEMMA BackedKept ==
    ASSUME NEW w, NEW phase, NEW cursor, stored \subseteq stored'
    PROVE  /\ Prefix(w, cursor) => Prefix(w, cursor)'
           /\ All(w) => All(w)'
           /\ Backed(w, phase, cursor) => Backed(w, phase, cursor)'
BY DEF Prefix, All, Backed, Items

\* A run whose place does not change, and which becomes DONE only with every
\* output persisted, stays backed by its outputs.
LEMMA RunBehindKept ==
    ASSUME NEW r \in Runs, RunBehind(r), stored \subseteq stored', SamePlace(r),
           run'[r].status = DONE => (run[r].status = DONE \/ All(run[r].watermark))
    PROVE  RunBehind(r)'
<1>1. PICK w, phase, cursor : /\ w = run[r].watermark /\ phase = run[r].phase
                              /\ cursor = run[r].cursor
  OBVIOUS
<1>2. Backed(w, phase, cursor)' /\ (run'[r].status = DONE => All(w)')
  BY <1>1, BackedKept DEF RunBehind
<1> QED
  BY <1>1, <1>2 DEF RunBehind, SamePlace, Backed, Prefix, All

\* A worker that does not move keeps what it carries, as long as whoever
\* changed its run took the run away from it.
LEMMA CarryKept ==
    ASSUME NEW k \in Workers, Carry(k), stored \subseteq stored', worker'[k] = worker[k],
           worker[k].pc # "idle" =>
              (Owns(k, worker[k].r)' => Owns(k, worker[k].r) /\ SamePlace(worker[k].r))
    PROVE  Carry(k)'
<1>1. PICK l : l = worker[k]
  OBVIOUS
<1> DEFINE Mine == Owns(k, l.r)
<1>2. l.pc # "idle" => (Owns(k, l.r)' => Mine /\ SamePlace(l.r))
  BY <1>1 DEF Owns, SamePlace
<1>3. CASE l.pc = "analyze"
  <2>1. Backed(l.watermark, l.phase, l.cursor)'
    BY <1>1, <1>3, BackedKept DEF Carry
  <2> QED
    BY <1>1, <1>2, <1>3, <2>1 DEF Carry, Agrees, SamePlace, Owns, Backed, Prefix, All
<1>4. CASE l.pc = "publish"
  <2>1. Backed(l.expected, l.phase, l.cursor)'
    BY <1>1, <1>4, BackedKept DEF Carry
  <2> QED
    BY <1>1, <1>2, <1>4, <2>1 DEF Carry, Agrees, SamePlace, Owns, Backed, Prefix, All
<1>5. CASE l.pc \in {"persist", "report"}
  <2>1. Prefix(l.watermark, l.item - 1)'
    BY <1>1, <1>5, BackedKept DEF Carry
  <2> QED
    BY <1>1, <1>2, <1>5, <2>1 DEF Carry, SamePlace, Owns, Prefix
<1>6. CASE l.pc = "finish"
  <2>1. SUFFICES ASSUME Owns(k, l.r)' PROVE All(run[l.r].watermark)'
    BY <1>1, <1>6 DEF Carry, Owns, All
  <2>2. PICK w : w = run[l.r].watermark
    OBVIOUS
  <2>3. All(w)'
    BY <1>1, <1>2, <1>6, <2>1, <2>2, BackedKept DEF Carry
  <2> QED
    BY <1>2, <1>6, <2>1, <2>2, <2>3 DEF All, SamePlace
<1>7. CASE l.pc \notin {"analyze", "publish", "persist", "report", "finish"}
  BY <1>1, <1>7 DEF Carry
<1> QED
  BY <1>3, <1>4, <1>5, <1>6, <1>7

\* A step of worker k on run r: the others keep what they carry.
LEMMA OthersCarry ==
    ASSUME NEW k \in Workers, NEW r \in Runs, Shapes, Carries, stored \subseteq stored',
           \A j \in Workers \ {k} : worker'[j] = worker[j],
           \A q \in Runs \ {r} : run'[q] = run[q],
           \/ run'[r] = run[r]
           \/ run'[r].owner \in {k, None} \/ run'[r].status # RUNNING,
           Carry(k)'
    PROVE  Carries'
<1>1. SUFFICES ASSUME NEW j \in Workers, j # k PROVE Carry(j)'
  BY DEF Carries
<1>2. worker[j].pc # "idle" => worker[j].r \in Runs
  BY DEF Shapes, IdleAt, AnalyzeAt, PublishAt, PersistAt, LeavingAt
<1>3. Owns(j, worker[j].r)' /\ worker[j].r \in Runs => run'[worker[j].r] = run[worker[j].r]
  BY <1>1, AnalysisAssumption DEF Owns, AnalysisAssumption
<1> QED
  BY <1>1, <1>2, <1>3, CarryKept DEF Carries, Owns, SamePlace

-----------------------------------------------------------------------------
(* The pieces the actions are built from.                                  *)

\* A released or renewed document keeps its place and its shape.
LEMMA Documents ==
    ASSUME Shapes, NEW r \in Runs
    PROVE  /\ \A st \in Statuses : /\ Released(r, st) \in RunDoc
                                   /\ Released(r, st).status = st
                                   /\ Released(r, st).owner = None
                                   /\ Released(r, st).watermark = run[r].watermark
                                   /\ Released(r, st).phase = run[r].phase
                                   /\ Released(r, st).cursor = run[r].cursor
           /\ Renewed(r) \in RunDoc
           /\ Renewed(r).status = run[r].status
           /\ Renewed(r).owner = run[r].owner
           /\ Renewed(r).watermark = run[r].watermark
           /\ Renewed(r).phase = run[r].phase
           /\ Renewed(r).cursor = run[r].cursor
BY DEF Shapes, RunDoc, Released, Renewed

\* An update that only gives up a claim, by whoever makes it.
LEMMA ReleaseKeeps ==
    ASSUME AnalysisInv, NEW r \in Runs, NEW st \in Statuses, st # RUNNING,
           st = DONE => All(run[r].watermark),
           run' = [run EXCEPT ![r] = Released(r, st)], stored' = stored
    PROVE  /\ run' \in [Runs -> RunDoc]
           /\ Behind'
           /\ run'[r].status # RUNNING
           /\ \A q \in Runs \ {r} : run'[q] = run[q]
<1>1. /\ run' \in [Runs -> RunDoc]
      /\ run'[r] = Released(r, st)
      /\ \A q \in Runs \ {r} : run'[q] = run[q]
  BY Documents DEF AnalysisInv, Shapes
<1>2. SamePlace(r) /\ run'[r].status = st
  BY <1>1, Documents DEF AnalysisInv, SamePlace
<1>3. ASSUME NEW q \in Runs PROVE RunBehind(q)'
  <2>1. CASE q # r
    BY <1>1, <2>1, RunBehindKept DEF AnalysisInv, Behind, SamePlace
  <2>2. CASE q = r
    BY <1>2, <2>2, RunBehindKept DEF AnalysisInv, Behind
  <2> QED
    BY <2>1, <2>2
<1> QED
  BY <1>1, <1>2, <1>3 DEF Behind

\* A worker that becomes idle, is about to fail or was interrupted carries
\* nothing.
LEMMA CarriesNothing ==
    ASSUME NEW k \in Workers, worker'[k].pc \in {"idle", "fail", "interrupted"}
    PROVE  Carry(k)'
BY DEF Carry

\* A change of one run that nobody's claim survives unless it was there, and
\* that leaves the run where it is.
LEMMA RunOnly ==
    ASSUME AnalysisInv, NEW r \in Runs, NEW d \in RunDoc, run' = [run EXCEPT ![r] = d],
           worker' = worker, stored' = stored, input' = input, faults' \in Nat,
           d.watermark = run[r].watermark, d.phase = run[r].phase, d.cursor = run[r].cursor,
           d.status = DONE => run[r].status = DONE,
           d.status = RUNNING => run[r].status = RUNNING /\ d.owner = run[r].owner
    PROVE  AnalysisInv'
<1>1. /\ run'[r] = d
      /\ \A q \in Runs \ {r} : run'[q] = run[q]
      /\ run' \in [Runs -> RunDoc]
  BY DEF AnalysisInv, Shapes
<1>2. Shapes'
  BY <1>1 DEF AnalysisInv, Shapes
<1>3. ASSUME NEW q \in Runs PROVE RunBehind(q)'
  BY <1>1, RunBehindKept DEF AnalysisInv, Behind, SamePlace
<1>4. ASSUME NEW k \in Workers PROVE Carry(k)'
  <2>1. worker[k].pc # "idle" => worker[k].r \in Runs
    BY DEF AnalysisInv, Shapes, IdleAt, AnalyzeAt, PublishAt, PersistAt, LeavingAt
  <2>2. ASSUME worker[k].pc # "idle", Owns(k, worker[k].r)'
        PROVE  Owns(k, worker[k].r) /\ SamePlace(worker[k].r)
    BY <1>1, <2>1, <2>2 DEF Owns, SamePlace
  <2> QED
    BY <2>2, CarryKept DEF AnalysisInv, Carries
<1> QED
  BY <1>2, <1>3, <1>4 DEF AnalysisInv, Behind, Carries

-----------------------------------------------------------------------------
(* One lemma for each action.                                              *)

\* A new run starts at no place.
LEMMA EnqueueInsertKeeps ==
    ASSUME AnalysisInv, NEW c \in Clients, EnqueueInsert(c) PROVE AnalysisInv'
<1>1. PICK r \in Runs : run' = [run EXCEPT ![r].status = QUEUED]
  BY DEF EnqueueInsert
<1>2. PICK d : d = [run[r] EXCEPT !.status = QUEUED]
  OBVIOUS
<1>3. d \in RunDoc /\ run' = [run EXCEPT ![r] = d]
  BY <1>1, <1>2 DEF AnalysisInv, Shapes, RunDoc, Statuses, Active
<1> QED
  BY <1>2, <1>3, RunOnly DEF EnqueueInsert, AnalysisInv, Shapes, RunDoc, QUEUED, DONE, RUNNING

\* A cancel changes the status only.
LEMMA CancelKeeps ==
    ASSUME AnalysisInv, NEW r \in Runs, Cancel(r) PROVE AnalysisInv'
<1>1. PICK d : d = [run[r] EXCEPT !.status = CANCEL_REQUESTED]
  OBVIOUS
<1>2. d \in RunDoc /\ run' = [run EXCEPT ![r] = d]
  BY <1>1 DEF Cancel, AnalysisInv, Shapes, RunDoc, Statuses, Active
<1> QED
  BY <1>1, <1>2, RunOnly
     DEF Cancel, AnalysisInv, Shapes, RunDoc, CANCEL_REQUESTED, DONE, RUNNING

\* Time takes a lease, not a place.
LEMMA ExpireLeaseKeeps ==
    ASSUME AnalysisInv, NEW r \in Runs, ExpireLease(r) PROVE AnalysisInv'
<1>1. PICK d : d = [run[r] EXCEPT !.lease = "expired"]
  OBVIOUS
<1>2. d \in RunDoc /\ run' = [run EXCEPT ![r] = d]
  BY <1>1 DEF ExpireLease, AnalysisInv, Shapes, RunDoc
<1>3. faults' \in Nat
  BY DEF ExpireLease, Fault, AnalysisInv, Shapes
<1> QED
  BY <1>1, <1>2, <1>3, RunOnly DEF ExpireLease, AnalysisInv, Shapes, RunDoc

\* A recovered run is queued where it was.
LEMMA RecoverAbandonedKeeps ==
    ASSUME AnalysisInv, NEW r \in Runs, RecoverAbandoned(r) PROVE AnalysisInv'
<1>1. QUEUED \in Statuses /\ QUEUED # DONE /\ QUEUED # RUNNING
  BY DEF Statuses, Active, QUEUED, DONE, RUNNING
<1> QED
  BY <1>1, Documents, RunOnly DEF RecoverAbandoned, AnalysisInv, Shapes

\* A finalized cancel keeps its place.
LEMMA ClaimCancelledKeeps ==
    ASSUME AnalysisInv, NEW k \in Workers, NEW r \in Runs, ClaimCancelled(k, r)
    PROVE  AnalysisInv'
<1>1. CANCELLED \in Statuses /\ CANCELLED # DONE /\ CANCELLED # RUNNING
  BY DEF Statuses, Final, CANCELLED, DONE, RUNNING
<1> QED
  BY <1>1, Documents, RunOnly DEF ClaimCancelled, AnalysisInv, Shapes

\* Steps that touch neither runs, workers nor outputs.
LEMMA QuietKeeps ==
    ASSUME AnalysisInv, UNCHANGED <<run, worker, stored>>, input' \in Nat, faults' \in Nat
    PROVE  AnalysisInv'
BY DEF AnalysisInv, Shapes, Behind, RunBehind, Carries, Carry, Agrees, Owns, Backed, Prefix, All

\* The claim takes the place of the run along.
LEMMA ClaimKeeps ==
    ASSUME AnalysisInv, NEW k \in Workers, NEW r \in Runs, Claim(k, r) PROVE AnalysisInv'
<1>1. /\ run'[r] = [run[r] EXCEPT !.status = RUNNING, !.owner = k, !.lease = "live"]
      /\ \A q \in Runs \ {r} : run'[q] = run[q]
      /\ run' \in [Runs -> RunDoc]
  <2>1. PICK d : d = [run[r] EXCEPT !.status = RUNNING, !.owner = k, !.lease = "live"]
    OBVIOUS
  <2>2. d \in RunDoc
    BY <2>1 DEF AnalysisInv, Shapes, RunDoc, Statuses, Active
  <2>3. run' = [run EXCEPT ![r] = d]
    BY <2>1 DEF Claim
  <2> QED
    BY <2>1, <2>2, <2>3 DEF AnalysisInv, Shapes
<1>2. SamePlace(r) /\ run'[r].status = RUNNING /\ run'[r].owner = k
  BY <1>1 DEF SamePlace, AnalysisInv, Shapes, RunDoc
<1>3. /\ worker'[k] = [pc |-> "analyze", r |-> r, phase |-> run[r].phase,
                       cursor |-> run[r].cursor, watermark |-> run[r].watermark]
      /\ \A j \in Workers \ {k} : worker'[j] = worker[j]
  BY DEF Claim, Be, AnalysisInv, Shapes
<1>4. Shapes'
  <2>1. worker'[k] \in AnalyzeAt
    BY <1>3 DEF AnalysisInv, Shapes, RunDoc, AnalyzeAt
  <2> QED
    BY <1>1, <2>1 DEF Claim, Be, AnalysisInv, Shapes
<1>5. ASSUME NEW q \in Runs PROVE RunBehind(q)'
  BY <1>1, <1>2, RunBehindKept DEF AnalysisInv, Behind, SamePlace, Claim, RUNNING, DONE
<1>6. Carry(k)'
  <2>1. PICK w, phase, cursor : w = run[r].watermark /\ phase = run[r].phase /\ cursor = run[r].cursor
    OBVIOUS
  <2>2. Backed(w, phase, cursor)'
    BY <2>1, BackedKept DEF AnalysisInv, Behind, RunBehind, Claim
  <2>3. Agrees(r, w, phase, cursor)'
    BY <1>2, <2>1 DEF Agrees, SamePlace
  <2>4. PICK l : l = worker'[k]
    OBVIOUS
  <2>5. l.pc = "analyze" /\ l.r = r /\ l.phase = phase /\ l.cursor = cursor /\ l.watermark = w
    BY <1>3, <2>1, <2>4
  <2> QED
    BY <2>2, <2>3, <2>4, <2>5 DEF Carry, Agrees, Backed, Prefix, All
<1>7. Carries'
  BY <1>1, <1>2, <1>3, <1>6, OthersCarry DEF AnalysisInv, Claim
<1> QED
  BY <1>4, <1>5, <1>7 DEF AnalysisInv, Behind

Places == IdleAt \cup AnalyzeAt \cup PublishAt \cup PersistAt \cup LeavingAt

\* What is left to show of a step of worker k on run r.
LEMMA WorkerStep ==
    ASSUME AnalysisInv, NEW k \in Workers, NEW r \in Runs, NEW l \in Places,
           worker' = [worker EXCEPT ![k] = l],
           run' \in [Runs -> RunDoc], \A q \in Runs \ {r} : run'[q] = run[q],
           \/ run'[r] = run[r]
           \/ run'[r].owner \in {k, None} \/ run'[r].status # RUNNING,
           stored \subseteq stored', input' = input, faults' \in Nat,
           RunBehind(r)', Carry(k)'
    PROVE  AnalysisInv'
<1>1. \A j \in Workers \ {k} : worker'[j] = worker[j]
  BY DEF AnalysisInv, Shapes
<1>2. Shapes'
  BY DEF AnalysisInv, Shapes, Places
<1>3. ASSUME NEW q \in Runs PROVE RunBehind(q)'
  BY RunBehindKept DEF AnalysisInv, Behind, SamePlace
<1>4. Carries'
  BY <1>1, OthersCarry DEF AnalysisInv
<1> QED
  BY <1>2, <1>3, <1>4 DEF AnalysisInv, Behind

\* The filtered update: the new document, if the worker still owns the run.
LEMMA Updated ==
    ASSUME AnalysisInv, NEW k \in Workers, NEW r \in Runs, NEW d \in RunDoc, UpdateOwned(k, r, d)
    PROVE  /\ run' \in [Runs -> RunDoc]
           /\ \A q \in Runs \ {r} : run'[q] = run[q]
           /\ Owns(k, r) => run'[r] = d
           /\ ~Owns(k, r) => run'[r] = run[r]
BY DEF AnalysisInv, Shapes, UpdateOwned

\* A worker that leaves by giving up its claim, if it still has it.
LEMMA LeaveKeeps ==
    ASSUME AnalysisInv, NEW k \in Workers, NEW r \in Runs, NEW st \in Statuses,
           UpdateOwned(k, r, Released(r, st)), Be(k, Idle),
           UNCHANGED <<input, stored, faults>>,
           st = DONE => (Owns(k, r) => All(run[r].watermark))
    PROVE  AnalysisInv'
<1>1. Idle \in Places /\ worker'[k] = Idle /\ Idle.pc = "idle"
  BY DEF Be, Idle, Places, IdleAt, AnalysisInv, Shapes
<1>2. Carry(k)'
  BY <1>1, CarriesNothing
<1>3. Released(r, st) \in RunDoc
  BY Documents DEF AnalysisInv
<1>4. SamePlace(r) /\ (run'[r] = run[r] \/ (Owns(k, r) /\ run'[r].owner = None /\ run'[r].status = st))
  BY <1>3, Updated, Documents DEF AnalysisInv, SamePlace
<1>5. RunBehind(r)'
  BY <1>4, RunBehindKept DEF AnalysisInv, Behind
<1>6. worker' = [worker EXCEPT ![k] = Idle] /\ faults' \in Nat
  BY DEF Be, AnalysisInv, Shapes
<1> QED
  BY <1>1, <1>2, <1>3, <1>4, <1>5, <1>6, Updated, WorkerStep

\* The local variables a worker has at each step.
LEMMA PlaceOf ==
    ASSUME Shapes, NEW k \in Workers
    PROVE  /\ worker[k].pc = "idle" => worker[k] \in IdleAt
           /\ worker[k].pc = "analyze" => worker[k] \in AnalyzeAt
           /\ worker[k].pc = "publish" => worker[k] \in PublishAt
           /\ worker[k].pc \in {"persist", "report"} => worker[k] \in PersistAt
           /\ worker[k].pc \in {"finish", "interrupted", "fail"} => worker[k] \in LeavingAt
           /\ worker[k].pc # "idle" => worker[k].r \in Runs
BY DEF Shapes, IdleAt, AnalyzeAt, PublishAt, PersistAt, LeavingAt

\* A worker that still owns its run has every output behind it.
LEMMA FinishKeeps ==
    ASSUME AnalysisInv, NEW k \in Workers, Finish(k) PROVE AnalysisInv'
<1>1. worker[k].r \in Runs /\ worker[k].pc = "finish"
  BY PlaceOf DEF Finish, AnalysisInv
<1>2. Owns(k, worker[k].r) => All(run[worker[k].r].watermark)
  BY <1>1 DEF AnalysisInv, Carries, Carry
<1>3. DONE \in Statuses
  BY DEF Statuses, Final
<1> QED
  BY <1>1, <1>2, <1>3, LeaveKeeps DEF Finish

\* A failure gives up the claim only.
LEMMA FailKeeps ==
    ASSUME AnalysisInv, NEW k \in Workers, Fail(k) PROVE AnalysisInv'
<1>1. worker[k].r \in Runs
  BY PlaceOf DEF Fail, AnalysisInv
<1>2. FAILED \in Statuses /\ FAILED # DONE
  BY DEF Statuses, Final, FAILED, DONE
<1> QED
  BY <1>1, <1>2, LeaveKeeps DEF Fail

\* An interrupted worker queues or cancels the run where it is.
LEMMA FinishCancelledKeeps ==
    ASSUME AnalysisInv, NEW k \in Workers, FinishCancelled(k) PROVE AnalysisInv'
<1>1. PICK r \in Runs : r = worker[k].r
  BY PlaceOf DEF FinishCancelled, AnalysisInv
<1>2. /\ QUEUED \in Statuses /\ QUEUED # DONE
      /\ CANCELLED \in Statuses /\ CANCELLED # DONE /\ CANCELLED # RUNNING
  BY DEF Statuses, Active, Final, QUEUED, CANCELLED, DONE, RUNNING
<1>3. CASE stop[k]
  BY <1>1, <1>2, <1>3, LeaveKeeps DEF FinishCancelled
<1>4. CASE ~stop[k]
  <2>1. Idle \in Places /\ worker' = [worker EXCEPT ![k] = Idle] /\ worker'[k].pc = "idle"
    BY DEF FinishCancelled, Be, Idle, Places, IdleAt, AnalysisInv, Shapes
  <2>2. faults' \in Nat /\ stored' = stored /\ input' = input
    BY DEF FinishCancelled, AnalysisInv, Shapes
  <2>3. Carry(k)'
    BY <2>1, CarriesNothing
  <2>4. CASE run' = run
    <3>1. RunBehind(r)'
      BY <2>2, <2>4, RunBehindKept DEF AnalysisInv, Behind, SamePlace
    <3> QED
      BY <2>1, <2>2, <2>3, <2>4, <3>1, WorkerStep DEF AnalysisInv, Shapes
  <2>5. CASE run' = [run EXCEPT ![r] = Released(r, CANCELLED)]
    BY <1>2, <2>1, <2>2, <2>3, <2>5, ReleaseKeeps, WorkerStep DEF Behind
  <2> QED
    BY <1>1, <1>4, <2>4, <2>5 DEF FinishCancelled
<1> QED
  BY <1>3, <1>4

\* A worker that moves without touching its run.
LEMMA MoveKeeps ==
    ASSUME AnalysisInv, NEW k \in Workers, NEW r \in Runs, NEW l \in Places,
           worker' = [worker EXCEPT ![k] = l], l.pc \in {"idle", "fail", "interrupted"},
           UNCHANGED <<run, stored, input>>, faults' \in Nat
    PROVE  AnalysisInv'
<1>1. worker'[k] = l
  BY DEF AnalysisInv, Shapes
<1>2. Carry(k)'
  BY <1>1, CarriesNothing
<1>3. RunBehind(r)'
  BY RunBehindKept DEF AnalysisInv, Behind, SamePlace
<1> QED
  BY <1>2, <1>3, WorkerStep DEF AnalysisInv, Shapes

\* An error only moves the worker.
LEMMA RaiseKeeps ==
    ASSUME AnalysisInv, NEW k \in Workers, Raise(k) PROVE AnalysisInv'
<1>1. PICK r \in Runs : r = worker[k].r
  BY PlaceOf DEF Raise, AnalysisInv
<1>2. [pc |-> "fail", r |-> r] \in Places
  BY DEF Places, LeavingAt
<1>3. faults' \in Nat
  BY DEF Raise, Fault, AnalysisInv, Shapes
<1> QED
  BY <1>1, <1>2, <1>3, MoveKeeps DEF Raise, Be

\* A crash only forgets what the worker carried.
LEMMA CrashKeeps ==
    ASSUME AnalysisInv, NEW k \in Workers, Crash(k) PROVE AnalysisInv'
<1>1. PICK r \in Runs : r = worker[k].r
  BY PlaceOf DEF Crash, AnalysisInv
<1>2. Idle \in Places /\ Idle.pc = "idle"
  BY DEF Idle, Places, IdleAt
<1>3. faults' \in Nat
  BY DEF Crash, Fault, AnalysisInv, Shapes
<1> QED
  BY <1>1, <1>2, <1>3, MoveKeeps DEF Crash, Be

\* A refused cursor only moves the worker.
LEMMA RefuseWatermarkKeeps ==
    ASSUME AnalysisInv, NEW k \in Workers, RefuseWatermark(k) PROVE AnalysisInv'
<1>1. PICK r \in Runs : r = worker[k].r
  BY PlaceOf DEF RefuseWatermark, AnalysisInv
<1>2. [pc |-> "fail", r |-> r] \in Places
  BY DEF Places, LeavingAt
<1>3. faults' \in Nat
  BY DEF RefuseWatermark, AnalysisInv, Shapes
<1> QED
  BY <1>1, <1>2, <1>3, MoveKeeps DEF RefuseWatermark, Be

\* The projection renews the lease and carries the place on.
LEMMA AnalyzeKeeps ==
    ASSUME AnalysisInv, NEW k \in Workers, Analyze(k) PROVE AnalysisInv'
<1>1. PICK l \in AnalyzeAt : l = worker[k]
  BY PlaceOf DEF Analyze, AnalysisInv
<1>2. PICK m : m = [pc |-> "publish", r |-> l.r, phase |-> l.phase, cursor |-> l.cursor,
                    expected |-> l.watermark, watermark |-> input]
  OBVIOUS
<1>3. m \in Places /\ worker' = [worker EXCEPT ![k] = m] /\ worker'[k] = m
  BY <1>1, <1>2 DEF Analyze, Be, Places, PublishAt, AnalyzeAt, AnalysisInv, Shapes
<1>4. l.r \in Runs /\ stored' = stored /\ input' = input /\ faults' \in Nat
  BY DEF Analyze, AnalyzeAt, AnalysisInv, Shapes
<1>5. /\ SamePlace(l.r) /\ run'[l.r].status = run[l.r].status
      /\ run'[l.r].owner = run[l.r].owner
      /\ run' \in [Runs -> RunDoc] /\ \A q \in Runs \ {l.r} : run'[q] = run[q]
      /\ run'[l.r] = run[l.r] \/ run'[l.r].owner = k
  BY <1>1, <1>4, Updated, Documents DEF Analyze, AnalysisInv, SamePlace, Owns
<1>6. RunBehind(l.r)'
  BY <1>4, <1>5, RunBehindKept DEF AnalysisInv, Behind
<1>7. Carry(k)'
  <2>1. Backed(l.watermark, l.phase, l.cursor)'
    BY <1>1, <1>4, BackedKept DEF AnalyzeAt, AnalysisInv, Carries, Carry
  <2>2. Owns(k, l.r)' => Agrees(l.r, l.watermark, l.phase, l.cursor)'
    BY <1>1, <1>5 DEF Owns, Agrees, SamePlace, AnalyzeAt, AnalysisInv, Carries, Carry
  <2>3. /\ m.pc = "publish" /\ m.r = l.r /\ m.phase = l.phase /\ m.cursor = l.cursor
        /\ m.expected = l.watermark
    BY <1>2
  <2> QED
    BY <1>3, <2>1, <2>2, <2>3 DEF Carry, Owns, Agrees, Backed, Prefix, All
<1> QED
  BY <1>3, <1>4, <1>5, <1>6, <1>7, WorkerStep

\* The watermark is recorded; the place of the run is the one the worker has
\* carried, so it is backed by the outputs of that same input.
LEMMA PublishKeeps ==
    ASSUME AnalysisInv, NEW k \in Workers, Publish(k) PROVE AnalysisInv'
<1>1. PICK l \in PublishAt : l = worker[k]
  BY PlaceOf DEF Publish, AnalysisInv
<1>2. PICK phase \in Phases : phase = IF l.phase = "" THEN "rule_persistence" ELSE l.phase
  BY DEF PublishAt, Phases
<1>3. PICK d : d = [Renewed(l.r) EXCEPT !.watermark = l.watermark, !.phase = phase]
  OBVIOUS
<1>4. PICK m : m = IF l.phase = "preprocessing" THEN [pc |-> "finish", r |-> l.r]
                   ELSE [pc |-> "persist", r |-> l.r, watermark |-> l.watermark,
                         item |-> IF l.phase = "rule_persistence" THEN l.cursor + 1 ELSE 1,
                         count |-> 0]
  OBVIOUS
<1>5. m \in Places /\ worker' = [worker EXCEPT ![k] = m] /\ worker'[k] = m
  <2>1. worker' = [worker EXCEPT ![k] = m]
    BY <1>1, <1>4 DEF Publish, Be
  <2>2. m \in Places
    BY <1>4 DEF Places, PublishAt, PersistAt, LeavingAt
  <2> QED
    BY <2>1, <2>2 DEF AnalysisInv, Shapes
<1>6. l.r \in Runs /\ stored' = stored /\ input' = input /\ faults' \in Nat
  BY DEF Publish, PublishAt, AnalysisInv, Shapes
<1>7. /\ d \in RunDoc /\ d.watermark = l.watermark /\ d.phase = phase
      /\ d.cursor = run[l.r].cursor /\ d.status = run[l.r].status /\ d.owner = run[l.r].owner
  <2>1. Renewed(l.r) \in RunDoc /\ l.watermark \in Marks
    BY <1>6, Documents DEF AnalysisInv, PublishAt, Marks
  <2>2. d \in RunDoc
    BY <1>2, <1>3, <2>1 DEF RunDoc
  <2>3. /\ d.watermark = l.watermark /\ d.phase = phase /\ d.cursor = Renewed(l.r).cursor
        /\ d.status = Renewed(l.r).status /\ d.owner = Renewed(l.r).owner
    BY <1>3, <2>1 DEF RunDoc
  <2> QED
    BY <1>6, <2>2, <2>3, Documents DEF AnalysisInv
<1>8. UpdateOwned(k, l.r, d)
  BY <1>1, <1>2, <1>3 DEF Publish
<1>9. /\ run' \in [Runs -> RunDoc] /\ \A q \in Runs \ {l.r} : run'[q] = run[q]
      /\ Owns(k, l.r) => run'[l.r] = d
      /\ ~Owns(k, l.r) => run'[l.r] = run[l.r]
  BY <1>6, <1>7, <1>8, Updated
<1>10. /\ Backed(l.expected, l.phase, l.cursor)
       /\ Owns(k, l.r) => Agrees(l.r, l.expected, l.phase, l.cursor)
  BY <1>1 DEF PublishAt, AnalysisInv, Carries, Carry
<1>11. l.expected = None \/ l.expected = l.watermark
  BY <1>1 DEF Publish, WatermarkOK
<1>12. /\ Prefix(l.watermark, l.cursor)
       /\ l.phase = "preprocessing" => All(l.watermark)
  <2>1. CASE l.expected = None
    <3>1. l.phase = "" /\ l.cursor = 0
      BY <1>10, <2>1 DEF Backed
    <3>2. Prefix(l.watermark, 0)
      BY DEF Prefix
    <3> QED
      BY <3>1, <3>2
  <2>2. CASE l.expected = l.watermark
    BY <1>10, <2>2 DEF Backed
  <2> QED
    BY <1>11, <2>1, <2>2
<1>13. l.watermark # None
  BY AnalysisAssumption DEF AnalysisAssumption, PublishAt
<1>14. RunBehind(l.r)'
  <2>1. CASE ~Owns(k, l.r)
    BY <1>6, <1>9, <2>1, RunBehindKept DEF AnalysisInv, Behind, SamePlace
  <2>2. CASE Owns(k, l.r)
    <3>1. d.cursor = l.cursor /\ d.status # DONE
      BY <1>7, <1>10, <2>2 DEF Agrees, Owns, RUNNING, DONE
    <3>2. Prefix(d.watermark, d.cursor)' /\ (d.phase = "preprocessing" => All(d.watermark)')
      BY <1>2, <1>6, <1>7, <1>12, <3>1 DEF Prefix, All
    <3>3. Backed(d.watermark, d.phase, d.cursor)'
      BY <1>7, <1>13, <3>2 DEF Backed
    <3>4. run'[l.r] = d
      BY <1>9, <2>2
    <3> QED
      BY <3>1, <3>3, <3>4 DEF RunBehind, Backed, Prefix, All
  <2> QED
    BY <2>1, <2>2
<1>15. Carry(k)'
  <2>1. CASE l.phase = "preprocessing"
    <3>1. m.pc = "finish" /\ m.r = l.r
      BY <1>4, <2>1
    <3>2. Owns(k, l.r)' => run'[l.r].watermark = l.watermark
      BY <1>7, <1>9 DEF Owns
    <3>3. All(l.watermark)'
      BY <1>6, <1>12, <2>1 DEF All
    <3> QED
      BY <1>5, <3>1, <3>2, <3>3 DEF Carry, Owns, All
  <2>2. CASE l.phase # "preprocessing"
    <3>1. /\ m.pc = "persist" /\ m.r = l.r /\ m.watermark = l.watermark
          /\ m.item - 1 = l.cursor \/ m.item - 1 = 0
      BY <1>4, <2>2 DEF PublishAt
    <3>2. Owns(k, l.r)' => run'[l.r].watermark = l.watermark
      BY <1>7, <1>9 DEF Owns
    <3>3. Prefix(l.watermark, m.item - 1)'
      BY <1>6, <1>12, <3>1 DEF Prefix
    <3> QED
      BY <1>5, <3>1, <3>2, <3>3 DEF Carry, Owns, Prefix
  <2> QED
    BY <2>1, <2>2
<1>16. run'[l.r] = run[l.r] \/ run'[l.r].owner = k
  BY <1>7, <1>9 DEF Owns
<1> QED
  BY <1>5, <1>6, <1>9, <1>14, <1>15, <1>16, WorkerStep

\* One more output is persisted; nobody else loses anything by it.
LEMMA PersistItemKeeps ==
    ASSUME AnalysisInv, NEW k \in Workers, PersistItem(k) PROVE AnalysisInv'
<1>1. PICK l \in PersistAt : l = worker[k] /\ l.pc = "persist"
  BY PlaceOf DEF PersistItem, AnalysisInv
<1>2. PICK m : m = [l EXCEPT !.item = @ + 1, !.count = (@ + 1) % Batch,
                       !.pc = IF (l.count + 1) % Batch = 0 THEN "report" ELSE "persist"]
  OBVIOUS
<1>3. /\ m \in PersistAt /\ m.r = l.r /\ m.watermark = l.watermark /\ m.item - 1 = l.item
      /\ m.pc \in {"persist", "report"}
  <2>1. PICK c \in Nat : c = (l.count + 1) % Batch
    BY AnalysisAssumption DEF PersistAt, AnalysisAssumption
  <2>2. PICK at \in {"persist", "report"} : at = IF c = 0 THEN "report" ELSE "persist"
    OBVIOUS
  <2>3. m = [l EXCEPT !.item = @ + 1, !.count = c, !.pc = at]
    BY <1>2, <2>1, <2>2 DEF PersistAt
  <2>4. PICK n \in Nat \ {0} : n = l.item + 1 /\ n - 1 = l.item
    BY DEF PersistAt
  <2>5. m = [l EXCEPT !.item = n, !.count = c, !.pc = at]
    BY <2>3, <2>4 DEF PersistAt
  <2>6. m.item = n /\ m.pc = at
    BY <2>5 DEF PersistAt
  <2>7. m \in PersistAt /\ m.r = l.r /\ m.watermark = l.watermark
    BY <2>5 DEF PersistAt
  <2> QED
    BY <2>4, <2>6, <2>7
<1>4. m \in Places /\ worker' = [worker EXCEPT ![k] = m] /\ worker'[k] = m
  <2>1. worker' = [worker EXCEPT ![k] = m]
    BY <1>1, <1>2 DEF PersistItem, Be
  <2> QED
    BY <1>3, <2>1 DEF Places, AnalysisInv, Shapes
<1>5. /\ l.r \in Runs /\ run' = run /\ input' = input /\ faults' \in Nat
      /\ stored' = stored \cup {<<l.watermark, l.item>>}
  BY <1>1 DEF PersistItem, PersistAt, AnalysisInv, Shapes
<1>6. RunBehind(l.r)'
  BY <1>5, RunBehindKept DEF AnalysisInv, Behind, SamePlace
<1>7. Prefix(l.watermark, l.item)'
  <2>1. Prefix(l.watermark, l.item - 1)
    BY <1>1 DEF AnalysisInv, Carries, Carry
  <2>2. \A i \in 1..l.item : i = l.item \/ i \in 1..(l.item - 1)
    BY DEF PersistAt
  <2> QED
    BY <1>5, <2>1, <2>2 DEF Prefix
<1>8. Owns(k, l.r)' => run'[l.r].watermark = l.watermark
  BY <1>1, <1>5 DEF Owns, AnalysisInv, Carries, Carry
<1>9. Carry(k)'
  BY <1>3, <1>4, <1>7, <1>8 DEF Carry, Owns, Prefix
<1> QED
  BY <1>4, <1>5, <1>6, <1>9, WorkerStep DEF AnalysisInv, Shapes

\* A cursor is written for the outputs its worker has persisted.
LEMMA ReportKeeps ==
    ASSUME AnalysisInv, NEW k \in Workers, Report(k) PROVE AnalysisInv'
<1>1. PICK l \in PersistAt : l = worker[k] /\ l.pc = "report"
  BY PlaceOf DEF Report, AnalysisInv
<1>2. l.r \in Runs /\ stored' = stored /\ input' = input /\ faults' \in Nat
  BY DEF Report, PersistAt, AnalysisInv, Shapes
<1>3. CASE run' = run /\ Be(k, [pc |-> "interrupted", r |-> l.r])
  <2>1. [pc |-> "interrupted", r |-> l.r] \in Places
    BY <1>2 DEF Places, LeavingAt
  <2> QED
    BY <1>2, <1>3, <2>1, MoveKeeps DEF Be
<1>4. CASE /\ Owns(k, l.r)
           /\ run' = [run EXCEPT ![l.r] = [Renewed(l.r) EXCEPT
                         !.cursor = l.item - 1, !.phase = "rule_persistence"]]
           /\ Be(k, [l EXCEPT !.pc = "persist"])
  <2>1. PICK m : m = [l EXCEPT !.pc = "persist"]
    OBVIOUS
  <2>2. /\ m \in PersistAt /\ m.r = l.r /\ m.watermark = l.watermark /\ m.item = l.item
        /\ m.pc = "persist"
    BY <2>1 DEF PersistAt
  <2>3. m \in Places /\ worker' = [worker EXCEPT ![k] = m] /\ worker'[k] = m
    <3>1. worker' = [worker EXCEPT ![k] = m]
      BY <1>4, <2>1 DEF Be
    <3> QED
      BY <2>2, <3>1 DEF Places, AnalysisInv, Shapes
  <2>4. PICK d : d = [Renewed(l.r) EXCEPT !.cursor = l.item - 1, !.phase = "rule_persistence"]
    OBVIOUS
  <2>5. /\ d \in RunDoc /\ d.watermark = run[l.r].watermark /\ d.phase = "rule_persistence"
        /\ d.cursor = l.item - 1 /\ d.status = RUNNING /\ d.owner = k
    <3>1. PICK n \in Nat : n = l.item - 1
      BY DEF PersistAt
    <3>2. /\ Renewed(l.r) \in RunDoc /\ Renewed(l.r).status = RUNNING /\ Renewed(l.r).owner = k
          /\ Renewed(l.r).watermark = run[l.r].watermark
      BY <1>2, <1>4, Documents DEF AnalysisInv, Owns
    <3> QED
      BY <2>4, <3>1, <3>2 DEF RunDoc, Phases
  <2>6. /\ run' \in [Runs -> RunDoc] /\ run'[l.r] = d
        /\ \A q \in Runs \ {l.r} : run'[q] = run[q]
    BY <1>2, <1>4, <2>4, <2>5 DEF AnalysisInv, Shapes
  <2>7. Prefix(l.watermark, l.item - 1) /\ run[l.r].watermark = l.watermark
    BY <1>1, <1>4 DEF AnalysisInv, Carries, Carry
  <2>8. Prefix(l.watermark, l.item - 1)'
    BY <1>2, <2>7 DEF Prefix
  <2>9. Backed(d.watermark, d.phase, d.cursor)'
    <3>1. l.watermark # None
      BY AnalysisAssumption DEF AnalysisAssumption, PersistAt
    <3> QED
      BY <2>5, <2>7, <2>8, <3>1 DEF Backed
  <2>10. RunBehind(l.r)'
    BY <2>5, <2>6, <2>9 DEF RunBehind, Backed, Prefix, All, RUNNING, DONE
  <2>11. Carry(k)'
    BY <2>2, <2>3, <2>5, <2>6, <2>7, <2>8 DEF Carry, Owns, Prefix
  <2> QED
    BY <1>2, <2>3, <2>5, <2>6, <2>10, <2>11, WorkerStep
<1> QED
  BY <1>1, <1>3, <1>4 DEF Report

\* Persistence is over: the position is the last output.
LEMMA DraftsKeeps ==
    ASSUME AnalysisInv, NEW k \in Workers, Drafts(k) PROVE AnalysisInv'
<1>1. PICK l \in PersistAt : l = worker[k] /\ l.pc = "persist" /\ l.item \notin Items
  BY PlaceOf DEF Drafts, AnalysisInv
<1>2. l.r \in Runs /\ stored' = stored /\ input' = input /\ faults' \in Nat
  BY DEF Drafts, PersistAt, AnalysisInv, Shapes
<1>3. PICK m : m = [pc |-> "finish", r |-> l.r]
  OBVIOUS
<1>4. /\ m \in Places /\ worker' = [worker EXCEPT ![k] = m] /\ worker'[k] = m
      /\ m.pc = "finish" /\ m.r = l.r
  BY <1>1, <1>2, <1>3 DEF Drafts, Be, Places, LeavingAt, AnalysisInv, Shapes
<1>5. PICK d : d = [Renewed(l.r) EXCEPT !.phase = "preprocessing", !.cursor = 0]
  OBVIOUS
<1>6. /\ d \in RunDoc /\ d.watermark = run[l.r].watermark /\ d.phase = "preprocessing"
      /\ d.cursor = 0 /\ d.status = run[l.r].status /\ d.owner = run[l.r].owner
  <2>1. Renewed(l.r) \in RunDoc
    BY <1>2, Documents DEF AnalysisInv
  <2>2. d \in RunDoc
    BY <1>5, <2>1 DEF RunDoc, Phases
  <2>3. /\ d.watermark = Renewed(l.r).watermark /\ d.phase = "preprocessing" /\ d.cursor = 0
        /\ d.status = Renewed(l.r).status /\ d.owner = Renewed(l.r).owner
    BY <1>5, <2>1 DEF RunDoc
  <2> QED
    BY <1>2, <2>2, <2>3, Documents DEF AnalysisInv
<1>7. UpdateOwned(k, l.r, d)
  BY <1>1, <1>5 DEF Drafts
<1>8. /\ run' \in [Runs -> RunDoc] /\ \A q \in Runs \ {l.r} : run'[q] = run[q]
      /\ Owns(k, l.r) => run'[l.r] = d
      /\ ~Owns(k, l.r) => run'[l.r] = run[l.r]
  BY <1>2, <1>6, <1>7, Updated
<1>9. /\ All(l.watermark) /\ All(l.watermark)'
      /\ Owns(k, l.r) => run[l.r].watermark = l.watermark
  <2>1. Prefix(l.watermark, l.item - 1) /\ (Owns(k, l.r) => run[l.r].watermark = l.watermark)
    BY <1>1 DEF AnalysisInv, Carries, Carry
  <2>2. \A i \in Items : i \in 1..(l.item - 1)
    BY <1>1, AnalysisAssumption DEF AnalysisAssumption, Items, PersistAt
  <2> QED
    BY <1>2, <2>1, <2>2 DEF Prefix, All
<1>10. RunBehind(l.r)'
  <2>1. CASE ~Owns(k, l.r)
    BY <1>2, <1>8, <2>1, RunBehindKept DEF AnalysisInv, Behind, SamePlace
  <2>2. CASE Owns(k, l.r)
    <3>1. run'[l.r] = d /\ d.watermark = l.watermark
      BY <1>6, <1>8, <1>9, <2>2
    <3>2. l.watermark # None /\ Prefix(l.watermark, 0)'
      BY AnalysisAssumption DEF AnalysisAssumption, PersistAt, Prefix
    <3>3. Backed(d.watermark, d.phase, d.cursor)' /\ All(d.watermark)'
      BY <1>6, <1>9, <3>1, <3>2 DEF Backed
    <3> QED
      BY <3>1, <3>3 DEF RunBehind, Backed, Prefix, All
  <2> QED
    BY <2>1, <2>2
<1>11. Carry(k)'
  <2>1. Owns(k, l.r)' => run'[l.r].watermark = l.watermark
    BY <1>6, <1>8, <1>9 DEF Owns
  <2> QED
    BY <1>4, <1>9, <2>1 DEF Carry, Owns, All
<1>12. run'[l.r] = run[l.r] \/ run'[l.r].owner = k
  BY <1>6, <1>8 DEF Owns
<1> QED
  BY <1>2, <1>4, <1>8, <1>10, <1>11, <1>12, WorkerStep

-----------------------------------------------------------------------------
(* The theorems.                                                           *)

\* The invariant holds at the start ...
LEMMA InitHolds == Init => AnalysisInv
<1> SUFFICES ASSUME Init PROVE AnalysisInv
  OBVIOUS
<1>1. Shapes
  BY DEF Init, Shapes, NoRun, Idle, RunDoc, IdleAt, Statuses, Phases, Marks
<1>2. Behind
  <2>1. ASSUME NEW r \in Runs
        PROVE  /\ run[r].watermark = None /\ run[r].phase = "" /\ run[r].cursor = 0
               /\ run[r].status = None
    BY DEF Init, NoRun
  <2>2. None # DONE
    BY AnalysisAssumption DEF AnalysisAssumption, DONE
  <2>3. Prefix(None, 0)
    BY DEF Prefix
  <2>4. Backed(None, "", 0)
    BY <2>3 DEF Backed
  <2> QED
    BY <2>1, <2>2, <2>4 DEF Behind, RunBehind
<1>3. Carries
  BY DEF Init, Idle, Carries, Carry
<1> QED
  BY <1>1, <1>2, <1>3 DEF AnalysisInv

\* ... and every step keeps it.
LEMMA StepKeeps == AnalysisInv /\ [Next]_vars => AnalysisInv'
<1> SUFFICES ASSUME AnalysisInv, [Next]_vars PROVE AnalysisInv'
  OBVIOUS
<1>1. CASE UNCHANGED vars
  BY <1>1, QuietKeeps DEF vars, AnalysisInv, Shapes
<1>2. ASSUME NEW c \in Clients, EnqueueCheck(c) PROVE AnalysisInv'
  BY <1>2, QuietKeeps DEF EnqueueCheck, AnalysisInv, Shapes
<1>3. ASSUME NEW k \in Workers, StopWorker(k) PROVE AnalysisInv'
  BY <1>3, QuietKeeps DEF StopWorker, Fault, AnalysisInv, Shapes
<1>4. ASSUME NEW k \in Workers, Restart(k) PROVE AnalysisInv'
  BY <1>4, QuietKeeps DEF Restart, AnalysisInv, Shapes
<1>5. CASE ChangeInput
  BY <1>5, QuietKeeps DEF ChangeInput, Fault, AnalysisInv, Shapes
<1>6. ASSUME NEW k \in Workers, Step(k) PROVE AnalysisInv'
  BY <1>6, AnalyzeKeeps, RefuseWatermarkKeeps, PublishKeeps, PersistItemKeeps, ReportKeeps,
     FinishCancelledKeeps, DraftsKeeps, FinishKeeps, FailKeeps DEF Step
<1>7. CASE Next
  BY <1>2, <1>3, <1>4, <1>5, <1>6, <1>7, EnqueueInsertKeeps, CancelKeeps, RecoverAbandonedKeeps,
     ExpireLeaseKeeps, RaiseKeeps, CrashKeeps, ClaimCancelledKeeps, ClaimKeeps DEF Next
<1> QED
  BY <1>1, <1>7

\* The inductive invariant holds in every behaviour: the documents and what
\* every worker carries are backed by persisted outputs.
THEOREM Invariance == Spec => []AnalysisInv
BY InitHolds, StepKeeps, PTL DEF Spec

\* An analysis reported as done has persisted every output of the input it
\* names, for any number of workers, crashes, lost leases and restarts.
THEOREM DoneComplete == Spec => []DoneIsComplete
<1>1. AnalysisInv => DoneIsComplete
  BY DEF AnalysisInv, Behind, RunBehind, All, DoneIsComplete
<1> QED
  BY <1>1, Invariance, PTL

\* The cursor of a run never runs ahead of its outputs, so resuming at it
\* skips none.
THEOREM CursorPersisted == Spec => []CursorIsPersisted
<1>1. AnalysisInv => CursorIsPersisted
  BY DEF AnalysisInv, Behind, RunBehind, Backed, Prefix, All, CursorIsPersisted
<1> QED
  BY <1>1, Invariance, PTL

\* What FinalStays and CancelOnlyCancels say of one run.
Allowed(r) ==
    /\ run[r].status \in Final => run'[r].status = run[r].status
    /\ run[r].status = CANCEL_REQUESTED => run'[r].status \in {CANCEL_REQUESTED, CANCELLED}

\* A change of one run that has not ended and is not being cancelled.
LEMMA AllowedChange ==
    ASSUME AnalysisInv, NEW q \in Runs, NEW d, run' = [run EXCEPT ![q] = d],
           \/ run[q].status \in {None, QUEUED, RUNNING}
           \/ run[q].status = CANCEL_REQUESTED /\ d.status = CANCELLED,
           NEW r \in Runs
    PROVE  Allowed(r)
<1>1. {None, QUEUED, RUNNING} \cap (Final \cup {CANCEL_REQUESTED}) = {}
  BY AnalysisAssumption
     DEF AnalysisAssumption, Final, QUEUED, RUNNING, CANCEL_REQUESTED, CANCELLED, DONE, FAILED
<1>2. CANCEL_REQUESTED \notin Final
  BY DEF Final, CANCEL_REQUESTED, CANCELLED, DONE, FAILED
<1>3. CASE r # q
  BY <1>3 DEF AnalysisInv, Shapes, Allowed
<1>4. CASE r = q
  <2>1. run'[r] = d
    BY <1>4 DEF AnalysisInv, Shapes
  <2> QED
    BY <1>1, <1>2, <1>4, <2>1 DEF Allowed
<1> QED
  BY <1>3, <1>4

\* Every update filtered on the worker's claim is such a change.
LEMMA AllowedUpdate ==
    ASSUME AnalysisInv, NEW k \in Workers, NEW q \in Runs, NEW d, UpdateOwned(k, q, d),
           NEW r \in Runs
    PROVE  Allowed(r)
<1>1. CASE Owns(k, q)
  BY <1>1, AllowedChange DEF UpdateOwned, Owns
<1>2. CASE ~Owns(k, q)
  BY <1>2 DEF UpdateOwned, Allowed
<1> QED
  BY <1>1, <1>2

\* Every step is allowed for every run.
LEMMA StatusMoves ==
    ASSUME AnalysisInv, [Next]_vars, NEW r \in Runs PROVE Allowed(r)
<1>1. CASE run' = run
  BY <1>1 DEF Allowed
<1>2. ASSUME NEW c \in Clients, EnqueueInsert(c) PROVE Allowed(r)
  <2>1. PICK q \in Runs : run[q].status = None /\ run' = [run EXCEPT ![q].status = QUEUED]
    BY <1>2 DEF EnqueueInsert
  <2>2. run' = [run EXCEPT ![q] = [run[q] EXCEPT !.status = QUEUED]]
    BY <2>1
  <2> QED
    BY <2>1, <2>2, AllowedChange
<1>3. ASSUME NEW q \in Runs, Cancel(q) PROVE Allowed(r)
  <2>1. run' = [run EXCEPT ![q] = [run[q] EXCEPT !.status = CANCEL_REQUESTED]]
    BY <1>3 DEF Cancel
  <2> QED
    BY <1>3, <2>1, AllowedChange DEF Cancel
<1>4. ASSUME NEW q \in Runs, RecoverAbandoned(q) PROVE Allowed(r)
  BY <1>4, AllowedChange DEF RecoverAbandoned
<1>5. ASSUME NEW q \in Runs, ExpireLease(q) PROVE Allowed(r)
  <2>1. run' = [run EXCEPT ![q] = [run[q] EXCEPT !.lease = "expired"]]
    BY <1>5 DEF ExpireLease
  <2> QED
    BY <1>5, <2>1, AllowedChange DEF ExpireLease
<1>6. ASSUME NEW k \in Workers, NEW q \in Runs, ClaimCancelled(k, q) PROVE Allowed(r)
  <2>1. Released(q, CANCELLED).status = CANCELLED
    BY Documents DEF AnalysisInv, Statuses, Final
  <2> QED
    BY <1>6, <2>1, AllowedChange DEF ClaimCancelled
<1>7. ASSUME NEW k \in Workers, NEW q \in Runs, Claim(k, q) PROVE Allowed(r)
  <2>1. run' = [run EXCEPT ![q] = [run[q] EXCEPT !.status = RUNNING, !.owner = k, !.lease = "live"]]
    BY <1>7 DEF Claim
  <2> QED
    BY <1>7, <2>1, AllowedChange DEF Claim
<1>8. ASSUME NEW k \in Workers, Step(k) PROVE Allowed(r)
  <2>1. worker[k].pc # "idle" => worker[k].r \in Runs
    BY PlaceOf DEF AnalysisInv
  <2>2. CASE Analyze(k)
    BY <2>1, <2>2, AllowedUpdate DEF Analyze
  <2>3. CASE Publish(k)
    BY <2>1, <2>3, AllowedUpdate DEF Publish
  <2>4. CASE Report(k)
    <3>1. CASE run' = run
      BY <1>1, <3>1
    <3>2. CASE run' # run
      <4>1. /\ worker[k].r \in Runs /\ run[worker[k].r].status = RUNNING
            /\ run' = [run EXCEPT ![worker[k].r] = [Renewed(worker[k].r) EXCEPT
                          !.cursor = worker[k].item - 1, !.phase = "rule_persistence"]]
        BY <2>1, <2>4, <3>2 DEF Report, Owns
      <4> QED
        BY <4>1, AllowedChange
    <3> QED
      BY <3>1, <3>2
  <2>5. CASE FinishCancelled(k)
    <3>1. CASE stop[k]
      BY <2>1, <2>5, <3>1, AllowedUpdate DEF FinishCancelled
    <3>2. CASE ~stop[k] /\ run' # run
      <4>1. /\ worker[k].r \in Runs /\ run[worker[k].r].status \in {RUNNING, CANCEL_REQUESTED}
            /\ run' = [run EXCEPT ![worker[k].r] = Released(worker[k].r, CANCELLED)]
        BY <2>1, <2>5, <3>2 DEF FinishCancelled
      <4>2. Released(worker[k].r, CANCELLED).status = CANCELLED
        BY <4>1, Documents DEF AnalysisInv, Statuses, Final
      <4> QED
        BY <4>1, <4>2, AllowedChange
    <3> QED
      BY <1>1, <3>1, <3>2
  <2>6. CASE Drafts(k)
    BY <2>1, <2>6, AllowedUpdate DEF Drafts
  <2>7. CASE Finish(k)
    BY <2>1, <2>7, AllowedUpdate DEF Finish
  <2>8. CASE Fail(k)
    BY <2>1, <2>8, AllowedUpdate DEF Fail
  <2>9. CASE RefuseWatermark(k) \/ PersistItem(k)
    BY <1>1, <2>9 DEF RefuseWatermark, PersistItem
  <2> QED
    BY <1>8, <2>2, <2>3, <2>4, <2>5, <2>6, <2>7, <2>8, <2>9 DEF Step
<1>9. CASE UNCHANGED vars
  BY <1>1, <1>9 DEF vars
<1>10. CASE \/ \E c \in Clients : EnqueueCheck(c)
            \/ \E k \in Workers : Raise(k) \/ Crash(k) \/ StopWorker(k) \/ Restart(k)
            \/ ChangeInput
  BY <1>1, <1>10 DEF EnqueueCheck, Raise, Crash, StopWorker, Restart, ChangeInput
<1> QED
  BY <1>2, <1>3, <1>4, <1>5, <1>6, <1>7, <1>8, <1>9, <1>10 DEF Next

\* An analysis that ended stays as it ended: no late worker, recovery or
\* cancel revives or relabels it.
THEOREM EndedStays == Spec => FinalStays
<1>1. AnalysisInv /\ [Next]_vars =>
         [\A r \in Runs : run[r].status \in Final => run'[r].status = run[r].status]_vars
  BY StatusMoves DEF Allowed
<1> QED
  BY <1>1, Invariance, PTL DEF Spec, FinalStays

\* A cancel that was accepted is never lost to a worker that finishes, fails,
\* reports or is recovered at the same time.
THEOREM CancelsKept == Spec => CancelOnlyCancels
<1>1. AnalysisInv /\ [Next]_vars =>
         [\A r \in Runs : run[r].status = CANCEL_REQUESTED =>
             run'[r].status \in {CANCEL_REQUESTED, CANCELLED}]_vars
  BY StatusMoves DEF Allowed
<1> QED
  BY <1>1, Invariance, PTL DEF Spec, CancelOnlyCancels
-----------------------------------------------------------------------------
(***************************************************************************)
(* RuleProjection.  Outputs are written in the order of their keys, which  *)
(* is total (KeyOrder); Ordered lists a finite set of them in that order   *)
(* (OrderedIs).  So everything behind a cursor was written before it, and  *)
(* as long as nobody classifies, what a resumed run reads is what the      *)
(* crashed one read (SameProjection).                                      *)
(***************************************************************************)

\* The keys of outputs.
Keys == Int \X Int \X Int \X Int

\* The order of two keys, spelt out.
LEMMA KeyLessIs ==
    ASSUME NEW k \in Keys, NEW l \in Keys
    PROVE  KeyLess(k, l) <=>
             \/ k[1] < l[1]
             \/ k[1] = l[1] /\ k[2] < l[2]
             \/ k[1] = l[1] /\ k[2] = l[2] /\ k[3] < l[3]
             \/ k[1] = l[1] /\ k[2] = l[2] /\ k[3] = l[3] /\ k[4] < l[4]
<1> DEFINE At(i) == k[i] < l[i] /\ \A j \in 1..(i - 1) : k[j] = l[j]
<1>1. 1..4 = {1, 2, 3, 4}
  OBVIOUS
<1>2. KeyLess(k, l) <=> \E i \in {1, 2, 3, 4} : At(i)
  BY <1>1 DEF KeyLess
<1>3. 1..(1 - 1) = {} /\ 1..(2 - 1) = {1} /\ 1..(3 - 1) = {1, 2} /\ 1..(4 - 1) = {1, 2, 3}
  OBVIOUS
<1>4. /\ At(1) <=> k[1] < l[1]
      /\ At(2) <=> k[1] = l[1] /\ k[2] < l[2]
      /\ At(3) <=> k[1] = l[1] /\ k[2] = l[2] /\ k[3] < l[3]
      /\ At(4) <=> k[1] = l[1] /\ k[2] = l[2] /\ k[3] = l[3] /\ k[4] < l[4]
  <2>1. At(1) <=> k[1] < l[1]
    BY <1>3
  <2>2. At(2) <=> k[1] = l[1] /\ k[2] < l[2]
    BY <1>3
  <2>3. At(3) <=> k[1] = l[1] /\ k[2] = l[2] /\ k[3] < l[3]
    BY <1>3
  <2>4. At(4) <=> k[1] = l[1] /\ k[2] = l[2] /\ k[3] = l[3] /\ k[4] < l[4]
    BY <1>3
  <2> QED BY <2>1, <2>2, <2>3, <2>4
<1> HIDE DEF At
<1> QED BY <1>2, <1>4

\* Keys are in order.
LEMMA KeyOrder ==
    ASSUME NEW k \in Keys, NEW l \in Keys
    PROVE  /\ ~KeyLess(k, k)
           /\ KeyLess(k, l) => ~KeyLess(l, k)
           /\ k # l => KeyLess(k, l) \/ KeyLess(l, k)
           /\ \A m \in Keys : KeyLess(k, l) /\ KeyLess(l, m) => KeyLess(k, m)
<1>1. \A m \in Keys : m[1] \in Int /\ m[2] \in Int /\ m[3] \in Int /\ m[4] \in Int
  BY DEF Keys
<1>2. k = <<k[1], k[2], k[3], k[4]>> /\ l = <<l[1], l[2], l[3], l[4]>>
  BY DEF Keys
<1>3. ~KeyLess(k, k) /\ (KeyLess(k, l) => ~KeyLess(l, k))
  BY <1>1, KeyLessIs
<1>4. k # l => KeyLess(k, l) \/ KeyLess(l, k)
  <2>1. k # l => k[1] # l[1] \/ k[2] # l[2] \/ k[3] # l[3] \/ k[4] # l[4]
    BY <1>2
  <2> QED BY <1>1, <2>1, KeyLessIs
<1>5. ASSUME NEW m \in Keys, KeyLess(k, l), KeyLess(l, m) PROVE KeyLess(k, m)
  BY <1>1, <1>5, KeyLessIs
<1> QED BY <1>3, <1>4, <1>5

\* An output comes before another: by its key, and among equal ones by its fact.
Before(o, p) == KeyLess(o.key, p.key) \/ (o.key = p.key /\ o.order < p.order)

\* Finitely many outputs, each with a key or an order of its own.
Orderable(S) ==
    /\ IsFiniteSet(S)
    /\ \A o \in S : o.key \in Keys /\ o.order \in Int
    /\ \A o, p \in S : o.key = p.key /\ o.order = p.order => o = p

\* A part of outputs that can be ordered can be ordered.
LEMMA OrderablePart == ASSUME NEW S, Orderable(S), NEW T \in SUBSET S PROVE Orderable(T)
<1>1. IsFiniteSet(T)
  BY FS_Subset DEF Orderable
<1> QED BY <1>1 DEF Orderable

\* Among outputs that can be ordered, Before is a strict total order.
LEMMA BeforeOrder ==
    ASSUME NEW S, Orderable(S), NEW o \in S, NEW p \in S
    PROVE  /\ ~Before(o, o)
           /\ o # p => Before(o, p) \/ Before(p, o)
           /\ \A q \in S : Before(o, p) /\ Before(p, q) => Before(o, q)
           /\ Before(o, p) => ~KeyLess(p.key, o.key)
<1>1. /\ o.key \in Keys /\ p.key \in Keys /\ o.order \in Int /\ p.order \in Int
      /\ o.key = p.key /\ o.order = p.order => o = p
  BY DEF Orderable
<1>2. ~Before(o, o)
  BY <1>1, KeyOrder DEF Before
<1>3. o # p => Before(o, p) \/ Before(p, o)
  BY <1>1, KeyOrder DEF Before
<1>4. ASSUME NEW q \in S, Before(o, p), Before(p, q) PROVE Before(o, q)
  <2>1. q.key \in Keys /\ q.order \in Int
    BY DEF Orderable
  <2>2. KeyLess(o.key, p.key) /\ KeyLess(p.key, q.key) => KeyLess(o.key, q.key)
    BY <1>1, <2>1, KeyOrder
  <2> QED BY <1>1, <1>4, <2>1, <2>2 DEF Before
<1>5. Before(o, p) => ~KeyLess(p.key, o.key)
  BY <1>1, KeyOrder DEF Before
<1> QED BY <1>2, <1>3, <1>4, <1>5

\* The outputs before one, and how many they are.
Earlier(S, o) == {p \in S : Before(p, o)}

\* Outputs are told apart by the number of those before them.
LEMMA EarlierCount ==
    ASSUME NEW S, Orderable(S), NEW o \in S
    PROVE  /\ Cardinality(Earlier(S, o)) \in Nat /\ Cardinality(Earlier(S, o)) < Cardinality(S)
           /\ \A p \in S : Before(p, o) => Cardinality(Earlier(S, p)) < Cardinality(Earlier(S, o))
<1>1. IsFiniteSet(S) /\ Cardinality(S) \in Nat
  BY FS_CardinalityType DEF Orderable
<1>2. \A p \in S : IsFiniteSet(Earlier(S, p)) /\ Cardinality(Earlier(S, p)) \in Nat
  <2> SUFFICES ASSUME NEW p \in S PROVE IsFiniteSet(Earlier(S, p)) /\ Cardinality(Earlier(S, p)) \in Nat
    OBVIOUS
  <2>1. Earlier(S, p) \in SUBSET S
    BY DEF Earlier
  <2>2. IsFiniteSet(Earlier(S, p))
    BY <1>1, <2>1, FS_Subset
  <2> QED BY <2>2, FS_CardinalityType
<1>3. Cardinality(Earlier(S, o)) < Cardinality(S)
  <2>1. Earlier(S, o) \in SUBSET S /\ o \notin Earlier(S, o)
    BY BeforeOrder DEF Earlier
  <2>2. Cardinality(Earlier(S, o)) <= Cardinality(S) /\ (Cardinality(S) = Cardinality(Earlier(S, o)) => S = Earlier(S, o))
    BY <1>1, <2>1, FS_Subset
  <2> QED BY <1>1, <1>2, <2>1, <2>2
<1>4. ASSUME NEW p \in S, Before(p, o) PROVE Cardinality(Earlier(S, p)) < Cardinality(Earlier(S, o))
  <2>1. Earlier(S, p) \in SUBSET Earlier(S, o)
    BY <1>4, BeforeOrder DEF Earlier
  <2>2. p \in Earlier(S, o) /\ p \notin Earlier(S, p)
    BY <1>4, BeforeOrder DEF Earlier
  <2>3. /\ Cardinality(Earlier(S, p)) <= Cardinality(Earlier(S, o))
        /\ Cardinality(Earlier(S, o)) = Cardinality(Earlier(S, p)) => Earlier(S, o) = Earlier(S, p)
    BY <1>2, <2>1, FS_Subset
  <2> QED BY <1>2, <2>2, <2>3
<1> QED BY <1>2, <1>3, <1>4

\* Ordered lists every output, in the order of their keys.
LEMMA OrderedIs ==
    ASSUME NEW S, Orderable(S)
    PROVE  /\ Ordered(S) \in Seq(S)
           /\ \A o \in S : \E i \in DOMAIN Ordered(S) : Ordered(S)[i] = o
           /\ \A i, j \in DOMAIN Ordered(S) : i < j => ~KeyLess(Ordered(S)[j].key, Ordered(S)[i].key)
<1> DEFINE n == Cardinality(S)
           at(o) == Cardinality(Earlier(S, o)) + 1
           f == [o \in S |-> at(o)]
           s == [i \in 1..n |-> CHOOSE o \in S : Cardinality(Earlier(S, o)) = i - 1]
<1>1. n \in Nat /\ IsFiniteSet(S)
  BY FS_CardinalityType DEF Orderable
<1>2. Ordered(S) = s
  BY DEF Ordered, Earlier, Before
<1>3. ASSUME NEW o \in S PROVE at(o) \in 1..n
  BY <1>1, EarlierCount
<1>4. ASSUME NEW o \in S, NEW p \in S, at(o) = at(p) PROVE o = p
  <2>1. Cardinality(Earlier(S, o)) = Cardinality(Earlier(S, p))
    BY <1>4, EarlierCount
  <2>2. ~Before(o, p) /\ ~Before(p, o)
    BY <2>1, EarlierCount
  <2> QED BY <2>2, BeforeOrder
<1>5. f \in Surjection(S, 1..n)
  <2>1. f \in Injection(S, 1..n)
    BY <1>3, <1>4 DEF Injection, IsInjective
  <2>2. IsFiniteSet(1..n) /\ Cardinality(1..n) = n
    <3>1. 1 \in Int /\ n \in Int
      BY <1>1
    <3>2. IsFiniteSet(1..n) /\ Cardinality(1..n) = IF 1 > n THEN 0 ELSE n - 1 + 1
      BY <3>1, FS_Interval
    <3> QED BY <1>1, <3>2
  <2> HIDE DEF f
  <2> QED BY <2>1, <2>2, FS_Injection
<1>6. \A i \in 1..n : s[i] \in S /\ at(s[i]) = i
  <2> SUFFICES ASSUME NEW i \in 1..n PROVE s[i] \in S /\ at(s[i]) = i
    OBVIOUS
  <2>1. PICK o \in S : f[o] = i
    BY <1>5 DEF Surjection
  <2>2. Cardinality(Earlier(S, o)) = i - 1
    BY <2>1, EarlierCount
  <2>3. s[i] \in S /\ Cardinality(Earlier(S, s[i])) = i - 1
    BY <2>2
  <2> HIDE DEF s
  <2> QED BY <2>3
<1>7. s \in Seq(S) /\ DOMAIN s = 1..n
  <2>1. s \in [1..n -> S]
    BY <1>6
  <2> HIDE DEF s
  <2> QED BY <1>1, <2>1
<1> HIDE DEF s
<1>8. \A o \in S : \E i \in DOMAIN s : s[i] = o
  <2> SUFFICES ASSUME NEW o \in S PROVE \E i \in DOMAIN s : s[i] = o
    OBVIOUS
  <2>1. PICK i \in 1..n : i = at(o)
    BY <1>3
  <2>2. s[i] \in S /\ at(s[i]) = at(o)
    BY <1>6, <2>1
  <2>3. s[i] = o
    BY <1>4, <2>2
  <2> QED BY <1>7, <2>3
<1>9. \A i, j \in DOMAIN s : i < j => ~KeyLess(s[j].key, s[i].key)
  <2> SUFFICES ASSUME NEW i \in 1..n, NEW j \in 1..n, i < j PROVE ~KeyLess(s[j].key, s[i].key)
    BY <1>7
  <2>1. s[i] \in S /\ s[j] \in S /\ at(s[i]) = i /\ at(s[j]) = j
    BY <1>6
  <2>2. ~Before(s[j], s[i]) /\ s[i] # s[j]
    <3>1. Before(s[j], s[i]) => Cardinality(Earlier(S, s[j])) < Cardinality(Earlier(S, s[i]))
      BY <2>1, EarlierCount
    <3> QED BY <2>1, <3>1, EarlierCount
  <2> QED BY <2>1, <2>2, BeforeOrder
<1> QED BY <1>2, <1>7, <1>8, <1>9

\* A set with an element for each of finitely many is finite.
LEMMA OneForEach ==
    ASSUME NEW S, IsFiniteSet(S), NEW f, f = [x \in S |-> f[x]], NEW T, T = {f[x] : x \in S}
    PROVE  IsFiniteSet(T)
<1>1. f \in Surjection(S, T)
  <2>1. f \in [S -> T]
    <3>1. \A x \in S : f[x] \in T
      OBVIOUS
    <3> QED BY <3>1
  <2>2. \A t \in T : \E x \in S : f[x] = t
    OBVIOUS
  <2> QED BY <2>1, <2>2 DEF Surjection
<1> QED BY <1>1, FS_Surjection

\* The facts of a project are finitely many and told apart by their numbers.
LEMMA FactsFinite ==
    ASSUME project \in RuleProjects
    PROVE  /\ IsFiniteSet(Endpoints) /\ Endpoints \subseteq Nat
           /\ IsFiniteSet(ParameterFacts) /\ IsFiniteSet(RelationFacts)
           /\ \A p \in ParameterFacts : p.id \in Nat /\ p.endpoint \in Nat /\ p.pos \in Nat /\ p.name \in Nat
           /\ \A p, q \in ParameterFacts : p.id = q.id => p = q
           /\ \A p \in RelationFacts : p.id \in Nat
           /\ \A p, q \in RelationFacts : p.id = q.id => p = q
<1>0. project.docs \subseteq [id : Nat, endpoint : Nat, dir : {"request", "response"}, name : Nat, pos : Nat,
                            path : Nat, vals : SUBSET Nat, type : STRING, located : BOOLEAN]
  BY RuleAssumption
<1>1. /\ IsFiniteSet(DOMAIN project.endpoints) /\ DOMAIN project.endpoints \subseteq Nat
      /\ IsFiniteSet(project.docs)
      /\ \A d \in project.docs : d.id \in Nat /\ d.endpoint \in Nat /\ d.pos \in Nat /\ d.name \in Nat
      /\ \A d, e \in project.docs : d.id = e.id => d = e
  BY <1>0, RuleAssumption
<1>2. IsFiniteSet(ParameterFacts)
  BY <1>1, FS_Subset DEF ParameterFacts
<1> DEFINE f == [p \in project.docs |-> [p EXCEPT !.vals = ArchiveValues(p)]]
           T == {f[p] : p \in project.docs}
<1>3. IsFiniteSet(T)
  <2> f = [p \in project.docs |-> f[p]]
    OBVIOUS
  <2> HIDE DEF f
  <2> QED BY <1>1, OneForEach
<1>4. RelationFacts \in SUBSET T
  BY DEF RelationFacts
<1>5. IsFiniteSet(RelationFacts)
  <2> HIDE DEF T
  <2> QED BY <1>3, <1>4, FS_Subset
<1>6. \A p \in project.docs : f[p].id = p.id
  BY <1>0
<1>7. \A p \in RelationFacts : \E d \in project.docs : p = f[d]
  BY DEF RelationFacts
<1> HIDE DEF f
<1>8. \A p \in RelationFacts : p.id \in Nat
  BY <1>1, <1>6, <1>7
<1>9. \A p, q \in RelationFacts : p.id = q.id => p = q
  BY <1>1, <1>6, <1>7
<1> QED BY <1>1, <1>2, <1>5, <1>8, <1>9 DEF Endpoints, ParameterFacts

\* So are the matches of the relation rules.
LEMMA RelationsFinite == ASSUME project \in RuleProjects PROVE IsFiniteSet(RelationOutputs)
<1> DEFINE T == RelationFacts \X (RelationFacts \X RelationKinds)
           f == [t \in T |-> [src |-> t[1], tgt |-> t[2][1], relation |-> t[2][2]]]
           U == {f[t] : t \in T}
<1>1. IsFiniteSet(RelationFacts)
  BY FactsFinite
<1>2. IsFiniteSet(RelationKinds)
  <2>1. IsFiniteSet({}) /\ IsFiniteSet({"weak_candidate"})
    BY FS_EmptySet, FS_Singleton
  <2>2. IsFiniteSet({"weak_candidate", "alias_candidate"})
    <3>1. {"weak_candidate", "alias_candidate"} = {"weak_candidate"} \cup {"alias_candidate"}
      OBVIOUS
    <3> QED BY <2>1, <3>1, FS_AddElement
  <2>3. RelationKinds = {"weak_candidate", "alias_candidate"} \cup {"insufficient_evidence"}
    BY DEF RelationKinds
  <2> QED BY <2>2, <2>3, FS_AddElement
<1>3. IsFiniteSet(T)
  <2>1. IsFiniteSet(RelationFacts \X RelationKinds)
    BY <1>1, <1>2, FS_Product
  <2> QED BY <1>1, <2>1, FS_Product
<1>4. IsFiniteSet(U)
  <2> f = [t \in T |-> f[t]]
    OBVIOUS
  <2> HIDE DEF f, T
  <2> QED BY <1>3, OneForEach
<1>5. RelationOutputs \subseteq U
  <2> SUFFICES ASSUME NEW m \in RelationOutputs PROVE m \in U
    OBVIOUS
  <2>1. /\ m.src \in RelationFacts /\ m.tgt \in RelationFacts /\ m.relation \in RelationKinds
        /\ m = [src |-> m.src, tgt |-> m.tgt, relation |-> m.relation]
    BY DEF RelationOutputs
  <2>2. <<m.src, <<m.tgt, m.relation>>>> \in T
    BY <2>1
  <2>3. f[<<m.src, <<m.tgt, m.relation>>>>] = [src |-> m.src, tgt |-> m.tgt, relation |-> m.relation]
    BY <2>2
  <2> HIDE DEF f, T
  <2> QED BY <2>1, <2>2, <2>3
<1> HIDE DEF U
<1> QED BY <1>4, <1>5, FS_Subset

\* The kinds of outputs.
ClassOutputs(read) ==
    {[key |-> <<1, e, 0, 0>>, order |-> 0, endpoint |-> e,
      action |-> Classify(project.endpoints[e]), allowed |-> ApplyAllowed(read[e])] : e \in Endpoints}
RowOf(m) == [key |-> <<2, m.src.id, m.tgt.id, 0>>, order |-> 0,
             row |-> [src |-> m.src.endpoint, tgt |-> m.tgt.endpoint,
                      srcName |-> m.src.name, tgtName |-> m.tgt.name]]
RelationRows == {RowOf(m) : m \in {m \in RelationOutputs : m.relation # "insufficient_evidence"}}
RoleOf(p) == [key |-> <<3, p.endpoint, p.pos, p.name>>, order |-> p.id,
              row |-> [endpoint |-> p.endpoint, name |-> p.name, pos |-> p.pos,
                       dir |-> p.dir, path |-> p.path, role |-> Category(p)]]
RoleRows == {RoleOf(p) : p \in ParameterFacts}

\* Every output is of one of the three kinds.
LEMMA OutputsAre == ASSUME NEW read PROVE Outputs(read) = ClassOutputs(read) \cup RelationRows \cup RoleRows
  BY DEF Outputs, ClassOutputs, RelationRows, RoleRows, RowOf, RoleOf

\* The outputs of a project can be ordered.
LEMMA OutputsOrderable ==
    ASSUME project \in RuleProjects, NEW read
    PROVE  Orderable(Outputs(read)) /\ \A o \in Outputs(read) : o.key \in Keys /\ o.key[1] \in 1..3
<1>1. \A o \in ClassOutputs(read) : o.key \in Keys /\ o.order \in Int /\ o.key[1] = 1
  BY FactsFinite DEF ClassOutputs, Keys
<1>2. \A o \in RelationRows : o.key \in Keys /\ o.order \in Int /\ o.key[1] = 2
  <2> SUFFICES ASSUME NEW m \in RelationOutputs
               PROVE  RowOf(m).key \in Keys /\ RowOf(m).order \in Int /\ RowOf(m).key[1] = 2
    BY DEF RelationRows
  <2>1. m.src.id \in Nat /\ m.tgt.id \in Nat
    BY FactsFinite DEF RelationOutputs
  <2> QED BY <2>1 DEF RowOf, Keys
<1>3. \A o \in RoleRows : o.key \in Keys /\ o.order \in Int /\ o.key[1] = 3
  <2> SUFFICES ASSUME NEW p \in ParameterFacts
               PROVE  RoleOf(p).key \in Keys /\ RoleOf(p).order \in Int /\ RoleOf(p).key[1] = 3
    BY DEF RoleRows
  <2> QED BY FactsFinite DEF RoleOf, Keys
<1>4. ASSUME NEW o \in ClassOutputs(read), NEW p \in ClassOutputs(read), o.key = p.key PROVE o = p
  <2>1. PICK e \in Endpoints : o = [key |-> <<1, e, 0, 0>>, order |-> 0, endpoint |-> e,
           action |-> Classify(project.endpoints[e]), allowed |-> ApplyAllowed(read[e])]
    BY DEF ClassOutputs
  <2>2. PICK f \in Endpoints : p = [key |-> <<1, f, 0, 0>>, order |-> 0, endpoint |-> f,
           action |-> Classify(project.endpoints[f]), allowed |-> ApplyAllowed(read[f])]
    BY DEF ClassOutputs
  <2>3. e = f
    BY <1>4, <2>1, <2>2
  <2> QED BY <2>1, <2>2, <2>3
<1>5. ASSUME NEW o \in RelationRows, NEW p \in RelationRows, o.key = p.key PROVE o = p
  <2>1. PICK m \in RelationOutputs : o = RowOf(m)
    BY DEF RelationRows
  <2>2. PICK l \in RelationOutputs : p = RowOf(l)
    BY DEF RelationRows
  <2>3. m.src.id = l.src.id /\ m.tgt.id = l.tgt.id
    BY <1>5, <2>1, <2>2 DEF RowOf
  <2>4. m.src = l.src /\ m.tgt = l.tgt
    BY <2>3, FactsFinite DEF RelationOutputs
  <2> QED BY <2>1, <2>2, <2>4 DEF RowOf
<1>6. ASSUME NEW o \in RoleRows, NEW p \in RoleRows, o.order = p.order PROVE o = p
  BY <1>6, FactsFinite DEF RoleRows, RoleOf
<1>7. IsFiniteSet(ClassOutputs(read))
  <2> DEFINE f == [e \in Endpoints |-> [key |-> <<1, e, 0, 0>>, order |-> 0, endpoint |-> e,
                     action |-> Classify(project.endpoints[e]), allowed |-> ApplyAllowed(read[e])]]
  <2>1. f = [e \in Endpoints |-> f[e]] /\ ClassOutputs(read) = {f[e] : e \in Endpoints}
    BY DEF ClassOutputs
  <2> HIDE DEF f
  <2> QED BY <2>1, FactsFinite, OneForEach
<1>8. IsFiniteSet(RelationRows)
  <2> DEFINE M == {m \in RelationOutputs : m.relation # "insufficient_evidence"}
             f == [m \in M |-> RowOf(m)]
  <2>1. IsFiniteSet(M)
    BY RelationsFinite, FS_Subset
  <2>2. f = [m \in M |-> f[m]] /\ RelationRows = {f[m] : m \in M}
    BY DEF RelationRows
  <2> HIDE DEF f, M
  <2> QED BY <2>1, <2>2, OneForEach
<1>9. IsFiniteSet(RoleRows)
  <2> DEFINE f == [p \in ParameterFacts |-> RoleOf(p)]
  <2>1. f = [p \in ParameterFacts |-> f[p]] /\ RoleRows = {f[p] : p \in ParameterFacts}
    BY DEF RoleRows
  <2> HIDE DEF f
  <2> QED BY <2>1, FactsFinite, OneForEach
<1>10. IsFiniteSet(Outputs(read))
  BY <1>7, <1>8, <1>9, OutputsAre, FS_Union
<1>11. ASSUME NEW o \in Outputs(read), NEW p \in Outputs(read), o.key = p.key, o.order = p.order PROVE o = p
  <2>1. /\ o \in ClassOutputs(read) \/ o \in RelationRows \/ o \in RoleRows
        /\ p \in ClassOutputs(read) \/ p \in RelationRows \/ p \in RoleRows
    BY OutputsAre
  <2>2. o.key[1] = p.key[1]
    BY <1>11
  <2> QED BY <1>1, <1>2, <1>3, <1>4, <1>5, <1>6, <1>11, <2>1, <2>2
<1> QED BY <1>1, <1>2, <1>3, <1>10, <1>11, OutputsAre DEF Orderable

-----------------------------------------------------------------------------
\* The runs of one project, by themselves.
RuleSpec == RuleInit /\ [][RuleNext]_ruleVars

\* No endpoint was classified by a person.
Unclassed(read) == \A e \in Endpoints : ApplyAllowed(read[e])

\* The outputs nobody else shares a key with, and a list of outputs left to write.
Own(read) == {o \in Outputs(read) : \A p \in Outputs(read) : p.key = o.key => p = o}
InKeyOrder(s) == \A i, j \in DOMAIN s : i < j => ~KeyLess(s[j].key, s[i].key)
Left(todo, read) ==
    /\ todo \in Seq(Outputs(read)) /\ InKeyOrder(todo)
    /\ \A o \in Own(read) : Written(o) \/ \E i \in DOMAIN todo : todo[i] = o

\* The shapes of the documents and of the worker.
RuleTypes ==
    /\ project \in RuleProjects
    /\ DOMAIN endpointRows = Endpoints
    /\ DOMAIN ruleRun = {"status", "mark", "cursor", "error"}
    /\ DOMAIN ruleCounts = {"runs", "crashes", "classings"} /\ ruleCounts.classings \in Nat
    /\ work.pc \in {"away", "write"}
    /\ work.pc = "write" => DOMAIN work = {"pc", "read", "count", "todo"}

\* A family's drafts are a list without repetitions.
DraftsOK ==
    \A f \in DOMAIN drafts : (\E S : drafts[f] \in Seq(S)) /\
        \A i, j \in DOMAIN drafts[f] : drafts[f][i] = drafts[f][j] => i = j

\* While nobody classifies: the input is what it was, and an output is written,
\* or its key is behind the cursor, and in the list of a worker that writes.
ProjectedOK ==
    /\ Unclassed(endpointRows) /\ (work.pc = "write" => Unclassed(work.read))
    /\ ruleRun.error # "input" /\ ruleRun.mark \in {{}, {Watermark(endpointRows)}}
    /\ ruleRun.cursor \in Keys
    /\ \A o \in Own(endpointRows) : Written(o) \/ KeyLess(ruleRun.cursor, o.key)
    /\ work.pc = "write" => Left(work.todo, endpointRows)
    /\ ruleRun.status = "done" => \A o \in Own(endpointRows) : Written(o)

ProjectionInv == RuleTypes /\ DraftsOK /\ (ruleCounts.classings = 0 => ProjectedOK)

\* The invariant says what the property does.
LEMMA ProjectionInvSound == ProjectionInv => ProjectionSound
<1> SUFFICES ASSUME ProjectionInv PROVE ProjectionSound
  OBVIOUS
<1>1. ResumeIsAccepted
  BY DEF ProjectionInv, RuleTypes, ProjectedOK, ResumeIsAccepted
<1>2. DoneIsProjected
  BY DEF ProjectionInv, ProjectedOK, DoneIsProjected, Own
<1>3. DraftsAreDistinct
  BY DEF ProjectionInv, DraftsOK, DraftsAreDistinct
<1> QED BY <1>1, <1>2, <1>3 DEF ProjectionSound

\* Before anybody classifies, what is read does not matter.
LEMMA SameRead ==
    ASSUME NEW r, NEW q, Unclassed(r), Unclassed(q)
    PROVE  Outputs(r) = Outputs(q) /\ Watermark(r) = Watermark(q) /\ Own(r) = Own(q)
<1>1. ClassOutputs(r) = ClassOutputs(q)
  BY DEF ClassOutputs, Unclassed, ApplyAllowed
<1>2. Outputs(r) = Outputs(q)
  BY <1>1, OutputsAre
<1>3. Effective(r) = Effective(q)
  BY DEF Effective, Unclassed
<1>4. \A e \in Endpoints : WatermarkRow(r[e]) = WatermarkRow(q[e])
  BY DEF Unclassed, WatermarkRow, ApplyAllowed
<1>5. Watermark(r) = Watermark(q)
  BY <1>3, <1>4 DEF Watermark
<1> QED BY <1>2, <1>5 DEF Own

\* The facts depend on the project alone.
LEMMA SameFacts ==
    ASSUME project' = project, NEW CONSTANT r
    PROVE  /\ Outputs(r)' = Outputs(r) /\ Watermark(r)' = Watermark(r) /\ Own(r)' = Own(r)
           /\ Endpoints' = Endpoints /\ Unclassed(r)' = Unclassed(r)
<1>1. Outputs(r)' = Outputs(r)
  BY DEF Outputs, Endpoints, RelationOutputs, RelationRules, Relatable, RelationFacts, ArchiveValues, ParameterFacts
<1>2. Watermark(r)' = Watermark(r)
  BY DEF Watermark, Effective, Outputs, Endpoints, RelationOutputs, RelationRules, Relatable, RelationFacts, ArchiveValues, ParameterFacts,
    EndpointPairs, PathChains, RelationChains, PrincipalPairs
<1>3. Endpoints' = Endpoints
  BY DEF Endpoints
<1> QED BY <1>1, <1>2, <1>3 DEF Own, Unclassed

\* The invariant holds at first.
LEMMA InitProjection == RuleInit => ProjectionInv
<1> SUFFICES ASSUME RuleInit PROVE ProjectionInv
  OBVIOUS
<1>1. RuleTypes
  BY DEF RuleInit, RuleTypes, Away
<1>2. DraftsOK
  <2> SUFFICES ASSUME NEW f \in DOMAIN drafts
               PROVE  (\E S : drafts[f] \in Seq(S)) /\ DOMAIN drafts[f] = {}
    BY DEF DraftsOK
  <2>1. drafts[f] = << >>
    BY DEF RuleInit
  <2>2. << >> \in Seq({}) /\ DOMAIN << >> = {}
    OBVIOUS
  <2> QED BY <2>1, <2>2
<1>3. NoKey \in Keys
  BY DEF NoKey, Keys
<1>4. \A o \in Outputs(endpointRows) : KeyLess(NoKey, o.key)
  <2> SUFFICES ASSUME NEW o \in Outputs(endpointRows) PROVE KeyLess(NoKey, o.key)
    OBVIOUS
  <2>1. o.key \in Keys /\ o.key[1] \in 1..3
    BY OutputsOrderable DEF RuleInit
  <2>2. NoKey[1] = 0
    BY DEF NoKey
  <2> QED BY <1>3, <2>1, <2>2, KeyLessIs
<1>5. ProjectedOK
  <2>1. Unclassed(endpointRows)
    BY DEF RuleInit, Unclassed, ApplyAllowed, ClassifiedBy
  <2> QED BY <1>3, <1>4, <2>1 DEF RuleInit, ProjectedOK, Own, Away
<1> QED BY <1>1, <1>2, <1>5 DEF ProjectionInv

\* While nobody classifies, the facts and what follows from them stay.
LEMMA SameProjection ==
    ASSUME project' = project, Unclassed(endpointRows), Unclassed(endpointRows)'
    PROVE  /\ Outputs(endpointRows)' = Outputs(endpointRows)
           /\ Watermark(endpointRows)' = Watermark(endpointRows)
           /\ Own(endpointRows)' = Own(endpointRows)
<1>1. PICK r : r = endpointRows'
  OBVIOUS
<1>2. Unclassed(r)
  <2>1. Unclassed(endpointRows)' <=> Unclassed(r)'
    BY <1>1 DEF Unclassed, Endpoints
  <2> QED BY <2>1, SameFacts
<1>3. Outputs(endpointRows)' = Outputs(r)' /\ Watermark(endpointRows)' = Watermark(r)' /\ Own(endpointRows)' = Own(r)'
  BY <1>1 DEF Own, Outputs, Watermark, Effective, EndpointPairs
<1> QED BY <1>2, <1>3, SameRead, SameFacts

\* A list of outputs in the order of their keys that goes on behind the cursor.
LEMMA LeftBehind ==
    ASSUME RuleTypes, ProjectedOK, NEW read, Unclassed(read)
    PROVE  Left(Ordered(ResumedAfter(Outputs(read), ruleRun.cursor)), endpointRows)
<1>1. Outputs(read) = Outputs(endpointRows) /\ Own(read) = Own(endpointRows)
  BY SameRead DEF ProjectedOK
<1> DEFINE S == ResumedAfter(Outputs(endpointRows), ruleRun.cursor)
<1>2. Orderable(S) /\ S \subseteq Outputs(endpointRows)
  <2>1. S \in SUBSET Outputs(endpointRows)
    BY DEF ResumedAfter
  <2>2. Orderable(Outputs(endpointRows))
    BY OutputsOrderable DEF RuleTypes
  <2> HIDE DEF S
  <2> QED BY <2>1, <2>2, OrderablePart
<1>3. \A o \in Own(endpointRows) : Written(o) \/ o \in S
  BY DEF ProjectedOK, ResumedAfter, Own
<1> HIDE DEF S
<1>4. /\ Ordered(S) \in Seq(S)
      /\ \A o \in S : \E i \in DOMAIN Ordered(S) : Ordered(S)[i] = o
      /\ InKeyOrder(Ordered(S))
  BY <1>2, OrderedIs DEF InKeyOrder
<1>5. Ordered(S) \in Seq(Outputs(endpointRows))
  BY <1>2, <1>4
<1>6. Left(Ordered(S), endpointRows)
  BY <1>3, <1>4, <1>5 DEF Left
<1> QED BY <1>1, <1>6 DEF S

\* A new run starts before every output.
LEMMA StartProjection ==
    ASSUME ProjectionInv, StartRuleRun PROVE ProjectionInv'
<1>1. project' = project /\ endpointRows' = endpointRows /\ relations' = relations /\ roles' = roles
      /\ drafts' = drafts /\ work' = work
      /\ ruleRun' = [status |-> "active", mark |-> {}, cursor |-> NoKey, error |-> ""]
      /\ ruleCounts' = [ruleCounts EXCEPT !.runs = @ + 1]
  BY DEF StartRuleRun
<1>2. RuleTypes'
  BY <1>1 DEF ProjectionInv, RuleTypes, Endpoints
<1>3. DraftsOK'
  BY <1>1 DEF ProjectionInv, DraftsOK
<1>4. ASSUME ruleCounts'.classings = 0 PROVE ProjectedOK'
  <2>1. ProjectedOK
    BY <1>1, <1>4 DEF ProjectionInv, RuleTypes
  <2>2. Unclassed(endpointRows)' /\ (work.pc = "write" => Unclassed(work.read))'
    BY <1>1, <2>1 DEF ProjectedOK, Unclassed, Endpoints
  <2>3. /\ Outputs(endpointRows)' = Outputs(endpointRows)
        /\ Own(endpointRows)' = Own(endpointRows)
    BY <1>1, <2>1, <2>2, SameProjection DEF ProjectedOK
  <2>4. NoKey \in Keys
    BY DEF NoKey, Keys
  <2>5. \A o \in Own(endpointRows) : KeyLess(NoKey, o.key)
    <3> SUFFICES ASSUME NEW o \in Outputs(endpointRows) PROVE KeyLess(NoKey, o.key)
      BY DEF Own
    <3>1. o.key \in Keys /\ o.key[1] \in 1..3
      BY OutputsOrderable DEF ProjectionInv, RuleTypes
    <3>2. NoKey[1] = 0
      BY DEF NoKey
    <3> QED BY <2>4, <3>1, <3>2, KeyLessIs
  <2>6. \A o : Written(o)' <=> Written(o)
    BY <1>1 DEF Written
  <2>7. (work.pc = "write" => Left(work.todo, endpointRows))'
    BY <1>1, <2>1, <2>3, <2>6 DEF ProjectedOK, Left, InKeyOrder
  <2> QED BY <1>1, <2>2, <2>3, <2>4, <2>5, <2>7 DEF ProjectedOK
<1> QED BY <1>2, <1>3, <1>4 DEF ProjectionInv

\* An unchanged input is not refused, and what is behind the cursor is left to write.
LEMMA AnalyzeProjection ==
    ASSUME ProjectionInv, AnalyzeProject PROVE ProjectionInv'
<1>1. project' = project /\ endpointRows' = endpointRows /\ relations' = relations /\ roles' = roles
      /\ drafts' = drafts /\ ruleCounts' = ruleCounts
  BY DEF AnalyzeProject
<1> DEFINE begin ==
       /\ ruleRun' = [ruleRun EXCEPT !.mark = {Watermark(endpointRows)}]
       /\ work' = [pc |-> "write", read |-> endpointRows, count |-> 0,
                   todo |-> Ordered(ResumedAfter(Outputs(endpointRows), ruleRun.cursor))]
           refuse(error) ==
       /\ ruleRun' = [ruleRun EXCEPT !.status = "failed", !.error = error]
       /\ work' = work
<1>2. \/ refuse("budget")
      \/ refuse("input") /\ ruleRun.mark \notin {{}, {Watermark(endpointRows)}}
      \/ begin
  BY DEF AnalyzeProject, RuleRunEnded
<1>3. RuleTypes'
  <2>1. DOMAIN ruleRun' = DOMAIN ruleRun
    BY <1>2
  <2>2. work' = work \/ (work'.pc = "write" /\ DOMAIN work' = {"pc", "read", "count", "todo"})
    BY <1>2
  <2> QED BY <1>1, <2>1, <2>2 DEF ProjectionInv, RuleTypes, Endpoints
<1>4. DraftsOK'
  BY <1>1 DEF ProjectionInv, DraftsOK
<1>5. ASSUME ruleCounts'.classings = 0 PROVE ProjectedOK'
  <2>1. ProjectedOK /\ DOMAIN ruleRun = {"status", "mark", "cursor", "error"}
    BY <1>1, <1>5 DEF ProjectionInv, RuleTypes
  <2>2. refuse("budget") \/ begin
    BY <1>2, <2>1 DEF ProjectedOK
  <2>3. /\ ruleRun'.error # "input" /\ ruleRun'.cursor = ruleRun.cursor
        /\ ruleRun'.mark \in {{}, {Watermark(endpointRows)}}
        /\ ruleRun'.status = "done" => ruleRun.status = "done"
    BY <2>1, <2>2 DEF ProjectedOK
  <2>4. \/ work' = work
        \/ /\ work'.read = endpointRows
           /\ work'.todo = Ordered(ResumedAfter(Outputs(endpointRows), ruleRun.cursor))
    BY <2>2
  <2> HIDE DEF begin, refuse
  <2>5. Unclassed(endpointRows)' /\ (work.pc = "write" => Unclassed(work.read))'
    BY <1>1, <2>1, <2>4 DEF ProjectedOK, Unclassed, Endpoints
  <2>6. /\ Outputs(endpointRows)' = Outputs(endpointRows)
        /\ Watermark(endpointRows)' = Watermark(endpointRows)
        /\ Own(endpointRows)' = Own(endpointRows)
    BY <1>1, <2>1, <2>5, SameProjection DEF ProjectedOK
  <2>7. \A o : Written(o)' <=> Written(o)
    BY <1>1 DEF Written
  <2>8. Left(Ordered(ResumedAfter(Outputs(endpointRows), ruleRun.cursor)), endpointRows)
    BY <2>1, LeftBehind DEF ProjectedOK, ProjectionInv
  <2>9. (work.pc = "write" => Left(work.todo, endpointRows))'
    <3>1. PICK s : s = work'.todo
      OBVIOUS
    <3>2. work'.pc = "write" => Left(s, endpointRows)
      BY <2>1, <2>4, <2>8, <3>1 DEF ProjectedOK
    <3> QED BY <2>6, <2>7, <3>1, <3>2 DEF Left, InKeyOrder
  <2> QED BY <2>1, <2>3, <2>5, <2>6, <2>7, <2>9 DEF ProjectedOK
<1> QED BY <1>3, <1>4, <1>5 DEF ProjectionInv

\* A worker that dies or finishes leaves the outputs as they are.
LEMMA CrashProjection ==
    ASSUME ProjectionInv, CrashRun \/ FinishRun PROVE ProjectionInv'
<1>1. /\ project' = project /\ endpointRows' = endpointRows /\ relations' = relations /\ roles' = roles
      /\ drafts' = drafts /\ work' = Away
      /\ ruleCounts' = ruleCounts \/ ruleCounts' = [ruleCounts EXCEPT !.crashes = @ + 1]
      /\ \/ ruleRun' = ruleRun
         \/ /\ ruleRun' = [ruleRun EXCEPT !.status = "done", !.error = ""]
            /\ work.pc = "write" /\ work.todo = << >>
  BY DEF CrashRun, FinishRun, RuleRunEnded
<1>2. DOMAIN ruleCounts' = DOMAIN ruleCounts /\ (ProjectionInv => ruleCounts'.classings = ruleCounts.classings)
  BY <1>1 DEF ProjectionInv, RuleTypes
<1>3. RuleTypes'
  <2>1. DOMAIN ruleRun' = DOMAIN ruleRun /\ work'.pc = "away"
    BY <1>1 DEF Away
  <2> QED BY <1>1, <1>2, <2>1 DEF ProjectionInv, RuleTypes, Endpoints
<1>4. DraftsOK'
  BY <1>1 DEF ProjectionInv, DraftsOK
<1>5. ASSUME ruleCounts'.classings = 0 PROVE ProjectedOK'
  <2>1. ProjectedOK /\ DOMAIN ruleRun = {"status", "mark", "cursor", "error"} /\ work'.pc = "away"
    BY <1>1, <1>2, <1>5 DEF ProjectionInv, RuleTypes, Away
  <2>2. /\ ruleRun'.error # "input" /\ ruleRun'.cursor = ruleRun.cursor /\ ruleRun'.mark = ruleRun.mark
        /\ ruleRun'.status = "done" => ruleRun.status = "done" \/ (work.pc = "write" /\ work.todo = << >>)
    <3>0. ruleRun.error # "input"
      BY <2>1 DEF ProjectedOK
    <3>1. CASE ruleRun' = ruleRun
      BY <3>0, <3>1
    <3>2. CASE /\ ruleRun' = [ruleRun EXCEPT !.status = "done", !.error = ""]
               /\ work.pc = "write" /\ work.todo = << >>
      <4>1. ruleRun'.error = "" /\ ruleRun'.cursor = ruleRun.cursor /\ ruleRun'.mark = ruleRun.mark
        BY <2>1, <3>2
      <4> QED BY <3>2, <4>1
    <3> QED BY <1>1, <3>1, <3>2
  <2>3. Unclassed(endpointRows)'
    BY <1>1, <2>1 DEF ProjectedOK, Unclassed, Endpoints
  <2>4. /\ Outputs(endpointRows)' = Outputs(endpointRows)
        /\ Watermark(endpointRows)' = Watermark(endpointRows)
        /\ Own(endpointRows)' = Own(endpointRows)
    BY <1>1, <2>1, <2>3, SameProjection DEF ProjectedOK
  <2>5. \A o : Written(o)' <=> Written(o)
    BY <1>1 DEF Written
  <2>6. work.pc = "write" /\ work.todo = << >> => \A o \in Own(endpointRows) : Written(o)
    BY <2>1 DEF ProjectedOK, Left
  <2> QED BY <2>1, <2>2, <2>3, <2>4, <2>5, <2>6 DEF ProjectedOK
<1> QED BY <1>3, <1>4, <1>5 DEF ProjectionInv

\* A draft is added only with a digest its family does not have.
LEMMA DraftProjection ==
    ASSUME ProjectionInv, CreateDraft PROVE ProjectionInv'
<1>1. /\ project' = project /\ endpointRows' = endpointRows /\ relations' = relations /\ roles' = roles
      /\ work' = work /\ ruleCounts' = ruleCounts /\ ruleRun' = ruleRun
  BY DEF CreateDraft
<1>2. PICK f, d : ~DraftKnown(f, d) /\ drafts' = [drafts EXCEPT ![f] = Append(@, d)]
  <2> DEFINE groups == DraftGroups(work.read)
  <2>1. PICK due \in DraftsDue : drafts' = [drafts EXCEPT ![due[1]] = Append(@, due[2])]
    BY DEF CreateDraft
  <2>2. DraftsDue = {<<f, groups[f]>> : f \in {f \in DOMAIN groups : ~DraftKnown(f, groups[f])}}
    BY DEF DraftsDue
  <2> HIDE DEF groups
  <2>3. PICK f : due = <<f, groups[f]>> /\ ~DraftKnown(f, groups[f])
    BY <2>1, <2>2
  <2>4. drafts' = [drafts EXCEPT ![f] = Append(@, groups[f])]
    BY <2>1, <2>3
  <2> QED BY <2>3, <2>4
<1>3. RuleTypes'
  BY <1>1 DEF ProjectionInv, RuleTypes, Endpoints
<1>4. DraftsOK'
  <2> SUFFICES ASSUME NEW g \in DOMAIN drafts
               PROVE  (\E S : drafts'[g] \in Seq(S)) /\
                         \A i, j \in DOMAIN drafts'[g] : drafts'[g][i] = drafts'[g][j] => i = j
    BY <1>2 DEF DraftsOK
  <2>1. PICK S : drafts[g] \in Seq(S)
    BY DEF ProjectionInv, DraftsOK
  <2>2. \A i, j \in DOMAIN drafts[g] : drafts[g][i] = drafts[g][j] => i = j
    BY DEF ProjectionInv, DraftsOK
  <2>3. CASE g # f
    BY <1>2, <2>1, <2>2, <2>3
  <2>4. CASE g = f
    <3> DEFINE T == S \cup {d}
    <3>1. drafts[g] \in Seq(T) /\ d \in T
      BY <2>1
    <3>2. drafts'[g] = Append(drafts[g], d)
      BY <1>2, <2>4
    <3>3. \A i \in DOMAIN drafts[g] : drafts[g][i] # d
      BY <1>2, <2>4 DEF DraftKnown
    <3>4. PICK s \in Seq(T) : s = drafts[g]
      BY <3>1
    <3> HIDE DEF T
    <3>5. /\ Append(s, d) \in Seq(T) /\ Len(s) \in Nat /\ DOMAIN s = 1..Len(s)
          /\ DOMAIN Append(s, d) = 1..(Len(s) + 1)
          /\ \A i \in 1..Len(s) : Append(s, d)[i] = s[i]
          /\ Append(s, d)[Len(s) + 1] = d
      BY <3>1
    <3> QED BY <2>2, <3>2, <3>3, <3>4, <3>5
  <2> QED BY <2>3, <2>4
<1>5. ASSUME ruleCounts'.classings = 0 PROVE ProjectedOK'
  <2>1. ProjectedOK
    BY <1>1, <1>5 DEF ProjectionInv
  <2>2. Unclassed(endpointRows)' /\ (work.pc = "write" => Unclassed(work.read))'
    BY <1>1, <2>1 DEF ProjectedOK, Unclassed, Endpoints
  <2>3. /\ Outputs(endpointRows)' = Outputs(endpointRows)
        /\ Watermark(endpointRows)' = Watermark(endpointRows)
        /\ Own(endpointRows)' = Own(endpointRows)
    BY <1>1, <2>1, <2>2, SameProjection DEF ProjectedOK
  <2>4. \A o : Written(o)' <=> Written(o)
    BY <1>1 DEF Written
  <2>5. (work.pc = "write" => Left(work.todo, endpointRows))'
    BY <1>1, <2>1, <2>3, <2>4 DEF ProjectedOK, Left, InKeyOrder
  <2> QED BY <1>1, <2>1, <2>2, <2>3, <2>4, <2>5 DEF ProjectedOK
<1> QED BY <1>3, <1>4, <1>5 DEF ProjectionInv

\* After a classification by a person only types and drafts are claimed.
LEMMA HandProjection ==
    ASSUME ProjectionInv, NEW e \in Endpoints, ClassifyByHand(e) PROVE ProjectionInv'
<1>1. /\ project' = project /\ drafts' = drafts /\ work' = work /\ ruleRun' = ruleRun
      /\ ruleCounts' = [ruleCounts EXCEPT !.classings = @ + 1]
      /\ \E v : endpointRows' = [endpointRows EXCEPT ![e] = v]
  BY DEF ClassifyByHand
<1>2. RuleTypes' /\ ruleCounts'.classings # 0
  <2>1. ruleCounts.classings \in Nat /\ DOMAIN ruleCounts = {"runs", "crashes", "classings"}
    BY DEF ProjectionInv, RuleTypes
  <2>2. ruleCounts'.classings = ruleCounts.classings + 1 /\ DOMAIN ruleCounts' = DOMAIN ruleCounts
    BY <1>1, <2>1
  <2>3. DOMAIN endpointRows' = DOMAIN endpointRows
    BY <1>1
  <2> QED BY <1>1, <2>1, <2>2, <2>3 DEF ProjectionInv, RuleTypes, Endpoints
<1>3. DraftsOK'
  BY <1>1 DEF ProjectionInv, DraftsOK
<1> QED BY <1>2, <1>3 DEF ProjectionInv

\* An output with a key of the first kind is the class of its endpoint.
LEMMA ClassIs ==
    ASSUME project \in RuleProjects, NEW read, NEW o \in Outputs(read)
    PROVE  /\ o.key[1] \in 1..3
           /\ o.key[1] = 1 => /\ o.endpoint \in Endpoints /\ o.action = Classify(project.endpoints[o.endpoint])
                             /\ o.allowed = ApplyAllowed(read[o.endpoint])
<1>1. o.key[1] \in 1..3
  BY OutputsOrderable
<1>2. ASSUME o.key[1] = 1 PROVE o \in ClassOutputs(read)
  <2>1. o \notin RelationRows
    <3> SUFFICES ASSUME NEW m \in RelationOutputs, o = RowOf(m) PROVE FALSE
      BY DEF RelationRows
    <3> QED BY <1>2 DEF RowOf
  <2>2. o \notin RoleRows
    <3> SUFFICES ASSUME NEW p \in ParameterFacts, o = RoleOf(p) PROVE FALSE
      BY DEF RoleRows
    <3> QED BY <1>2 DEF RoleOf
  <2> QED BY <2>1, <2>2, OutputsAre
<1>3. ASSUME o \in ClassOutputs(read)
      PROVE  /\ o.endpoint \in Endpoints /\ o.action = Classify(project.endpoints[o.endpoint])
             /\ o.allowed = ApplyAllowed(read[o.endpoint])
  <2>1. PICK e \in Endpoints : o = [key |-> <<1, e, 0, 0>>, order |-> 0, endpoint |-> e,
           action |-> Classify(project.endpoints[e]), allowed |-> ApplyAllowed(read[e])]
    BY <1>3 DEF ClassOutputs
  <2>2. /\ o.endpoint = e /\ o.action = Classify(project.endpoints[e])
        /\ o.allowed = ApplyAllowed(read[e])
    BY <2>1
  <2> QED BY <2>2
<1> QED BY <1>1, <1>2, <1>3

\* What is written stays written, and the output a worker takes is written.
LEMMA WriteKeeps ==
    ASSUME RuleTypes, Unclassed(endpointRows), Unclassed(work.read),
           NEW o \in Outputs(endpointRows), project' = project,
           CASE o.key[1] = 1 -> WriteClass(o)
             [] o.key[1] = 2 -> WriteRelation(o)
             [] OTHER -> WriteRole(o)
    PROVE  /\ DOMAIN endpointRows' = Endpoints /\ Unclassed(endpointRows)'
           /\ Written(o)'
           /\ \A p \in Outputs(endpointRows) : Written(p) => Written(p)'
<1>1. \/ o.key[1] = 1 /\ WriteClass(o)
      \/ o.key[1] = 2 /\ WriteRelation(o)
      \/ o.key[1] \notin {1, 2} /\ WriteRole(o)
  OBVIOUS
<1>2. Endpoints' = Endpoints /\ DOMAIN endpointRows = Endpoints
  BY DEF Endpoints, RuleTypes
<1>3. CASE o.key[1] = 1 /\ WriteClass(o)
  <2>1. /\ o.endpoint \in Endpoints /\ o.action = Classify(project.endpoints[o.endpoint])
        /\ o.allowed = ApplyAllowed(endpointRows[o.endpoint])
    BY <1>3, ClassIs DEF RuleTypes
  <2>2. o.allowed /\ ApplyAllowed(work.read[o.endpoint])
    BY <2>1 DEF Unclassed
  <2>3. /\ endpointRows' = [endpointRows EXCEPT ![o.endpoint] = [action |-> o.action, rule |-> "abstract_rule"]]
        /\ roles' = roles /\ relations' = relations
    BY <1>3, <2>2 DEF WriteClass
  <2>4. DOMAIN endpointRows' = Endpoints
    BY <1>2, <2>3
  <2>5. /\ endpointRows'[o.endpoint] = [action |-> o.action, rule |-> "abstract_rule"]
        /\ \A e \in Endpoints : e # o.endpoint => endpointRows'[e] = endpointRows[e]
    BY <1>2, <2>1, <2>3
  <2>6. Unclassed(endpointRows)'
    <3> SUFFICES ASSUME NEW e \in Endpoints PROVE ApplyAllowed(endpointRows'[e])
      BY <1>2 DEF Unclassed
    <3>1. CASE e = o.endpoint
      <4>1. endpointRows'[e].rule = "abstract_rule"
        BY <2>5, <3>1
      <4>2. ClassifiedBy(endpointRows'[e]) \in {"none", "machine"}
        BY <4>1 DEF ClassifiedBy
      <4> QED BY <4>2 DEF ApplyAllowed
    <3>2. CASE e # o.endpoint
      BY <2>5, <3>2 DEF Unclassed
    <3> QED BY <3>1, <3>2
  <2>7. Written(o)'
    BY <1>3, <2>5 DEF Written
  <2>8. ASSUME NEW p \in Outputs(endpointRows), Written(p) PROVE Written(p)'
    <3>1. CASE p.key[1] = 1
      <4>1. p.endpoint \in Endpoints /\ p.action = Classify(project.endpoints[p.endpoint])
        BY <3>1, ClassIs DEF RuleTypes
      <4>2. p.endpoint = o.endpoint => p.action = o.action
        BY <2>1, <4>1
      <4> QED BY <2>5, <2>8, <3>1, <4>1, <4>2 DEF Written
    <3>2. CASE p.key[1] # 1
      BY <2>3, <2>8, <3>2 DEF Written
    <3> QED BY <3>1, <3>2
  <2> QED BY <2>4, <2>6, <2>7, <2>8
<1>4. CASE o.key[1] = 2 /\ WriteRelation(o)
  <2>1. endpointRows' = endpointRows /\ roles' = roles /\ relations' = relations \cup {o.row}
    BY <1>4 DEF WriteRelation
  <2> QED BY <1>2, <1>4, <2>1 DEF Written, Unclassed
<1>5. CASE o.key[1] \notin {1, 2} /\ WriteRole(o)
  <2>1. endpointRows' = endpointRows /\ relations' = relations /\ roles' = roles \cup {o.row}
    BY <1>5 DEF WriteRole
  <2> QED BY <1>2, <1>5, <2>1 DEF Written, Unclassed
<1> QED BY <1>1, <1>3, <1>4, <1>5

\* The output taken is written, the others stay, and the cursor passes no unwritten one.
LEMMA PersistProjection ==
    ASSUME ProjectionInv, PersistOutput PROVE ProjectionInv'
<1> DEFINE o == Head(work.todo)
<1>1. /\ project' = project /\ drafts' = drafts /\ ruleCounts' = ruleCounts
      /\ work.pc = "write" /\ work.todo # << >>
      /\ CASE o.key[1] = 1 -> WriteClass(o)
           [] o.key[1] = 2 -> WriteRelation(o)
           [] OTHER -> WriteRole(o)
      /\ ruleRun' = ruleRun \/ ruleRun' = [ruleRun EXCEPT !.cursor = o.key]
      /\ \E n : work' = [work EXCEPT !.todo = Tail(@), !.count = n]
  BY DEF PersistOutput
<1>2. RuleTypes'
  <2>1. \/ endpointRows' = endpointRows
        \/ \E e, v : endpointRows' = [endpointRows EXCEPT ![e] = v]
    <3>1. WriteClass(o) \/ WriteRelation(o) \/ WriteRole(o)
      BY <1>1
    <3> HIDE DEF o
    <3> QED BY <3>1 DEF WriteClass, WriteRelation, WriteRole
  <2>2. DOMAIN endpointRows' = DOMAIN endpointRows
    BY <2>1
  <2>3. DOMAIN ruleRun' = DOMAIN ruleRun
    BY <1>1
  <2>4. work'.pc = work.pc /\ DOMAIN work' = DOMAIN work
    BY <1>1 DEF ProjectionInv, RuleTypes
  <2> QED BY <1>1, <2>2, <2>3, <2>4 DEF ProjectionInv, RuleTypes, Endpoints
<1>3. DraftsOK'
  BY <1>1 DEF ProjectionInv, DraftsOK
<1>4. ASSUME ruleCounts'.classings = 0 PROVE ProjectedOK'
  <2>1. ProjectedOK /\ RuleTypes
    BY <1>1, <1>4 DEF ProjectionInv
  <2>2. Left(work.todo, endpointRows) /\ Unclassed(endpointRows) /\ Unclassed(work.read)
    BY <1>1, <2>1 DEF ProjectedOK
  <2>3. PICK s : s = work.todo
    OBVIOUS
  <2>4. /\ s \in Seq(Outputs(endpointRows)) /\ s # << >> /\ InKeyOrder(s)
        /\ \A p \in Own(endpointRows) : Written(p) \/ \E i \in DOMAIN s : s[i] = p
    BY <1>1, <2>2, <2>3 DEF Left
  <2>5. /\ o = s[1] /\ o \in Outputs(endpointRows)
        /\ Tail(s) \in Seq(Outputs(endpointRows))
        /\ Len(s) \in Nat \ {0} /\ DOMAIN s = 1..Len(s) /\ DOMAIN Tail(s) = 1..(Len(s) - 1)
        /\ \A i \in 1..(Len(s) - 1) : Tail(s)[i] = s[i + 1]
    BY <2>3, <2>4
  <2>6. PICK h : h = o
    OBVIOUS
  <2>7. /\ Unclassed(endpointRows)' /\ Written(h)'
        /\ \A p \in Outputs(endpointRows) : Written(p) => Written(p)'
    BY <1>1, <2>1, <2>2, <2>5, <2>6, WriteKeeps
  <2>8. /\ Outputs(endpointRows)' = Outputs(endpointRows)
        /\ Watermark(endpointRows)' = Watermark(endpointRows)
        /\ Own(endpointRows)' = Own(endpointRows)
    BY <1>1, <2>2, <2>7, SameProjection
  <2>9. work'.read = work.read /\ work'.todo = Tail(s) /\ work'.pc = "write"
    BY <1>1, <2>1, <2>3 DEF RuleTypes
  <2>10. Unclassed(work.read)'
    BY <1>1, <2>2, <2>9 DEF Unclassed, Endpoints
  <2>11. /\ ruleRun'.error = ruleRun.error /\ ruleRun'.mark = ruleRun.mark /\ ruleRun'.status = ruleRun.status
         /\ ruleRun'.cursor \in {ruleRun.cursor, h.key}
    BY <1>1, <2>1, <2>6 DEF RuleTypes
  <2>12. InKeyOrder(Tail(s))
    BY <2>4, <2>5 DEF InKeyOrder
  <2>13. ASSUME NEW p \in Own(endpointRows), ~Written(p)' PROVE \E i \in DOMAIN Tail(s) : Tail(s)[i] = p
    <3>1. ~Written(p) /\ p # h
      BY <2>7, <2>13 DEF Own
    <3>2. PICK i \in DOMAIN s : s[i] = p
      BY <2>4, <3>1
    <3>3. i # 1 /\ i - 1 \in DOMAIN Tail(s) /\ Tail(s)[i - 1] = p
      BY <2>5, <2>6, <3>1, <3>2
    <3> QED BY <3>3
  <2>14. h.key \in Keys /\ \A p \in Outputs(endpointRows) : p.key \in Keys
    BY <2>1, <2>5, <2>6, OutputsOrderable DEF RuleTypes
  <2>15. ASSUME NEW p \in Own(endpointRows), ~Written(p)' PROVE KeyLess(ruleRun'.cursor, p.key)
    <3>1. PICK i \in DOMAIN Tail(s) : Tail(s)[i] = p
      BY <2>13, <2>15
    <3>2. p \in Outputs(endpointRows) /\ p # h
      BY <2>7, <2>15 DEF Own
    <3>3. ~KeyLess(p.key, h.key)
      <4>1. i + 1 \in DOMAIN s /\ 1 \in DOMAIN s /\ 1 < i + 1 /\ s[i + 1] = p /\ s[1] = h
        BY <2>5, <2>6, <3>1
      <4> QED BY <2>4, <4>1 DEF InKeyOrder
    <3>4. p.key # h.key
      BY <2>5, <2>6, <3>2 DEF Own
    <3>5. KeyLess(h.key, p.key)
      BY <2>14, <3>2, <3>3, <3>4, KeyOrder
    <3>6. KeyLess(ruleRun.cursor, p.key)
      <4>1. ~Written(p)
        BY <2>7, <2>15, <3>2
      <4> QED BY <2>1, <4>1 DEF ProjectedOK
    <3> QED BY <2>11, <3>5, <3>6
  <2>16. Left(work.todo, endpointRows)'
    BY <2>5, <2>8, <2>9, <2>12, <2>13 DEF Left, InKeyOrder
  <2>17. ruleRun'.status = "done" => \A p \in Own(endpointRows) : Written(p)'
    BY <2>1, <2>7, <2>11 DEF ProjectedOK, Own
  <2>18. ruleRun'.error # "input" /\ ruleRun'.mark \in {{}, {Watermark(endpointRows)}} /\ ruleRun'.cursor \in Keys
    BY <2>1, <2>11, <2>14 DEF ProjectedOK
  <2> HIDE DEF o
  <2> QED BY <2>7, <2>8, <2>10, <2>15, <2>16, <2>17, <2>18 DEF ProjectedOK
<1> QED BY <1>2, <1>3, <1>4 DEF ProjectionInv

\* A step that changes nothing keeps the invariant.
LEMMA StutterProjection == ASSUME ProjectionInv, UNCHANGED ruleVars PROVE ProjectionInv'
<1>1. /\ project' = project /\ endpointRows' = endpointRows /\ relations' = relations /\ roles' = roles
      /\ drafts' = drafts /\ work' = work /\ ruleCounts' = ruleCounts /\ ruleRun' = ruleRun
  BY DEF ruleVars
<1>2. RuleTypes' /\ DraftsOK'
  BY <1>1 DEF ProjectionInv, RuleTypes, DraftsOK, Endpoints
<1>3. ASSUME ruleCounts'.classings = 0 PROVE ProjectedOK'
  <2>1. ProjectedOK
    BY <1>1, <1>3 DEF ProjectionInv
  <2>2. Unclassed(endpointRows)' /\ (work.pc = "write" => Unclassed(work.read))'
    BY <1>1, <2>1 DEF ProjectedOK, Unclassed, Endpoints
  <2>3. /\ Outputs(endpointRows)' = Outputs(endpointRows)
        /\ Watermark(endpointRows)' = Watermark(endpointRows)
        /\ Own(endpointRows)' = Own(endpointRows)
    BY <1>1, <2>1, <2>2, SameProjection DEF ProjectedOK
  <2>4. \A o : Written(o)' <=> Written(o)
    BY <1>1 DEF Written
  <2>5. (work.pc = "write" => Left(work.todo, endpointRows))'
    BY <1>1, <2>1, <2>3, <2>4 DEF ProjectedOK, Left, InKeyOrder
  <2> QED BY <1>1, <2>1, <2>2, <2>3, <2>4, <2>5 DEF ProjectedOK
<1> QED BY <1>2, <1>3 DEF ProjectionInv

\* A projection that was interrupted is accepted when it resumes, as long as
\* nobody classified meanwhile; a finished one has written every output with a
\* key of its own, whatever crashes and cursors it went through; and neither
\* crashes nor inputs that come back double a draft: persist_typed_outputs and
\* create_non_executable_plan_drafts, for every project.
THEOREM ProjectionsAreSound == RuleSpec => []ProjectionSound
<1>1. ProjectionInv /\ [RuleNext]_ruleVars => ProjectionInv'
  <2> SUFFICES ASSUME ProjectionInv, RuleNext \/ UNCHANGED ruleVars PROVE ProjectionInv'
    OBVIOUS
  <2>1. CASE StartRuleRun
    BY <2>1, StartProjection
  <2>2. CASE AnalyzeProject
    BY <2>2, AnalyzeProjection
  <2>3. CASE PersistOutput
    BY <2>3, PersistProjection
  <2>4. CASE CreateDraft
    BY <2>4, DraftProjection
  <2>5. CASE FinishRun \/ CrashRun
    BY <2>5, CrashProjection
  <2>6. ASSUME NEW e \in Endpoints, ClassifyByHand(e) PROVE ProjectionInv'
    BY <2>6, HandProjection
  <2>7. CASE UNCHANGED ruleVars
    BY <2>7, StutterProjection
  <2> QED BY <2>1, <2>2, <2>3, <2>4, <2>5, <2>6, <2>7 DEF RuleNext
<1> QED BY <1>1, InitProjection, ProjectionInvSound, PTL DEF RuleSpec
=============================================================================
