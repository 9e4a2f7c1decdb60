---------------------------- MODULE ReplayProofs ----------------------------
\* Procedures that send several requests and rely on the replies:
\* MutationLifecycle for any candidates, paths, crashes and lost answers,
\* InterfaceChain for any chains, captured requests and replies.
EXTENDS MutationLifecycle, InterfaceChain, FiniteSetTheorems, WellFoundedInduction, TLAPS

-----------------------------------------------------------------------------
(* MutationLifecycle.                                                      *)

\* The fields of a lifecycle and of its evidence, and the values a path can hold.
EvKeys   == {"error", "gap", "effect", "accepted", "cleanup", "cleaned", "verified", "requests"}
LifeKeys == {"pc", "restore", "id", "ev"}
Values   == {Original} \cup {Body(a) : a \in Updates}

\* The requests a lifecycle may have sent when it is at p.
UpdateCap(p) ==
    IF p = "start" THEN 0 ELSE IF p = "mutate" THEN 1 ELSE IF p = "after" THEN 2
    ELSE IF p = "restore" THEN 3 ELSE IF p = "final" THEN 4 ELSE 5
CreateCap(p) ==
    IF p = "start" THEN 0 ELSE IF p = "after" THEN 1 ELSE IF p = "delete" THEN 2
    ELSE IF p = "final" THEN 3 ELSE 4

\* Between its first write and its verdict an update holds what it read.
UpdateOK(a) ==
    /\ life[a].pc \in {"start", "mutate", "after", "restore", "final", "judge", "done"}
    /\ life[a].ev.requests <= UpdateCap(life[a].pc)
    /\ life[a].pc \in {"mutate", "after", "restore", "final"} =>
          /\ life[a].restore \in Values /\ preflight = FALSE
          /\ life[a].ev.error = FALSE /\ life[a].ev.verified = FALSE
    /\ life[a].pc = "final" => life[a].ev.cleanup = TRUE

\* A create knows the resource it made, and one it verified gone is.
CreateOK(a) ==
    /\ life[a].pc \in {"start", "after", "delete", "final", "judge", "done"}
    /\ life[a].ev.requests <= CreateCap(life[a].pc)
    /\ life[a].pc \in {"after", "delete", "final"} =>
          /\ life[a].id \in 1..(nextId - 1)
          /\ life[a].ev.error = FALSE /\ life[a].ev.verified = FALSE
    /\ life[a].pc = "final" => life[a].ev.cleanup = TRUE
    /\ life[a].pc \in {"judge", "done"} /\ life[a].ev.verified # FALSE =>
          life[a].id \in 1..(nextId - 1) /\ life[a].id \notin created

LifeOK(a) ==
    /\ DOMAIN life[a] = LifeKeys /\ DOMAIN life[a].ev = EvKeys
    /\ life[a].ev.requests \in Nat
    /\ life[a].pc = "start" => life[a] = Fresh
    /\ IF a \in Updates THEN UpdateOK(a) ELSE CreateOK(a)
    /\ result[a] = None \/ result[a].verdict \in {"error", "need_review", "not_evaluable"}

\* Nothing happened that the code cannot know of.
Known == lost = 0 /\ crashes = 0

\* What the only writer of a path leaves there is the original value, or on a list.
WriterOK(a) ==
    /\ life[a].pc \in {"start", "mutate"} => value[a.path] = Original
    /\ life[a].pc \in {"mutate", "after", "restore", "final"} => life[a].restore = Original
    /\ life[a].pc = "judge" => value[a.path] = Original \/ Verdict(life[a].ev) = "need_review"
    /\ life[a].pc = "done" => value[a.path] = Original \/ result[a].verdict = "need_review"

\* A resource that still exists is in the hands of a lifecycle, or on a list.
Keeps(a, i) ==
    \/ life[a].pc \in {"after", "delete", "final"} /\ life[a].id = i
    \/ life[a].pc = "judge" /\ Verdict(life[a].ev) = "need_review"
    \/ life[a].pc = "done" /\ result[a].verdict = "need_review"

Residue ==
    Known => /\ \A a \in Updates : OneWriter(a.path) => WriterOK(a)
             /\ \A i \in created : \E a \in Creates : Keeps(a, i)

ServiceTypes ==
    /\ preflight \in BOOLEAN /\ value \in [Paths -> Values]
    /\ nextId \in Nat \ {0} /\ created \subseteq 1..(nextId - 1)
    /\ lost \in 0..MaxLost /\ crashes \in 0..MaxCrashes
    /\ DOMAIN life = Candidates /\ DOMAIN result = Candidates

MutInv == ServiceTypes /\ (\A a \in Candidates : LifeOK(a)) /\ Residue

-----------------------------------------------------------------------------

\* The only writer of a path is one candidate.
LEMMA OnlyWriter ==
  ASSUME NEW a \in Updates, OneWriter(a.path), NEW b \in Updates, b.path = a.path
  PROVE  a = b
<1>1. PICK S : S = {u \in Updates : u.path = a.path}
  OBVIOUS
<1>2. S \subseteq Assets /\ a \in S /\ b \in S /\ Cardinality(S) = 1
  BY <1>1 DEF Updates, Candidates, OneWriter
<1>3. IsFiniteSet(S)
  BY <1>2, FS_Subset, LifecycleAssumption
<1>4. Cardinality(S \ {a}) = 0 /\ IsFiniteSet(S \ {a})
  BY <1>2, <1>3, FS_RemoveElement
<1>5. S \ {a} = {}
  BY <1>4, FS_EmptySet
<1> QED BY <1>2, <1>5

\* Before the first request nothing is changed.
LEMMA InitMut == Init => MutInv
<1> SUFFICES ASSUME Init PROVE MutInv
  OBVIOUS
<1>1. ServiceTypes
  BY LifecycleAssumption DEF Init, ServiceTypes, Values
<1>2. \A a \in Candidates : life[a] = Fresh /\ result[a] = None
  BY DEF Init
<1>3. /\ DOMAIN Fresh = LifeKeys /\ DOMAIN Fresh.ev = EvKeys /\ Fresh.ev.requests = 0
      /\ Fresh.pc = "start"
  BY DEF Fresh, NoEvidence, LifeKeys, EvKeys
<1>4. ASSUME NEW a \in Candidates PROVE LifeOK(a)
  <2>1. PICK fresh : fresh = Fresh
    OBVIOUS
  <2>2. /\ life[a] = fresh /\ result[a] = None /\ DOMAIN fresh = LifeKeys /\ DOMAIN fresh.ev = EvKeys
        /\ fresh.ev.requests = 0 /\ fresh.pc = "start"
    BY <1>2, <1>3, <2>1
  <2>3. UpdateOK(a) /\ CreateOK(a)
    BY <2>2 DEF UpdateOK, CreateOK, UpdateCap, CreateCap
  <2> QED BY <2>1, <2>2, <2>3 DEF LifeOK
<1>5. Residue
  BY <1>2, <1>3 DEF Init, Residue, WriterOK, Paths, Updates
<1> QED BY <1>1, <1>4, <1>5 DEF MutInv

\* Candidates are chosen once and for all.
LEMMA SameCandidates ==
  ASSUME UNCHANGED preflight
  PROVE  Candidates' = Candidates /\ Updates' = Updates /\ Creates' = Creates /\ Paths' = Paths /\ Values' = Values
  BY DEF Candidates, Updates, Creates, Paths, Values, Strategy

\* A step of the lifecycle of a.
LEMMA LifeStep ==
  ASSUME MutInv, NEW a \in Candidates, UNCHANGED preflight, NEW l, Go(a, l),
         value' \in [Paths -> Values], \A p \in Paths : value'[p] # value[p] => a \in Updates /\ p = a.path,
         \/ nextId' = nextId /\ created' \subseteq created
         \/ nextId' = nextId + 1 /\ created' \subseteq created \cup {nextId},
         DOMAIN result' = Candidates, \A b \in Candidates \ {a} : result'[b] = result[b],
         lost' \in 0..MaxLost, lost' = lost \/ lost' = lost + 1,
         crashes' \in 0..MaxCrashes, crashes' = crashes \/ crashes' = crashes + 1,
         LifeOK(a)',
         Known /\ Known' /\ a \in Updates /\ OneWriter(a.path) => WriterOK(a)',
         Known /\ Known' => \A i \in created' :
            (i \notin created \/ \E b \in Creates : b = a /\ Keeps(b, i)) => \E b \in Creates : Keeps(b, i)'
  PROVE  MutInv'
<1>1. life'[a] = l /\ DOMAIN life' = Candidates /\ \A b \in Candidates \ {a} : life'[b] = life[b]
  BY DEF MutInv, ServiceTypes, Go
<1>2. nextId \in Nat \ {0} /\ created \subseteq 1..(nextId - 1)
  BY DEF MutInv, ServiceTypes
<1>3. nextId' \in Nat \ {0} /\ created' \subseteq 1..(nextId' - 1)
  <2>1. CASE nextId' = nextId /\ created' \subseteq created
    BY <1>2, <2>1
  <2>2. CASE nextId' = nextId + 1 /\ created' \subseteq created \cup {nextId}
    <3>1. nextId' \in Nat \ {0} /\ nextId' - 1 = nextId
      BY ONLY <1>2, <2>2
    <3>2. \A i \in created \cup {nextId} : i \in 1..nextId
      BY ONLY <1>2
    <3> QED BY <2>2, <3>1, <3>2
  <2> QED BY <2>1, <2>2
<1>4. ServiceTypes'
  BY <1>1, <1>3, SameCandidates DEF MutInv, ServiceTypes
<1>5. ASSUME NEW b \in Candidates PROVE LifeOK(b)'
  <2>1. CASE b = a
    BY <2>1
  <2>2. CASE b # a
    <3>1. life'[b] = life[b] /\ result'[b] = result[b] /\ LifeOK(b)
      BY <1>1, <2>2 DEF MutInv
    <3>2. \A i \in 1..(nextId - 1) : i \in 1..(nextId' - 1) /\ (i \notin created => i \notin created')
      BY <1>2
    <3>3. CreateOK(b) => CreateOK(b)'
      BY <3>1, <3>2 DEF CreateOK
    <3>4. UpdateOK(b) => UpdateOK(b)'
      BY <3>1, SameCandidates DEF UpdateOK
    <3> QED BY <3>1, <3>3, <3>4, SameCandidates DEF LifeOK
  <2> QED BY <2>1, <2>2
<1>6. Known' => Known
  BY DEF Known, MutInv, ServiceTypes
<1>7. ASSUME Known', NEW b \in Updates, OneWriter(b.path) PROVE WriterOK(b)'
  <2>1. CASE b = a
    BY <1>6, <1>7, <2>1
  <2>2. CASE b # a
    <3>1. b \in Candidates /\ b.path \in Paths
      BY DEF Updates, Paths
    <3>2. value'[b.path] = value[b.path]
      BY <1>7, <2>2, <3>1, OnlyWriter
    <3>3. life'[b] = life[b] /\ result'[b] = result[b] /\ WriterOK(b)
      BY <1>1, <1>6, <1>7, <2>2, <3>1 DEF MutInv, Residue
    <3> QED BY <3>2, <3>3 DEF WriterOK
  <2> QED BY <2>1, <2>2
<1>8. ASSUME Known', NEW i \in created' PROVE \E b \in Creates : Keeps(b, i)'
  <2>1. CASE i \notin created
    BY <1>6, <1>8, <2>1
  <2>2. CASE i \in created
    <3>1. PICK b \in Creates : Keeps(b, i)
      BY <1>6, <1>8, <2>2 DEF MutInv, Residue
    <3>2. CASE b = a
      BY <1>6, <1>8, <3>1, <3>2
    <3>3. CASE b # a
      <4>1. b \in Candidates
        BY DEF Creates
      <4>2. Keeps(b, i)'
        BY <1>1, <3>1, <3>3, <4>1 DEF Keeps
      <4> QED BY <4>2
    <3> QED BY <3>2, <3>3
  <2> QED BY <2>1, <2>2
<1>9. Residue'
  <2>1. \A b \in Updates : OneWriter(b.path)' = OneWriter(b.path)
    BY SameCandidates DEF OneWriter
  <2> QED BY <1>7, <1>8, <2>1, SameCandidates DEF Residue
<1> QED BY <1>4, <1>5, <1>9, SameCandidates DEF MutInv
-----------------------------------------------------------------------------
(* What the helpers return.                                                *)

LEMMA SentIs ==
  ASSUME NEW a \in Candidates, LifeOK(a), NEW e, e = Sent(a)
  PROVE  /\ DOMAIN e = EvKeys /\ e.requests = life[a].ev.requests + 1 /\ e.requests \in Nat
         /\ e.error = life[a].ev.error /\ e.verified = life[a].ev.verified /\ e.cleanup = life[a].ev.cleanup
<1>1. PICK v : v = life[a].ev
  OBVIOUS
<1>2. DOMAIN v = EvKeys /\ v.requests \in Nat /\ e = [v EXCEPT !.requests = v.requests + 1]
  BY <1>1 DEF LifeOK, Sent
<1> QED BY <1>1, <1>2 DEF EvKeys

LEMMA ThenIs ==
  ASSUME NEW a \in Candidates, LifeOK(a), NEW p, NEW e, NEW l, l = Then(a, p, e)
  PROVE  DOMAIN l = LifeKeys /\ l.pc = p /\ l.ev = e /\ l.restore = life[a].restore /\ l.id = life[a].id
  BY DEF LifeOK, LifeKeys, Then

LEMMA ReturnIs ==
  ASSUME NEW a \in Candidates, LifeOK(a), NEW gap, NEW e, DOMAIN e = EvKeys, NEW l, l = Return(a, gap, e)
  PROVE  /\ DOMAIN l = LifeKeys /\ l.pc = "judge" /\ l.restore = life[a].restore /\ l.id = life[a].id
         /\ DOMAIN l.ev = EvKeys /\ l.ev.gap = gap /\ l.ev.requests = e.requests
         /\ l.ev.error = e.error /\ l.ev.verified = e.verified /\ l.ev.cleanup = e.cleanup
<1>1. PICK f : f = [e EXCEPT !.gap = gap]
  OBVIOUS
<1>2. DOMAIN f = EvKeys /\ f.gap = gap /\ \A k \in EvKeys : k # "gap" => f[k] = e[k]
  BY <1>1 DEF EvKeys
<1>3. f.requests = e.requests /\ f.error = e.error /\ f.verified = e.verified /\ f.cleanup = e.cleanup
  BY <1>2 DEF EvKeys
<1>4. l = [life[a] EXCEPT !.pc = "judge", !.ev = f]
  BY <1>1 DEF Return
<1>5. DOMAIN l = LifeKeys /\ l.pc = "judge" /\ l.ev = f /\ l.restore = life[a].restore /\ l.id = life[a].id
  BY <1>4 DEF LifeOK, LifeKeys
<1> QED BY <1>2, <1>3, <1>5

LEMMA AccountIs ==
  ASSUME NEW o, Account(o), lost \in 0..MaxLost
  PROVE  lost' \in 0..MaxLost /\ (lost' = lost \/ lost' = lost + 1)
<1>1. MaxLost \in Nat
  BY LifecycleAssumption
<1>2. lost' = lost \/ (lost < MaxLost /\ lost' = lost + 1)
  BY DEF Account
<1> QED BY <1>1, <1>2

\* A cleanup that was sent and not verified is reviewed.
LEMMA UnverifiedIsReviewed ==
  ASSUME NEW e, e.error = FALSE, e.verified = FALSE,
         \/ e.cleanup = TRUE /\ e.gap \in {"restore_readback_mismatch", "restore_request_failed", "delete_cleanup_unverified"}
         \/ e.gap = "created_id_unavailable_cleanup_not_possible"
  PROVE  Verdict(e) = "need_review"
  BY DEF Verdict

LEMMA FreshIs ==
  ASSUME NEW a \in Candidates, LifeOK(a), life[a].pc = "start"
  PROVE  /\ life[a].ev.requests = 0 /\ life[a].ev.error = FALSE /\ life[a].ev.verified = FALSE
         /\ life[a].ev.cleanup = FALSE
<1>1. PICK e : e = NoEvidence
  OBVIOUS
<1>2. e.requests = 0 /\ e.error = FALSE /\ e.verified = FALSE /\ e.cleanup = FALSE
  BY <1>1 DEF NoEvidence
<1>3. life[a].ev = e
  BY <1>1 DEF LifeOK, Fresh
<1> QED BY <1>2, <1>3

\* What an update goes on with, ...
UpdateGoes(l) ==
    /\ DOMAIN l = LifeKeys /\ DOMAIN l.ev = EvKeys /\ l.ev.requests \in Nat
    /\ l.pc \in {"mutate", "after", "restore", "final", "judge"} /\ l.ev.requests <= UpdateCap(l.pc)
    /\ l.pc \in {"mutate", "after", "restore", "final"} =>
          l.restore \in Values /\ preflight = FALSE /\ l.ev.error = FALSE /\ l.ev.verified = FALSE
    /\ l.pc = "final" => l.ev.cleanup = TRUE

\* ... what it does to the service, ...
UpdateWrites(a) ==
    /\ value' \in [Paths -> Values] /\ \A p \in Paths : value'[p] # value[p] => p = a.path
    /\ lost' \in 0..MaxLost /\ (lost' = lost \/ lost' = lost + 1)
    /\ UNCHANGED <<created, result, nextId, crashes>>

\* ... and what it leaves there.
UpdateLeaves(a, l) ==
    Known /\ Known' /\ WriterOK(a) =>
        /\ l.pc = "mutate" => value'[a.path] = Original
        /\ l.pc \in {"mutate", "after", "restore", "final"} => l.restore = Original
        /\ l.pc = "judge" => value'[a.path] = Original \/ Verdict(l.ev) = "need_review"

LEMMA UpdateSteps ==
  ASSUME MutInv, UNCHANGED preflight, NEW a \in Updates, NEW l, Go(a, l),
         UpdateGoes(l), UpdateWrites(a), UpdateLeaves(a, l)
  PROVE  MutInv'
<1>0. a \in Candidates
  BY DEF Updates
<1>1. life'[a] = l
  BY <1>0 DEF MutInv, ServiceTypes, Go
<1>2. LifeOK(a)'
  <2>1. LifeOK(a)
    BY <1>0 DEF MutInv
  <2>2. UpdateOK(a)'
    BY <1>1, SameCandidates DEF UpdateOK, UpdateGoes
  <2> QED BY <1>1, <2>1, <2>2, SameCandidates DEF LifeOK, UpdateGoes, UpdateWrites
<1>3. Known /\ Known' /\ OneWriter(a.path) => WriterOK(a)'
  <2> SUFFICES ASSUME Known, Known', OneWriter(a.path) PROVE WriterOK(a)'
    OBVIOUS
  <2>1. WriterOK(a)
    BY DEF MutInv, Residue
  <2> QED BY <1>1, <2>1 DEF WriterOK, UpdateGoes, UpdateLeaves
<1>4. Known /\ Known' => \A i \in created' :
            (i \notin created \/ \E b \in Creates : b = a /\ Keeps(b, i)) => \E b \in Creates : Keeps(b, i)'
  BY DEF Creates, UpdateWrites
<1>5. nextId' = nextId /\ created' \subseteq created
  BY DEF UpdateWrites
<1>6. DOMAIN result' = Candidates /\ \A b \in Candidates \ {a} : result'[b] = result[b]
  BY DEF MutInv, ServiceTypes, UpdateWrites
<1>7. crashes' = crashes /\ crashes' \in 0..MaxCrashes
  BY DEF MutInv, ServiceTypes, UpdateWrites
<1>8. /\ value' \in [Paths -> Values] /\ \A p \in Paths : value'[p] # value[p] => a \in Updates /\ p = a.path
      /\ lost' \in 0..MaxLost /\ (lost' = lost \/ lost' = lost + 1)
  BY DEF UpdateWrites
<1> QED BY <1>0, <1>2, <1>3, <1>4, <1>5, <1>6, <1>7, <1>8, LifeStep

\* The same of a create.
CreateGoes(l) ==
    /\ DOMAIN l = LifeKeys /\ DOMAIN l.ev = EvKeys /\ l.ev.requests \in Nat
    /\ l.pc \in {"after", "delete", "final", "judge"} /\ l.ev.requests <= CreateCap(l.pc)
    /\ l.pc \in {"after", "delete", "final"} =>
          l.id \in 1..(nextId' - 1) /\ l.ev.error = FALSE /\ l.ev.verified = FALSE
    /\ l.pc = "final" => l.ev.cleanup = TRUE
    /\ l.pc = "judge" /\ l.ev.verified # FALSE => l.id \in 1..(nextId' - 1) /\ l.id \notin created'

CreateWrites ==
    /\ \/ nextId' = nextId /\ created' \subseteq created
       \/ nextId' = nextId + 1 /\ created' \subseteq created \cup {nextId}
    /\ lost' \in 0..MaxLost /\ (lost' = lost \/ lost' = lost + 1)
    /\ UNCHANGED <<value, result, crashes>>

CreateLeaves(a, l) ==
    Known /\ Known' => \A i \in created' : i \notin created \/ Keeps(a, i) =>
        \/ l.pc \in {"after", "delete", "final"} /\ l.id = i
        \/ l.pc = "judge" /\ Verdict(l.ev) = "need_review"

LEMMA CreateSteps ==
  ASSUME MutInv, UNCHANGED preflight, NEW a \in Creates, NEW l, Go(a, l),
         CreateGoes(l), CreateWrites, CreateLeaves(a, l)
  PROVE  MutInv'
<1>0. a \in Candidates /\ a \notin Updates
  BY DEF Creates
<1>1. life'[a] = l
  BY <1>0 DEF MutInv, ServiceTypes, Go
<1>2. LifeOK(a)'
  <2>1. LifeOK(a)
    BY <1>0 DEF MutInv
  <2>2. CreateOK(a)'
    BY <1>1 DEF CreateOK, CreateGoes
  <2> QED BY <1>0, <1>1, <2>1, <2>2, SameCandidates DEF LifeOK, CreateGoes, CreateWrites
<1>4. Known /\ Known' => \A i \in created' :
            (i \notin created \/ \E b \in Creates : b = a /\ Keeps(b, i)) => \E b \in Creates : Keeps(b, i)'
  <2> SUFFICES ASSUME Known, Known', NEW i \in created', i \notin created \/ Keeps(a, i) PROVE Keeps(a, i)'
    BY SameCandidates
  <2> QED BY <1>1 DEF CreateLeaves, Keeps
<1>5. \/ nextId' = nextId /\ created' \subseteq created
      \/ nextId' = nextId + 1 /\ created' \subseteq created \cup {nextId}
  BY DEF CreateWrites
<1>6. DOMAIN result' = Candidates /\ \A b \in Candidates \ {a} : result'[b] = result[b]
  BY DEF MutInv, ServiceTypes, CreateWrites
<1>7. crashes' = crashes /\ crashes' \in 0..MaxCrashes
  BY DEF MutInv, ServiceTypes, CreateWrites
<1>8. /\ value' \in [Paths -> Values] /\ \A p \in Paths : value'[p] # value[p] => a \in Updates /\ p = a.path
      /\ lost' \in 0..MaxLost /\ (lost' = lost \/ lost' = lost + 1)
  BY DEF CreateWrites, MutInv, ServiceTypes
<1> QED BY <1>0, <1>2, <1>4, <1>5, <1>6, <1>7, <1>8, LifeStep

-----------------------------------------------------------------------------
(* The steps of an update.                                                 *)

LEMMA RefuseKeeps ==
  ASSUME MutInv, UNCHANGED preflight, NEW a \in Candidates, NEW gap, Refuse(a, gap)
  PROVE  MutInv'
<1>1. LifeOK(a) /\ ServiceTypes
  BY DEF MutInv
<1>2. PICK e : e = life[a].ev
  OBVIOUS
<1>3. PICK l : l = Return(a, gap, e)
  OBVIOUS
<1>4. Go(a, l) /\ life[a].pc = "start" /\ UNCHANGED <<value, created, result, nextId, lost, crashes>>
  BY <1>2, <1>3 DEF Refuse
<1>5. DOMAIN e = EvKeys /\ e.requests = 0 /\ e.error = FALSE /\ e.verified = FALSE
  BY <1>1, <1>2, <1>4, FreshIs DEF LifeOK
<1>6. DOMAIN l = LifeKeys /\ l.pc = "judge" /\ DOMAIN l.ev = EvKeys /\ l.ev.requests = 0 /\ l.ev.verified = FALSE
  BY <1>1, <1>3, <1>5, ReturnIs
<1>7. CASE a \in Updates
  <2>1. UpdateGoes(l)
    BY <1>6 DEF UpdateGoes, UpdateCap
  <2>2. UpdateWrites(a)
    BY <1>1, <1>4 DEF UpdateWrites, ServiceTypes
  <2>3. UpdateLeaves(a, l)
    BY <1>4, <1>6 DEF UpdateLeaves, WriterOK
  <2> QED BY <1>4, <1>7, <2>1, <2>2, <2>3, UpdateSteps
<1>8. CASE a \notin Updates
  <2>1. CreateGoes(l)
    <3>1. l.ev.requests <= CreateCap(l.pc) /\ l.ev.requests \in Nat
      BY <1>6 DEF CreateCap
    <3> QED BY <1>6, <3>1 DEF CreateGoes
  <2>2. CreateWrites
    BY <1>1, <1>4 DEF CreateWrites, ServiceTypes
  <2>3. CreateLeaves(a, l)
    BY <1>4 DEF CreateLeaves, Keeps
  <2>4. a \in Creates
    BY <1>8 DEF Creates
  <2> QED BY <1>4, <2>1, <2>2, <2>3, <2>4, CreateSteps
<1> QED BY <1>7, <1>8

LEMMA ReadBeforeKeeps == ASSUME MutInv, UNCHANGED preflight, NEW a \in Updates, ReadBefore(a) PROVE MutInv'
<1>0. a \in Candidates /\ a.path \in Paths
  BY DEF Updates, Paths
<1>1. LifeOK(a) /\ value[a.path] \in Values /\ lost \in 0..MaxLost /\ value \in [Paths -> Values] /\ preflight \in BOOLEAN
  BY <1>0 DEF MutInv, ServiceTypes
<1>2. PICK e : e = Sent(a)
  OBVIOUS
<1>3. PICK o \in ReadOutcomes :
        /\ life[a].pc = "start"
        /\ Go(a, CASE o = "value" /\ preflight ->
                        [Return(a, "preflight_complete_mutation_not_sent", e) EXCEPT !.restore = value[a.path]]
                   [] o = "value" /\ ~preflight -> [Then(a, "mutate", e) EXCEPT !.restore = value[a.path]]
                   [] o = "ambiguous" -> Return(a, "unique_restore_payload_unavailable", e)
                   [] o = "refused"   -> Return(a, "before_readback_unavailable", e)
                   [] o = "lost"      -> Return(a, "before_readback_unavailable", [e EXCEPT !.error = TRUE]))
        /\ UNCHANGED <<value, created, result, nextId, lost, crashes>>
  BY <1>2 DEF ReadBefore
<1>4. /\ DOMAIN e = EvKeys /\ e.requests = 1 /\ e.error = FALSE /\ e.verified = FALSE
  <2>1. life[a].ev.requests = 0 /\ life[a].ev.error = FALSE /\ life[a].ev.verified = FALSE
    BY <1>0, <1>1, <1>3, FreshIs
  <2>2. /\ DOMAIN e = EvKeys /\ e.requests = life[a].ev.requests + 1
        /\ e.error = life[a].ev.error /\ e.verified = life[a].ev.verified
    BY <1>0, <1>1, <1>2, SentIs
  <2> QED BY <2>1, <2>2
<1>5. Known /\ Known' /\ WriterOK(a) => value'[a.path] = Original /\ value[a.path] = Original
  BY <1>3 DEF WriterOK
<1>6. UpdateWrites(a)
  BY <1>1, <1>3 DEF UpdateWrites
<1>7. CASE o = "value" /\ preflight
  <2>1. PICK r : r = Return(a, "preflight_complete_mutation_not_sent", e)
    OBVIOUS
  <2>2. PICK l : l = [r EXCEPT !.restore = value[a.path]]
    OBVIOUS
  <2>3. DOMAIN r = LifeKeys /\ r.pc = "judge" /\ DOMAIN r.ev = EvKeys /\ r.ev.requests = 1
    BY <1>0, <1>1, <1>4, <2>1, ReturnIs
  <2>4. DOMAIN l = LifeKeys /\ l.pc = "judge" /\ DOMAIN l.ev = EvKeys /\ l.ev.requests = 1
    BY <2>2, <2>3 DEF LifeKeys
  <2>5. Go(a, l)
    BY <1>3, <1>7, <2>1, <2>2 DEF ReadOutcomes
  <2>6. UpdateGoes(l) /\ UpdateLeaves(a, l)
    BY <1>5, <2>4 DEF UpdateCap, UpdateGoes, UpdateLeaves
  <2> QED BY <1>6, <2>5, <2>6, UpdateSteps
<1>8. CASE o = "value" /\ ~preflight
  <2>1. PICK r : r = Then(a, "mutate", e)
    OBVIOUS
  <2>2. PICK l : l = [r EXCEPT !.restore = value[a.path]]
    OBVIOUS
  <2>3. DOMAIN r = LifeKeys /\ r.pc = "mutate" /\ r.ev = e
    BY <1>0, <1>1, <2>1, ThenIs
  <2>4. DOMAIN l = LifeKeys /\ l.pc = "mutate" /\ l.ev = e /\ l.restore = value[a.path]
    BY <2>2, <2>3 DEF LifeKeys
  <2>5. Go(a, l)
    BY <1>3, <1>8, <2>1, <2>2
  <2>6. preflight = FALSE /\ l.restore \in Values
    BY <1>1, <1>8, <2>4
  <2>7. UpdateGoes(l) /\ UpdateLeaves(a, l)
    BY <1>4, <1>5, <2>4, <2>6 DEF UpdateCap, UpdateGoes, UpdateLeaves
  <2> QED BY <1>6, <2>5, <2>7, UpdateSteps
<1>9. CASE o # "value"
  <2>1. PICK f \in {e, [e EXCEPT !.error = TRUE]},
             gap \in {"unique_restore_payload_unavailable", "before_readback_unavailable"} :
             Go(a, Return(a, gap, f))
    BY <1>3, <1>9 DEF ReadOutcomes
  <2>2. DOMAIN f = EvKeys /\ f.requests = 1
    BY <1>4 DEF EvKeys
  <2>3. PICK l : l = Return(a, gap, f)
    OBVIOUS
  <2>4. DOMAIN l = LifeKeys /\ l.pc = "judge" /\ DOMAIN l.ev = EvKeys /\ l.ev.requests = 1
    BY <1>0, <1>1, <2>2, <2>3, ReturnIs
  <2>6. UpdateGoes(l) /\ UpdateLeaves(a, l)
    BY <1>5, <2>4 DEF UpdateCap, UpdateGoes, UpdateLeaves
  <2>7. Go(a, l)
    BY <2>1, <2>3
  <2> QED BY <1>6, <2>6, <2>7, UpdateSteps
<1> QED BY <1>7, <1>8, <1>9

LEMMA MutateKeeps == ASSUME MutInv, UNCHANGED preflight, NEW a \in Candidates, Mutate(a) PROVE MutInv'
<1>1. LifeOK(a) /\ ServiceTypes
  BY DEF MutInv
<1>2. PICK e : e = Sent(a)
  OBVIOUS
<1>3. PICK o \in WriteOutcomes :
        /\ life[a].pc = "mutate" /\ Account(o)
        /\ value' = IF o[1] THEN [value EXCEPT ![a.path] = Body(a)] ELSE value
        /\ Go(a, IF o[2] = "ok" THEN Then(a, "after", [e EXCEPT !.accepted = TRUE])
                 ELSE Return(a, "mutation_not_accepted", [e EXCEPT !.error = (o[2] = "lost")]))
        /\ UNCHANGED <<created, result, nextId, crashes>>
  BY <1>2 DEF Mutate
<1>4. a \in Updates /\ a.path \in Paths /\ UpdateOK(a)
  BY <1>1, <1>3 DEF LifeOK, CreateOK, Paths
<1>5. UpdateWrites(a)
  <2>1. lost' \in 0..MaxLost /\ (lost' = lost \/ lost' = lost + 1)
    BY <1>1, <1>3, AccountIs DEF ServiceTypes
  <2>2. Body(a) \in Values /\ value \in [Paths -> Values]
    BY <1>1, <1>4 DEF Values, ServiceTypes
  <2>3. value' \in [Paths -> Values] /\ \A p \in Paths : value'[p] # value[p] => p = a.path
    BY <1>3, <1>4, <2>2
  <2> QED BY <1>3, <2>1, <2>3 DEF UpdateWrites
<1>6. Known /\ Known' => o[1] = FALSE \/ o[2] = "ok"
  BY <1>3 DEF Known, Account, WriteOutcomes
<1>7. /\ DOMAIN e = EvKeys /\ e.requests \in Nat /\ e.requests <= 2 /\ e.error = FALSE /\ e.verified = FALSE
  <2>1. life[a].ev.requests <= 1 /\ life[a].ev.error = FALSE /\ life[a].ev.verified = FALSE
    BY <1>3, <1>4 DEF UpdateOK, UpdateCap
  <2>2. /\ DOMAIN e = EvKeys /\ e.requests = life[a].ev.requests + 1 /\ e.requests \in Nat
        /\ e.error = life[a].ev.error /\ e.verified = life[a].ev.verified
    BY <1>1, <1>2, SentIs
  <2>3. life[a].ev.requests \in Nat
    BY <1>1 DEF LifeOK
  <2> QED BY <2>1, <2>2, <2>3
<1>8. life[a].restore \in Values /\ preflight = FALSE
  BY <1>3, <1>4 DEF UpdateOK
<1>9. CASE o[2] = "ok"
  <2>1. PICK f : f = [e EXCEPT !.accepted = TRUE]
    OBVIOUS
  <2>2. DOMAIN f = EvKeys /\ f.requests = e.requests /\ f.error = FALSE /\ f.verified = FALSE
    BY <1>7, <2>1 DEF EvKeys
  <2>3. PICK l : l = Then(a, "after", f)
    OBVIOUS
  <2>4. DOMAIN l = LifeKeys /\ l.pc = "after" /\ l.ev = f /\ l.restore = life[a].restore
    BY <1>1, <2>3, ThenIs
  <2>5. Go(a, l)
    BY <1>3, <1>9, <2>1, <2>3
  <2>6. UpdateGoes(l)
    BY <1>7, <1>8, <2>2, <2>4 DEF UpdateCap, UpdateGoes
  <2>7. UpdateLeaves(a, l)
    BY <1>3, <2>4 DEF UpdateLeaves, WriterOK
  <2> QED BY <1>4, <1>5, <2>5, <2>6, <2>7, UpdateSteps
<1>10. CASE o[2] # "ok"
  <2>1. PICK f : f = [e EXCEPT !.error = (o[2] = "lost")]
    OBVIOUS
  <2>2. DOMAIN f = EvKeys /\ f.requests = e.requests
    BY <1>7, <2>1 DEF EvKeys
  <2>3. PICK l : l = Return(a, "mutation_not_accepted", f)
    OBVIOUS
  <2>4. DOMAIN l = LifeKeys /\ l.pc = "judge" /\ DOMAIN l.ev = EvKeys /\ l.ev.requests = e.requests
    BY <1>1, <2>2, <2>3, ReturnIs
  <2>5. Go(a, l)
    BY <1>3, <1>10, <2>1, <2>3
  <2>6. UpdateGoes(l)
    BY <1>7, <2>4 DEF UpdateCap, UpdateGoes
  <2>7. Known /\ Known' => value' = value
    BY <1>3, <1>6, <1>10
  <2>8. UpdateLeaves(a, l)
    BY <1>3, <2>4, <2>7 DEF UpdateLeaves, WriterOK
  <2> QED BY <1>4, <1>5, <2>5, <2>6, <2>8, UpdateSteps
<1> QED BY <1>9, <1>10

LEMMA ReadAfterKeeps == ASSUME MutInv, UNCHANGED preflight, NEW a \in Candidates, ReadAfter(a) PROVE MutInv'
<1>1. LifeOK(a) /\ ServiceTypes
  BY DEF MutInv
<1>2. PICK e : e = Sent(a)
  OBVIOUS
<1>3. PICK b : /\ life[a].pc = "after" /\ a \in Updates
               /\ Go(a, Then(a, "restore", [e EXCEPT !.effect = b]))
               /\ UNCHANGED <<value, created, result, nextId, lost, crashes>>
  BY <1>2 DEF ReadAfter
<1>4. a \in Updates /\ a.path \in Paths /\ UpdateOK(a)
  BY <1>1, <1>3 DEF LifeOK, Paths
<1>5. UpdateWrites(a)
  BY <1>1, <1>3 DEF UpdateWrites, ServiceTypes
<1>7. /\ DOMAIN e = EvKeys /\ e.requests \in Nat /\ e.requests <= 3 /\ e.error = FALSE /\ e.verified = FALSE
  <2>1. life[a].ev.requests <= 2 /\ life[a].ev.error = FALSE /\ life[a].ev.verified = FALSE
    BY <1>3, <1>4 DEF UpdateOK, UpdateCap
  <2>2. /\ DOMAIN e = EvKeys /\ e.requests = life[a].ev.requests + 1 /\ e.requests \in Nat
        /\ e.error = life[a].ev.error /\ e.verified = life[a].ev.verified
    BY <1>1, <1>2, SentIs
  <2>3. life[a].ev.requests \in Nat
    BY <1>1 DEF LifeOK
  <2> QED BY <2>1, <2>2, <2>3
<1>8. life[a].restore \in Values /\ preflight = FALSE
  BY <1>3, <1>4 DEF UpdateOK
<1>9. PICK f : f = [e EXCEPT !.effect = b]
  OBVIOUS
<1>10. DOMAIN f = EvKeys /\ f.requests = e.requests /\ f.error = FALSE /\ f.verified = FALSE
  BY <1>7, <1>9 DEF EvKeys
<1>11. PICK l : l = Then(a, "restore", f)
  OBVIOUS
<1>12. DOMAIN l = LifeKeys /\ l.pc = "restore" /\ l.ev = f /\ l.restore = life[a].restore
  BY <1>1, <1>11, ThenIs
<1>13. UpdateGoes(l)
  BY <1>7, <1>8, <1>10, <1>12 DEF UpdateCap, UpdateGoes
<1>14. UpdateLeaves(a, l)
  BY <1>3, <1>12 DEF UpdateLeaves, WriterOK
<1> QED BY <1>3, <1>5, <1>9, <1>11, <1>13, <1>14, UpdateSteps

LEMMA RestoreKeeps == ASSUME MutInv, UNCHANGED preflight, NEW a \in Candidates, Restore(a) PROVE MutInv'
<1>1. LifeOK(a) /\ ServiceTypes
  BY DEF MutInv
<1>2. PICK e : e = [Sent(a) EXCEPT !.cleanup = TRUE]
  OBVIOUS
<1>3. PICK o \in WriteOutcomes :
        /\ life[a].pc = "restore" /\ Account(o)
        /\ value' = IF o[1] THEN [value EXCEPT ![a.path] = life[a].restore] ELSE value
        /\ Go(a, IF o[2] = "ok" THEN Then(a, "final", e) ELSE Return(a, "restore_request_failed", e))
        /\ UNCHANGED <<created, result, nextId, crashes>>
  BY <1>2 DEF Restore
<1>4. a \in Updates /\ a.path \in Paths /\ UpdateOK(a)
  BY <1>1, <1>3 DEF LifeOK, CreateOK, Paths
<1>5. life[a].restore \in Values /\ preflight = FALSE
  BY <1>3, <1>4 DEF UpdateOK
<1>6. UpdateWrites(a)
  <2>1. lost' \in 0..MaxLost /\ (lost' = lost \/ lost' = lost + 1)
    BY <1>1, <1>3, AccountIs DEF ServiceTypes
  <2>2. value' \in [Paths -> Values] /\ \A p \in Paths : value'[p] # value[p] => p = a.path
    BY <1>1, <1>3, <1>4, <1>5 DEF ServiceTypes
  <2> QED BY <1>3, <2>1, <2>2 DEF UpdateWrites
<1>7. /\ DOMAIN e = EvKeys /\ e.requests \in Nat /\ e.requests <= 4 /\ e.error = FALSE /\ e.verified = FALSE
      /\ e.cleanup = TRUE
  <2>1. life[a].ev.requests <= 3 /\ life[a].ev.error = FALSE /\ life[a].ev.verified = FALSE
    BY <1>3, <1>4 DEF UpdateOK, UpdateCap
  <2>2. PICK f : f = Sent(a)
    OBVIOUS
  <2>3. /\ DOMAIN f = EvKeys /\ f.requests = life[a].ev.requests + 1 /\ f.requests \in Nat
        /\ f.error = life[a].ev.error /\ f.verified = life[a].ev.verified
    BY <1>1, <2>2, SentIs
  <2>4. life[a].ev.requests \in Nat
    BY <1>1 DEF LifeOK
  <2>5. /\ DOMAIN e = EvKeys /\ e.requests = f.requests /\ e.error = f.error /\ e.verified = f.verified
        /\ e.cleanup = TRUE
    BY <1>2, <2>2, <2>3 DEF EvKeys
  <2> QED BY <2>1, <2>3, <2>4, <2>5
<1>8. CASE o[2] = "ok"
  <2>1. PICK l : l = Then(a, "final", e)
    OBVIOUS
  <2>2. DOMAIN l = LifeKeys /\ l.pc = "final" /\ l.ev = e /\ l.restore = life[a].restore
    BY <1>1, <2>1, ThenIs
  <2>3. Go(a, l)
    BY <1>3, <1>8, <2>1
  <2>4. UpdateGoes(l)
    BY <1>5, <1>7, <2>2 DEF UpdateCap, UpdateGoes
  <2>5. UpdateLeaves(a, l)
    BY <1>3, <2>2 DEF UpdateLeaves, WriterOK
  <2> QED BY <1>4, <1>6, <2>3, <2>4, <2>5, UpdateSteps
<1>9. CASE o[2] # "ok"
  <2>1. PICK l : l = Return(a, "restore_request_failed", e)
    OBVIOUS
  <2>2. /\ DOMAIN l = LifeKeys /\ l.pc = "judge" /\ DOMAIN l.ev = EvKeys /\ l.ev.requests = e.requests
        /\ l.ev.gap = "restore_request_failed" /\ l.ev.error = FALSE /\ l.ev.verified = FALSE /\ l.ev.cleanup = TRUE
    BY <1>1, <1>7, <2>1, ReturnIs
  <2>3. Go(a, l)
    BY <1>3, <1>9, <2>1
  <2>4. UpdateGoes(l)
    BY <1>7, <2>2 DEF UpdateCap, UpdateGoes
  <2>5. PICK v : v = l.ev
    OBVIOUS
  <2>6. Verdict(v) = "need_review"
    BY <2>2, <2>5, UnverifiedIsReviewed
  <2>7. UpdateLeaves(a, l)
    BY <2>2, <2>5, <2>6 DEF UpdateLeaves
  <2> QED BY <1>4, <1>6, <2>3, <2>4, <2>7, UpdateSteps
<1> QED BY <1>8, <1>9

LEMMA ReadFinalKeeps == ASSUME MutInv, UNCHANGED preflight, NEW a \in Candidates, ReadFinal(a) PROVE MutInv'
<1>1. LifeOK(a) /\ ServiceTypes
  BY DEF MutInv
<1>2. PICK ok \in BOOLEAN :
        /\ ok => value[a.path] = life[a].restore
        /\ life[a].pc = "final" /\ a \in Updates
        /\ Go(a, Return(a, IF ok THEN "" ELSE "restore_readback_mismatch", [Sent(a) EXCEPT !.verified = ok]))
        /\ UNCHANGED <<value, created, result, nextId, lost, crashes>>
  BY DEF ReadFinal
<1>3. a.path \in Paths /\ UpdateOK(a)
  BY <1>1, <1>2 DEF LifeOK, Paths
<1>4. UpdateWrites(a)
  BY <1>1, <1>2 DEF UpdateWrites, ServiceTypes
<1>5. PICK e : e = [Sent(a) EXCEPT !.verified = ok]
  OBVIOUS
<1>6. /\ DOMAIN e = EvKeys /\ e.requests \in Nat /\ e.requests <= 5 /\ e.error = FALSE /\ e.verified = ok
      /\ e.cleanup = TRUE
  <2>1. life[a].ev.requests <= 4 /\ life[a].ev.error = FALSE /\ life[a].ev.cleanup = TRUE
    BY <1>2, <1>3 DEF UpdateOK, UpdateCap
  <2>2. PICK f : f = Sent(a)
    OBVIOUS
  <2>3. /\ DOMAIN f = EvKeys /\ f.requests = life[a].ev.requests + 1 /\ f.requests \in Nat
        /\ f.error = life[a].ev.error /\ f.cleanup = life[a].ev.cleanup
    BY <1>1, <2>2, SentIs
  <2>4. life[a].ev.requests \in Nat
    BY <1>1 DEF LifeOK
  <2>5. /\ DOMAIN e = EvKeys /\ e.requests = f.requests /\ e.error = f.error /\ e.verified = ok
        /\ e.cleanup = f.cleanup
    BY <1>5, <2>2, <2>3 DEF EvKeys
  <2> QED BY <2>1, <2>3, <2>4, <2>5
<1>7. PICK g : g = IF ok THEN "" ELSE "restore_readback_mismatch"
  OBVIOUS
<1>8. PICK l : l = Return(a, g, e)
  OBVIOUS
<1>9. /\ DOMAIN l = LifeKeys /\ l.pc = "judge" /\ DOMAIN l.ev = EvKeys /\ l.ev.requests = e.requests
      /\ l.ev.gap = g /\ l.ev.error = FALSE /\ l.ev.verified = ok /\ l.ev.cleanup = TRUE
  BY <1>1, <1>6, <1>8, ReturnIs
<1>10. Go(a, l)
  BY <1>2, <1>5, <1>7, <1>8
<1>11. UpdateGoes(l)
  BY <1>6, <1>9 DEF UpdateCap, UpdateGoes
<1>12. UpdateLeaves(a, l)
  <2>1. CASE ok = TRUE
    BY <1>2, <1>9, <2>1 DEF UpdateLeaves, WriterOK
  <2>2. CASE ok = FALSE
    <3>1. PICK v : v = l.ev
      OBVIOUS
    <3>2. Verdict(v) = "need_review"
      BY <1>7, <1>9, <2>2, <3>1, UnverifiedIsReviewed
    <3> QED BY <1>9, <3>1, <3>2 DEF UpdateLeaves
  <2> QED BY <2>1, <2>2
<1> QED BY <1>2, <1>4, <1>10, <1>11, <1>12, UpdateSteps

-----------------------------------------------------------------------------
(* The steps of a create.                                                  *)

LEMMA CreateKeeps == ASSUME MutInv, UNCHANGED preflight, NEW a \in Creates, Create(a) PROVE MutInv'
<1>0. a \in Candidates
  BY DEF Creates
<1>1. LifeOK(a) /\ ServiceTypes
  BY <1>0 DEF MutInv
<1>2. PICK e : e = Sent(a)
  OBVIOUS
<1>3. PICK t : t = [e EXCEPT !.accepted = TRUE]
  OBVIOUS
<1>4. PICK o \in WriteOutcomes, named \in BOOLEAN :
        /\ life[a].pc = "start" /\ Account(o)
        /\ created' = IF o[1] THEN created \cup {nextId} ELSE created
        /\ nextId' = IF o[1] THEN nextId + 1 ELSE nextId
        /\ named => o[1]
        /\ Go(a, CASE o[2] # "ok" ->
                        Return(a, "mutation_not_accepted", [e EXCEPT !.error = (o[2] = "lost")])
                   [] o[2] = "ok" /\ ~named ->
                        Return(a, "created_id_unavailable_cleanup_not_possible", t)
                   [] o[2] = "ok" /\ named -> [Then(a, "after", t) EXCEPT !.id = nextId])
        /\ UNCHANGED <<value, result, crashes>>
  BY <1>2, <1>3 DEF Create
<1>5. nextId \in Nat \ {0} /\ created \subseteq 1..(nextId - 1)
  BY <1>1 DEF ServiceTypes
<1>7. CreateWrites
  <2>1. lost' \in 0..MaxLost /\ (lost' = lost \/ lost' = lost + 1)
    BY <1>1, <1>4, AccountIs DEF ServiceTypes
  <2>2. CASE o[1]
    BY <1>4, <2>1, <2>2 DEF CreateWrites
  <2>3. CASE ~o[1]
    BY <1>4, <2>1, <2>3 DEF CreateWrites
  <2> QED BY <2>2, <2>3
<1>8. /\ DOMAIN e = EvKeys /\ e.requests = 1 /\ e.error = FALSE /\ e.verified = FALSE
  <2>1. life[a].ev.requests = 0 /\ life[a].ev.error = FALSE /\ life[a].ev.verified = FALSE
    BY <1>0, <1>1, <1>4, FreshIs
  <2>2. /\ DOMAIN e = EvKeys /\ e.requests = life[a].ev.requests + 1
        /\ e.error = life[a].ev.error /\ e.verified = life[a].ev.verified
    BY <1>0, <1>1, <1>2, SentIs
  <2> QED BY <2>1, <2>2
<1>9. DOMAIN t = EvKeys /\ t.requests = 1 /\ t.error = FALSE /\ t.verified = FALSE
  BY <1>3, <1>8 DEF EvKeys
<1>10. Known /\ Known' => o[1] = FALSE \/ o[2] = "ok"
  BY <1>4 DEF Known, Account, WriteOutcomes
<1>11. \A i : ~Keeps(a, i)
  BY <1>4 DEF Keeps
<1>12. CASE o[2] # "ok"
  <2>1. PICK f : f = [e EXCEPT !.error = (o[2] = "lost")]
    OBVIOUS
  <2>2. DOMAIN f = EvKeys /\ f.requests = 1 /\ f.verified = FALSE
    BY <1>8, <2>1 DEF EvKeys
  <2>3. PICK l : l = Return(a, "mutation_not_accepted", f)
    OBVIOUS
  <2>4. DOMAIN l = LifeKeys /\ l.pc = "judge" /\ DOMAIN l.ev = EvKeys /\ l.ev.requests = 1 /\ l.ev.verified = FALSE
    BY <1>0, <1>1, <2>2, <2>3, ReturnIs
  <2>5. Go(a, l)
    BY <1>4, <1>12, <2>1, <2>3
  <2>6. l.ev.requests <= CreateCap(l.pc) /\ l.ev.requests \in Nat
    BY <2>4 DEF CreateCap
  <2>7. CreateGoes(l)
    BY <2>4, <2>6 DEF CreateGoes
  <2>8. CreateLeaves(a, l)
    BY <1>4, <1>10, <1>11, <1>12 DEF CreateLeaves
  <2> QED BY <1>7, <2>5, <2>7, <2>8, CreateSteps
<1>13. CASE o[2] = "ok" /\ ~named
  <2>1. PICK l : l = Return(a, "created_id_unavailable_cleanup_not_possible", t)
    OBVIOUS
  <2>2. /\ DOMAIN l = LifeKeys /\ l.pc = "judge" /\ DOMAIN l.ev = EvKeys /\ l.ev.requests = 1 /\ l.ev.verified = FALSE
        /\ l.ev.error = FALSE /\ l.ev.gap = "created_id_unavailable_cleanup_not_possible"
    BY <1>0, <1>1, <1>9, <2>1, ReturnIs
  <2>3. Go(a, l)
    BY <1>4, <1>13, <2>1
  <2>4. l.ev.requests <= CreateCap(l.pc) /\ l.ev.requests \in Nat
    BY <2>2 DEF CreateCap
  <2>5. CreateGoes(l)
    BY <2>2, <2>4 DEF CreateGoes
  <2>6. PICK v : v = l.ev
    OBVIOUS
  <2>7. Verdict(v) = "need_review"
    BY <2>2, <2>6, UnverifiedIsReviewed
  <2>8. CreateLeaves(a, l)
    BY <2>2, <2>6, <2>7 DEF CreateLeaves
  <2> QED BY <1>7, <2>3, <2>5, <2>8, CreateSteps
<1>14. CASE o[2] = "ok" /\ named
  <2>1. PICK r : r = Then(a, "after", t)
    OBVIOUS
  <2>2. PICK l : l = [r EXCEPT !.id = nextId]
    OBVIOUS
  <2>3. DOMAIN r = LifeKeys /\ r.pc = "after" /\ r.ev = t
    BY <1>0, <1>1, <2>1, ThenIs
  <2>4. DOMAIN l = LifeKeys /\ l.pc = "after" /\ l.ev = t /\ l.id = nextId
    BY <2>2, <2>3 DEF LifeKeys
  <2>5. Go(a, l)
    BY <1>4, <1>14, <2>1, <2>2
  <2>6. l.ev.requests <= CreateCap(l.pc) /\ l.ev.requests \in Nat
    BY <1>9, <2>4 DEF CreateCap
  <2>7. nextId' = nextId + 1 /\ created' \subseteq created \cup {nextId}
    BY <1>4, <1>14
  <2>8. l.id \in 1..(nextId' - 1)
    BY <1>5, <2>4, <2>7
  <2>9. CreateGoes(l)
    BY <1>9, <2>4, <2>6, <2>8 DEF CreateGoes
  <2>10. CreateLeaves(a, l)
    BY <1>11, <2>4, <2>7 DEF CreateLeaves
  <2> QED BY <1>7, <2>5, <2>9, <2>10, CreateSteps
<1> QED BY <1>12, <1>13, <1>14

LEMMA ReadCreatedKeeps == ASSUME MutInv, UNCHANGED preflight, NEW a \in Candidates, ReadCreated(a) PROVE MutInv'
<1>1. LifeOK(a) /\ ServiceTypes
  BY DEF MutInv
<1>2. PICK e : e = Sent(a)
  OBVIOUS
<1>3. PICK b : /\ life[a].pc = "after" /\ a \in Creates
               /\ Go(a, Then(a, "delete", [e EXCEPT !.effect = b]))
               /\ UNCHANGED <<value, created, result, nextId, lost, crashes>>
  BY <1>2 DEF ReadCreated
<1>4. CreateOK(a)
  BY <1>1, <1>3 DEF LifeOK, Creates
<1>5. CreateWrites
  BY <1>1, <1>3 DEF CreateWrites, ServiceTypes
<1>6. /\ DOMAIN e = EvKeys /\ e.requests \in Nat /\ e.requests <= 2 /\ e.error = FALSE /\ e.verified = FALSE
  <2>1. life[a].ev.requests <= 1 /\ life[a].ev.error = FALSE /\ life[a].ev.verified = FALSE
    BY <1>3, <1>4 DEF CreateOK, CreateCap
  <2>2. /\ DOMAIN e = EvKeys /\ e.requests = life[a].ev.requests + 1 /\ e.requests \in Nat
        /\ e.error = life[a].ev.error /\ e.verified = life[a].ev.verified
    BY <1>1, <1>2, SentIs
  <2>3. life[a].ev.requests \in Nat
    BY <1>1 DEF LifeOK
  <2> QED BY <2>1, <2>2, <2>3
<1>7. PICK f : f = [e EXCEPT !.effect = b]
  OBVIOUS
<1>8. DOMAIN f = EvKeys /\ f.requests = e.requests /\ f.error = FALSE /\ f.verified = FALSE
  BY <1>6, <1>7 DEF EvKeys
<1>9. PICK l : l = Then(a, "delete", f)
  OBVIOUS
<1>10. DOMAIN l = LifeKeys /\ l.pc = "delete" /\ l.ev = f /\ l.id = life[a].id
  BY <1>1, <1>9, ThenIs
<1>11. l.ev.requests <= CreateCap(l.pc) /\ l.ev.requests \in Nat
  BY <1>6, <1>8, <1>10 DEF CreateCap
<1>12. l.id \in 1..(nextId' - 1)
  BY <1>3, <1>4, <1>10 DEF CreateOK
<1>13. CreateGoes(l)
  BY <1>8, <1>10, <1>11, <1>12 DEF CreateGoes
<1>14. CreateLeaves(a, l)
  BY <1>3, <1>10 DEF CreateLeaves, Keeps
<1> QED BY <1>3, <1>5, <1>7, <1>9, <1>13, <1>14, CreateSteps

LEMMA DeleteKeeps == ASSUME MutInv, UNCHANGED preflight, NEW a \in Candidates, Delete(a) PROVE MutInv'
<1>1. LifeOK(a) /\ ServiceTypes
  BY DEF MutInv
<1>2. PICK e : e = Sent(a)
  OBVIOUS
<1>3. PICK o \in WriteOutcomes :
        /\ life[a].pc = "delete" /\ Account(o)
        /\ created' = IF o[1] THEN created \ {life[a].id} ELSE created
        /\ Go(a, Then(a, "final", [e EXCEPT !.cleanup = TRUE, !.cleaned = (o[2] = "ok")]))
        /\ UNCHANGED <<value, result, nextId, crashes>>
  BY <1>2 DEF Delete
<1>4. CreateOK(a) /\ a \in Creates
  BY <1>1, <1>3 DEF LifeOK, Creates, UpdateOK
<1>5. CreateWrites
  <2>1. lost' \in 0..MaxLost /\ (lost' = lost \/ lost' = lost + 1)
    BY <1>1, <1>3, AccountIs DEF ServiceTypes
  <2> QED BY <1>3, <2>1 DEF CreateWrites
<1>6. /\ DOMAIN e = EvKeys /\ e.requests \in Nat /\ e.requests <= 3 /\ e.error = FALSE /\ e.verified = FALSE
  <2>1. life[a].ev.requests <= 2 /\ life[a].ev.error = FALSE /\ life[a].ev.verified = FALSE
    BY <1>3, <1>4 DEF CreateOK, CreateCap
  <2>2. /\ DOMAIN e = EvKeys /\ e.requests = life[a].ev.requests + 1 /\ e.requests \in Nat
        /\ e.error = life[a].ev.error /\ e.verified = life[a].ev.verified
    BY <1>1, <1>2, SentIs
  <2>3. life[a].ev.requests \in Nat
    BY <1>1 DEF LifeOK
  <2> QED BY <2>1, <2>2, <2>3
<1>7. PICK f : f = [e EXCEPT !.cleanup = TRUE, !.cleaned = (o[2] = "ok")]
  OBVIOUS
<1>8. DOMAIN f = EvKeys /\ f.requests = e.requests /\ f.error = FALSE /\ f.verified = FALSE /\ f.cleanup = TRUE
  BY <1>6, <1>7 DEF EvKeys
<1>9. PICK l : l = Then(a, "final", f)
  OBVIOUS
<1>10. DOMAIN l = LifeKeys /\ l.pc = "final" /\ l.ev = f /\ l.id = life[a].id
  BY <1>1, <1>9, ThenIs
<1>11. l.ev.requests <= CreateCap(l.pc) /\ l.ev.requests \in Nat
  BY <1>6, <1>8, <1>10 DEF CreateCap
<1>12. l.id \in 1..(nextId' - 1)
  BY <1>3, <1>4, <1>10 DEF CreateOK
<1>13. CreateGoes(l)
  BY <1>8, <1>10, <1>11, <1>12 DEF CreateGoes
<1>14. CreateLeaves(a, l)
  BY <1>3, <1>10 DEF CreateLeaves, Keeps
<1> QED BY <1>3, <1>4, <1>5, <1>7, <1>9, <1>13, <1>14, CreateSteps

\* Only a resource that is seen to be gone counts as cleaned up.
LEMMA ReadDeletedKeeps == ASSUME MutInv, UNCHANGED preflight, NEW a \in Candidates, ReadDeleted(a) PROVE MutInv'
<1>1. LifeOK(a) /\ ServiceTypes
  BY DEF MutInv
<1>2. PICK o \in Seen(a), ok \in BOOLEAN :
        /\ ok = (life[a].ev.cleaned /\ o = "gone")
        /\ life[a].pc = "final" /\ a \in Creates
        /\ Go(a, Return(a, IF ok THEN "" ELSE "delete_cleanup_unverified", [Sent(a) EXCEPT !.verified = ok]))
        /\ UNCHANGED <<value, created, result, nextId, lost, crashes>>
  BY DEF ReadDeleted
<1>3. ok = FALSE \/ (ok = TRUE /\ o = "gone")
  BY <1>2
<1>4. CreateOK(a)
  BY <1>1, <1>2 DEF LifeOK, Creates
<1>5. CreateWrites
  BY <1>1, <1>2 DEF CreateWrites, ServiceTypes
<1>6. PICK e : e = [Sent(a) EXCEPT !.verified = ok]
  OBVIOUS
<1>7. /\ DOMAIN e = EvKeys /\ e.requests \in Nat /\ e.requests <= 4 /\ e.error = FALSE /\ e.verified = ok
      /\ e.cleanup = TRUE
  <2>1. life[a].ev.requests <= 3 /\ life[a].ev.error = FALSE /\ life[a].ev.cleanup = TRUE
    BY <1>2, <1>4 DEF CreateOK, CreateCap
  <2>2. PICK f : f = Sent(a)
    OBVIOUS
  <2>3. /\ DOMAIN f = EvKeys /\ f.requests = life[a].ev.requests + 1 /\ f.requests \in Nat
        /\ f.error = life[a].ev.error /\ f.cleanup = life[a].ev.cleanup
    BY <1>1, <2>2, SentIs
  <2>4. life[a].ev.requests \in Nat
    BY <1>1 DEF LifeOK
  <2>5. /\ DOMAIN e = EvKeys /\ e.requests = f.requests /\ e.error = f.error /\ e.verified = ok
        /\ e.cleanup = f.cleanup
    BY <1>6, <2>2, <2>3 DEF EvKeys
  <2> QED BY <2>1, <2>3, <2>4, <2>5
<1>8. PICK g : g = IF ok THEN "" ELSE "delete_cleanup_unverified"
  OBVIOUS
<1>9. PICK l : l = Return(a, g, e)
  OBVIOUS
<1>10. /\ DOMAIN l = LifeKeys /\ l.pc = "judge" /\ DOMAIN l.ev = EvKeys /\ l.ev.requests = e.requests
       /\ l.ev.gap = g /\ l.ev.error = FALSE /\ l.ev.verified = ok /\ l.ev.cleanup = TRUE /\ l.id = life[a].id
  BY <1>1, <1>7, <1>9, ReturnIs
<1>11. Go(a, l)
  BY <1>2, <1>6, <1>8, <1>9
<1>12. l.ev.requests <= CreateCap(l.pc) /\ l.ev.requests \in Nat
  BY <1>7, <1>10 DEF CreateCap
<1>13. life[a].id \in 1..(nextId' - 1)
  BY <1>2, <1>4 DEF CreateOK
<1>14. o = "gone" => life[a].id \notin created'
  BY <1>2 DEF Seen
<1>15. CreateGoes(l)
  BY <1>3, <1>10, <1>12, <1>13, <1>14 DEF CreateGoes
<1>16. CreateLeaves(a, l)
  <2>1. CASE ok = TRUE
    <3>1. \A i \in created' : i \in created /\ ~Keeps(a, i)
      BY <1>2, <1>3, <1>14, <2>1 DEF Keeps
    <3> QED BY <3>1 DEF CreateLeaves
  <2>2. CASE ok = FALSE
    <3>1. PICK v : v = l.ev
      OBVIOUS
    <3>2. Verdict(v) = "need_review"
      BY <1>8, <1>10, <2>2, <3>1, UnverifiedIsReviewed
    <3> QED BY <1>10, <3>1, <3>2 DEF CreateLeaves
  <2> QED BY <1>3, <2>1, <2>2
<1> QED BY <1>2, <1>5, <1>11, <1>15, <1>16, CreateSteps

-----------------------------------------------------------------------------
(* The verdict, and a lost worker.                                         *)

LEMMA RecordKeeps == ASSUME MutInv, UNCHANGED preflight, NEW a \in Candidates, Record(a) PROVE MutInv'
<1>1. LifeOK(a) /\ ServiceTypes
  BY DEF MutInv
<1>2. PICK l : l = [life[a] EXCEPT !.pc = "done"]
  OBVIOUS
<1>3. PICK v : v = Verdict(life[a].ev)
  OBVIOUS
<1>4. PICK r : r = [verdict |-> v, ev |-> life[a].ev]
  OBVIOUS
<1>5. /\ life[a].pc = "judge" /\ Go(a, l) /\ result' = [result EXCEPT ![a] = r]
      /\ UNCHANGED <<value, created, nextId, lost, crashes>>
  BY <1>2, <1>3, <1>4 DEF Record
<1>6. DOMAIN l = LifeKeys /\ l.pc = "done" /\ l.ev = life[a].ev /\ l.id = life[a].id
  BY <1>1, <1>2 DEF LifeOK, LifeKeys
<1>7. v \in {"error", "need_review", "not_evaluable"}
  BY <1>3 DEF Verdict
<1>8. /\ life'[a] = l /\ result'[a] = r /\ r.verdict = v
      /\ DOMAIN result' = Candidates /\ \A b \in Candidates \ {a} : result'[b] = result[b]
  BY <1>1, <1>4, <1>5 DEF ServiceTypes, Go
<1>9. LifeOK(a)'
  <2>1. a \in Updates => UpdateOK(a)'
    BY <1>1, <1>5, <1>6, <1>8 DEF LifeOK, UpdateOK, UpdateCap
  <2>2. a \notin Updates => CreateOK(a)'
    BY <1>1, <1>5, <1>6, <1>8 DEF LifeOK, CreateOK, CreateCap
  <2>3. /\ DOMAIN l = LifeKeys /\ DOMAIN l.ev = EvKeys /\ l.ev.requests \in Nat /\ l.pc # "start"
    BY <1>1, <1>6 DEF LifeOK
  <2> QED BY <1>7, <1>8, <2>1, <2>2, <2>3, SameCandidates DEF LifeOK
<1>10. Known /\ Known' /\ a \in Updates /\ OneWriter(a.path) => WriterOK(a)'
  <2> SUFFICES ASSUME Known, a \in Updates, OneWriter(a.path) PROVE WriterOK(a)'
    OBVIOUS
  <2>1. WriterOK(a)
    BY DEF MutInv, Residue
  <2> QED BY <1>3, <1>5, <1>6, <1>8, <2>1 DEF WriterOK
<1>11. Known /\ Known' => \A i \in created' :
            (i \notin created \/ \E b \in Creates : b = a /\ Keeps(b, i)) => \E b \in Creates : Keeps(b, i)'
  <2> SUFFICES ASSUME NEW i \in created', a \in Creates, Keeps(a, i) PROVE Keeps(a, i)'
    BY <1>5, SameCandidates
  <2> QED BY <1>3, <1>5, <1>6, <1>8 DEF Keeps
<1>12. /\ value' \in [Paths -> Values] /\ \A p \in Paths : value'[p] # value[p] => a \in Updates /\ p = a.path
       /\ lost' \in 0..MaxLost /\ lost' = lost /\ crashes' = crashes /\ crashes' \in 0..MaxCrashes
       /\ nextId' = nextId /\ created' \subseteq created
  BY <1>1, <1>5 DEF ServiceTypes
<1> QED BY <1>5, <1>8, <1>9, <1>10, <1>11, <1>12, LifeStep

LEMMA CrashKeeps == ASSUME MutInv, UNCHANGED preflight, NEW a \in Candidates, Crash(a) PROVE MutInv'
<1>1. LifeOK(a) /\ ServiceTypes
  BY DEF MutInv
<1>2. PICK fresh : fresh = Fresh
  OBVIOUS
<1>3. DOMAIN fresh = LifeKeys /\ DOMAIN fresh.ev = EvKeys /\ fresh.ev.requests = 0 /\ fresh.pc = "start"
  BY <1>2 DEF Fresh, NoEvidence, LifeKeys, EvKeys
<1>4. /\ Go(a, fresh) /\ crashes < MaxCrashes /\ crashes' = crashes + 1
      /\ UNCHANGED <<value, created, result, nextId, lost>>
  BY <1>2 DEF Crash
<1>5. life'[a] = fresh /\ result'[a] = result[a]
  BY <1>1, <1>4 DEF ServiceTypes, Go
<1>6. LifeOK(a)'
  <2>1. fresh.ev.requests <= UpdateCap(fresh.pc) /\ fresh.ev.requests <= CreateCap(fresh.pc)
    BY <1>3 DEF UpdateCap, CreateCap
  <2>2. UpdateOK(a)'
    BY <1>3, <1>5, <2>1 DEF UpdateOK
  <2>3. CreateOK(a)'
    BY <1>3, <1>5, <2>1 DEF CreateOK
  <2>4. result'[a] = None \/ result'[a].verdict \in {"error", "need_review", "not_evaluable"}
    BY <1>1, <1>5 DEF LifeOK
  <2> QED BY <1>2, <1>3, <1>5, <2>2, <2>3, <2>4, SameCandidates DEF LifeOK
<1>7. ~Known'
  BY <1>1, <1>4 DEF ServiceTypes, Known
<1>8. /\ value' \in [Paths -> Values] /\ \A p \in Paths : value'[p] # value[p] => a \in Updates /\ p = a.path
      /\ lost' \in 0..MaxLost /\ lost' = lost /\ nextId' = nextId /\ created' \subseteq created
      /\ DOMAIN result' = Candidates /\ \A b \in Candidates \ {a} : result'[b] = result[b]
  BY <1>1, <1>4 DEF ServiceTypes
<1>9. crashes' \in 0..MaxCrashes
  <2>1. crashes \in 0..MaxCrashes /\ MaxCrashes \in Nat
    BY <1>1, LifecycleAssumption DEF ServiceTypes
  <2> QED BY <1>4, <2>1
<1> QED BY <1>4, <1>6, <1>7, <1>8, <1>9, LifeStep

\* Every step of every lifecycle keeps the invariant.
LEMMA NextMut == ASSUME MutInv, [Next]_vars PROVE MutInv'
<1>1. CASE UNCHANGED vars
  <2>1. UNCHANGED preflight /\ UNCHANGED <<value, created, life, result, nextId, lost, crashes>>
    BY <1>1 DEF vars
  <2>2. ServiceTypes'
    BY <2>1, SameCandidates DEF MutInv, ServiceTypes
  <2>3. ASSUME NEW a \in Candidates PROVE LifeOK(a)'
    <3>1. LifeOK(a) /\ life'[a] = life[a] /\ result'[a] = result[a]
      BY <2>1 DEF MutInv
    <3>2. (UpdateOK(a) => UpdateOK(a)') /\ (CreateOK(a) => CreateOK(a)')
      BY <2>1, SameCandidates DEF UpdateOK, CreateOK
    <3>3. (a \in Updates)' = (a \in Updates)
      BY <2>1, SameCandidates
    <3> QED BY <3>1, <3>2, <3>3 DEF LifeOK
  <2>4. Residue'
    BY <2>1, SameCandidates DEF MutInv, Residue, WriterOK, Keeps, Known, OneWriter
  <2> QED BY <2>1, <2>2, <2>3, <2>4, SameCandidates DEF MutInv
<1>2. CASE Next
  <2>1. UNCHANGED preflight
    BY <1>2 DEF Next
  <2>2. ASSUME NEW a \in Candidates, Advance(a) PROVE MutInv'
    BY <2>1, <2>2, MutateKeeps, ReadAfterKeeps, RestoreKeeps, ReadFinalKeeps, ReadCreatedKeeps, DeleteKeeps,
       ReadDeletedKeeps, RecordKeeps DEF Advance
  <2>3. ASSUME NEW a \in Candidates, Crash(a) \/ Refuse(a, "synthetic_required_mutation_value") PROVE MutInv'
    BY <2>1, <2>3, CrashKeeps, RefuseKeeps
  <2>4. ASSUME NEW a \in Updates, ReadBefore(a) \/ Refuse(a, "readback_resource_identity_mismatch") PROVE MutInv'
    <3>1. a \in Candidates
      BY DEF Updates
    <3> QED BY <2>1, <2>4, <3>1, ReadBeforeKeeps, RefuseKeeps
  <2>5. ASSUME NEW a \in Creates, Create(a) PROVE MutInv'
    BY <2>1, <2>5, CreateKeeps
  <2> QED BY <1>2, <2>2, <2>3, <2>4, <2>5 DEF Next
<1> QED BY <1>1, <1>2

\* The invariant says what the property does.
LEMMA MutSound == MutInv => UndoSound
<1> SUFFICES ASSUME MutInv PROVE UndoSound
  OBVIOUS
<1>1. ServiceTypes
  BY DEF MutInv
<1>2. TypeOK
  <2>1. ASSUME NEW a \in Candidates
        PROVE  /\ life[a].pc \in {"start", "mutate", "after", "restore", "delete", "final", "judge", "done"}
               /\ life[a].ev.requests \in 0..(IF a \in Updates THEN 5 ELSE 4)
               /\ result[a] # None => result[a].verdict \in {"error", "need_review", "not_evaluable"}
    <3>1. LifeOK(a)
      BY DEF MutInv
    <3>2. CASE a \in Updates
      BY <3>1, <3>2 DEF LifeOK, UpdateOK, UpdateCap
    <3>3. CASE a \notin Updates
      BY <3>1, <3>3 DEF LifeOK, CreateOK, CreateCap
    <3> QED BY <3>2, <3>3
  <2> QED BY <1>1, <2>1 DEF TypeOK, ServiceTypes, Values
<1>3. NoWriteWithoutRestore
  <2>1. ASSUME NEW a \in Updates, life[a].pc \in {"mutate", "after", "restore", "final"}
        PROVE  life[a].restore # None /\ ~preflight
    <3>1. a \in Candidates
      BY DEF Updates
    <3>2. life[a].restore \in Values /\ preflight = FALSE
      BY <2>1, <3>1 DEF MutInv, LifeOK, UpdateOK
    <3>3. None \notin Values
      BY LifecycleAssumption DEF Values, Original, Body, Updates, Candidates
    <3> QED BY <3>2, <3>3
  <2> QED BY <2>1 DEF NoWriteWithoutRestore
<1>4. VerifiedIsGone
  <2>1. ASSUME NEW a \in Creates, life[a].pc \in {"judge", "done"}, life[a].ev.verified
        PROVE  life[a].id \notin created
    <3>1. a \in Candidates /\ a \notin Updates
      BY DEF Creates
    <3>2. CreateOK(a)
      BY <3>1 DEF MutInv, LifeOK
    <3>3. life[a].ev.verified # FALSE
      BY <2>1
    <3> QED BY <2>1, <3>2, <3>3 DEF CreateOK
  <2> QED BY <2>1 DEF VerifiedIsGone
<1>5. KnownResidueIsReviewed
  <2> SUFFICES ASSUME Settled, lost = 0, crashes = 0
               PROVE  /\ \A a \in Updates : OneWriter(a.path) /\ value[a.path] # Original => Reviewed({a})
                      /\ created # {} => Reviewed(Creates)
    BY DEF KnownResidueIsReviewed
  <2>1. Known
    BY DEF Known
  <2>2. ASSUME NEW a \in Updates, OneWriter(a.path), value[a.path] # Original PROVE Reviewed({a})
    <3>1. WriterOK(a) /\ life[a].pc = "done"
      BY <2>1, <2>2 DEF MutInv, Residue, Settled, Updates
    <3> QED BY <2>2, <3>1 DEF WriterOK, Reviewed
  <2>3. ASSUME NEW i \in created PROVE Reviewed(Creates)
    <3>1. PICK a \in Creates : Keeps(a, i)
      BY <2>1 DEF MutInv, Residue
    <3>2. life[a].pc = "done"
      BY DEF Settled, Creates
    <3> QED BY <3>1, <3>2 DEF Keeps, Reviewed
  <2> QED BY <2>2, <2>3
<1> QED BY <1>2, <1>3, <1>4, <1>5 DEF UndoSound

\* For any number of updates and creates on any paths, workers that die and
\* requests whose answer is lost (apifox_mutation_lifecycle.py): an update is sent only
\* after the value to restore was read and never in a preflight, a resource
\* reported as cleaned up is gone, and while no worker died and no answer was lost,
\* what is left behind by all but two writers of one path is on a review list.
THEOREM UndoIsSound == Spec => []UndoSound
<1>1. Spec => []MutInv
  BY InitMut, NextMut, PTL DEF Spec
<1> QED BY <1>1, MutSound, PTL

-----------------------------------------------------------------------------
(* InterfaceChain.  A step is ready when everything it depends on is; what *)
(* a replay captured of the steps behind it is what they answered.         *)

\* Naturals have a least one.
LEMMA NonemptyHasMin ==
    ASSUME NEW S \in SUBSET Nat, S # {}
    PROVE  \E x \in S : \A y \in S : x <= y
<1> DEFINE R == OpToRel(<, Nat)
<1>1. IsWellFoundedOn(R, Nat)
  BY NatLessThanWellFounded
<1>2. \E x \in S : \A y \in S : <<y, x>> \notin R
  <2> HIDE DEF R
  <2> QED
    BY <1>1, WFMin
<1>3. PICK x \in S : \A y \in S : <<y, x>> \notin R
  BY <1>2
<1>4. \A y \in S : ~(y < x)
  BY <1>3 DEF OpToRel
<1> QED
  BY <1>4

\* What resolving a chain adds at a step to the ready ones before it.
Turn(c, captured, failures, k, before) ==
    IF /\ k \notin failures
       /\ DependsOn(c[k]) \subseteq before
       /\ k \in bound
       /\ \A p \in c[k].params : ~Blocks(p, captured)
       /\ PathResolved(c[k], captured)
    THEN before \cup {k} ELSE before

\* The ready steps among the first n, for every n.
Resolves(c, captured, failures, f, n) ==
    f = [k \in 0..n |-> IF k = 0 THEN {} ELSE Turn(c, captured, failures, k, f[k - 1])]

\* There is such a function.
LEMMA ResolvesExists ==
    ASSUME NEW c, NEW captured, NEW failures
    PROVE  \A n \in Nat : \E f : Resolves(c, captured, failures, f, n)
<1> DEFINE P(n) == \E f : Resolves(c, captured, failures, f, n)
           S == {n \in Nat : ~P(n)}
<1>1. P(0)
  <2> DEFINE f == [k \in 0..0 |-> {}]
  <2>1. Resolves(c, captured, failures, f, 0)
    BY DEF Resolves
  <2> QED BY <2>1
<1>2. ASSUME NEW n \in Nat \ {0}, P(n - 1) PROVE P(n)
  <2>1. PICK f : Resolves(c, captured, failures, f, n - 1)
    BY <1>2
  <2> DEFINE t == Turn(c, captured, failures, n, f[n - 1])
             g == [k \in 0..n |-> IF k = n THEN t ELSE f[k]]
             h == [k \in 0..n |-> IF k = 0 THEN {} ELSE Turn(c, captured, failures, k, g[k - 1])]
  <2>2. ASSUME NEW k \in 0..n PROVE g[k] = h[k]
    <3>1. k # n => f[k] = IF k = 0 THEN {} ELSE Turn(c, captured, failures, k, f[k - 1])
      <4> SUFFICES ASSUME k # n
                   PROVE  f[k] = IF k = 0 THEN {} ELSE Turn(c, captured, failures, k, f[k - 1])
        OBVIOUS
      <4>1. k \in 0..(n - 1)
        OBVIOUS
      <4>2. f = [i \in 0..(n - 1) |-> IF i = 0 THEN {} ELSE Turn(c, captured, failures, i, f[i - 1])]
        BY <2>1 DEF Resolves
      <4> QED BY ONLY <4>1, <4>2
    <3>2. k # 0 => g[k - 1] = f[k - 1]
      OBVIOUS
    <3> HIDE DEF t
    <3>3. g[k] = IF k = n THEN t ELSE f[k]
      OBVIOUS
    <3>4. h[k] = IF k = 0 THEN {} ELSE Turn(c, captured, failures, k, g[k - 1])
      OBVIOUS
    <3> HIDE DEF g, h
    <3> QED BY <3>1, <3>2, <3>3, <3>4 DEF t
  <2>3. g = h
    <3> HIDE DEF t
    <3>1. DOMAIN g = 0..n /\ DOMAIN h = 0..n
      OBVIOUS
    <3>2. g = [k \in 0..n |-> g[k]] /\ h = [k \in 0..n |-> h[k]]
      OBVIOUS
    <3> HIDE DEF g, h
    <3> QED BY <2>2, <3>2, Zenon
  <2>4. Resolves(c, captured, failures, g, n)
    BY <2>3 DEF Resolves
  <2> HIDE DEF g
  <2> QED BY <2>4
<1> HIDE DEF P
<1>3. S = {}
  <2> SUFFICES ASSUME S # {} PROVE FALSE
    OBVIOUS
  <2>1. PICK n \in S : \A y \in S : n <= y
    BY NonemptyHasMin
  <2>2. n # 0
    BY <1>1, <2>1
  <2>3. n \in Nat \ {0} /\ n - 1 \in Nat /\ n - 1 \notin S
    BY <2>1, <2>2
  <2> QED BY <1>2, <2>1, <2>3
<1>4. \A n \in Nat : P(n)
  BY <1>3
<1> QED BY <1>4 DEF P

\* Every ready step is one that did not fail, and all it depends on is ready.
LEMMA ReadySteps ==
    ASSUME NEW c, Len(c) \in Nat, NEW captured, NEW failures,
           NEW j \in Ready(c, captured, failures)
    PROVE  j \notin failures /\ DependsOn(c[j]) \subseteq Ready(c, captured, failures)
<1> DEFINE n == Len(c)
<1>1. \E f : f = [k \in 0..n |-> IF k = 0 THEN {} ELSE Turn(c, captured, failures, k, f[k - 1])]
  <2>1. \E f : Resolves(c, captured, failures, f, n)
    BY ResolvesExists
  <2> QED BY <2>1 DEF Resolves
<1>2. PICK f : Resolves(c, captured, failures, f, n) /\ Ready(c, captured, failures) = f[n]
  BY <1>1 DEF Ready, Turn, Resolves
<1> DEFINE OK(k) == \A i \in f[k] : i \notin failures /\ DependsOn(c[i]) \subseteq f[k]
           S == {k \in 0..n : ~OK(k)}
<1>3. \A k \in 0..n : f[k] = IF k = 0 THEN {} ELSE Turn(c, captured, failures, k, f[k - 1])
  BY <1>2 DEF Resolves
<1>4. OK(0)
  BY <1>3
<1>5. ASSUME NEW k \in 1..n, OK(k - 1) PROVE OK(k)
  <2>1. f[k] = Turn(c, captured, failures, k, f[k - 1])
    BY <1>3
  <2> QED BY <1>5, <2>1 DEF Turn
<1> HIDE DEF OK
<1>6. S = {}
  <2> SUFFICES ASSUME S # {} PROVE FALSE
    OBVIOUS
  <2>0. S \in SUBSET Nat
    OBVIOUS
  <2>1. PICK k \in S : \A y \in S : k <= y
    BY <2>0, NonemptyHasMin
  <2>2. k # 0
    BY <1>4, <2>1
  <2>3. k \in 1..n /\ k - 1 \in 0..n /\ k - 1 \notin S
    BY <2>1, <2>2
  <2> QED BY <1>5, <2>1, <2>3
<1>7. OK(n)
  BY <1>6
<1> QED BY <1>2, <1>7 DEF OK

\* The longest chain has MaxSteps steps.
LEMMA MaxStepsLongest == MaxSteps \in Nat /\ \A c \in RawChains : Len(c) \in 0..MaxSteps
<1>1. Lengths \subseteq Nat
  <2> SUFFICES ASSUME NEW c \in RawChains PROVE Len(c) \in Nat
    BY DEF Lengths
  <2>1. PICK S : c \in Seq(S)
    BY ChainAssumption
  <2> QED BY <2>1
<1>2. PICK c \in RawChains : \A d \in RawChains : Len(d) <= Len(c)
  BY ChainAssumption
<1>3. Len(c) \in Lengths /\ \A m \in Lengths : m <= Len(c)
  BY <1>2 DEF Lengths
<1>5. MaxSteps \in Lengths /\ \A m \in Lengths : m <= MaxSteps
  BY <1>3 DEF MaxSteps
<1> QED BY <1>1, <1>5 DEF Lengths

ReplayKeys == {"pc", "chain", "at", "captured", "failures"}

ChainTypes ==
    /\ saved = <<>> \/ saved \in RawChains
    /\ DOMAIN answered = 1..MaxSteps
    /\ DOMAIN replay = ReplayKeys /\ replay.pc \in {"idle", "step", "sent"}
    /\ \A m \in sent : DOMAIN m.values \subseteq 1..MaxSteps

\* A replay under way: every step behind it failed or was answered, and what it
\* captured of those it was answered is what they answered; none ahead was.
ReplayOK ==
    replay.pc # "idle" =>
       /\ replay.chain \in RawChains /\ Valid(replay.chain)
       /\ replay.at \in 1..(Len(replay.chain) + 1)
       /\ replay.pc = "sent" => replay.at <= Len(replay.chain)
       /\ DOMAIN replay.captured = 1..MaxSteps
       /\ \A k \in 1..MaxSteps :
             /\ k < replay.at => \/ k \in replay.failures
                                \/ (answered[k] # Absent /\ replay.captured[k] = answered[k])
             /\ k >= replay.at => answered[k] = Absent

ChainInv == ChainTypes /\ ReplayOK /\ CarriesItsOwnReplies

\* A step refers only to steps it depends on, and all of these are earlier ones.
LEMMA RefsEarlier ==
    ASSUME NEW c \in RawChains, Valid(c), NEW k \in 1..Len(c)
    PROVE  Refs(c[k]) \subseteq DependsOn(c[k]) /\ Refs(c[k]) \subseteq 1..(k - 1)
<1>1. ValidStep(c[k], k)
  BY DEF Valid, Steps
<1>2. Refs(c[k]) \subseteq DependsOn(c[k])
  BY <1>1 DEF ValidStep, DependsOn
<1>3. \A p \in c[k].params : p.ref \in Nat /\ p.ref < k
  <2> DEFINE Parameters == [name : STRING, position : {"path", "query"}, required : BOOLEAN,
                            nonEmpty : BOOLEAN, ref : Nat, value : {"constant", "empty"}]
             StepsOf == [read : BOOLEAN, profile : BOOLEAN, secret : BOOLEAN,
                         placeholders : SUBSET STRING, dependsOn : SUBSET Nat,
                         params : SUBSET Parameters]
  <2>0. c \in Seq(StepsOf)
    BY ChainAssumption
  <2>1. c[k].params \subseteq Parameters
    <3>1. c[k] \in StepsOf
      <4> HIDE DEF StepsOf
      <4> QED BY <2>0
    <3> HIDE DEF Parameters
    <3> QED BY <3>1
  <2>2. \A p \in c[k].params : p.ref \in Nat
    BY <2>1
  <2> QED BY <1>1, <2>2 DEF ValidStep, ValidParameter
<1>4. Refs(c[k]) \subseteq 1..(k - 1)
  BY <1>3, ChainAssumption DEF Refs
<1> QED BY <1>2, <1>4

LEMMA InitChain == ChainInit => ChainInv
BY DEF ChainInit, ChainInv, ChainTypes, ReplayOK, CarriesItsOwnReplies, NothingAnswered, NoReplay, ReplayKeys

LEMMA StepChain == ChainInv /\ [ChainNext]_chainVars => ChainInv'
<1> SUFFICES ASSUME ChainInv, [ChainNext]_chainVars PROVE ChainInv'
  OBVIOUS
<1> USE DEF ChainInv
<1>0. MaxSteps \in Nat /\ \A c \in RawChains : Len(c) \in 0..MaxSteps
  BY MaxStepsLongest
<1>1. ASSUME NEW c \in RawChains, ImportChain(c) PROVE ChainInv'
  BY <1>1 DEF ImportChain, ChainTypes, ReplayOK, CarriesItsOwnReplies
<1>2. ASSUME NEW k \in 1..MaxSteps, EndpointDrifts(k) PROVE ChainInv'
  BY <1>2 DEF EndpointDrifts, ChainTypes, ReplayOK, CarriesItsOwnReplies
<1>3. ASSUME NEW recorded \in BOOLEAN, StartReplay(recorded) PROVE ChainInv'
  <2>1. saved \in RawChains /\ Valid(saved)
    BY <1>3 DEF StartReplay, ChainTypes, Valid
  <2>2. ChainTypes' /\ CarriesItsOwnReplies'
    BY <1>3 DEF StartReplay, ChainTypes, CarriesItsOwnReplies, NoReplay, NothingAnswered, ReplayKeys
  <2>3. /\ replay'.chain = saved /\ replay'.at = 1 /\ replay'.pc = "step"
        /\ DOMAIN replay'.captured = 1..MaxSteps
        /\ answered' = NothingAnswered
    BY <1>3 DEF StartReplay, NoReplay
  <2>4. Len(saved) \in Nat
    BY <1>0, <2>1
  <2>5. Valid(replay'.chain)
    BY <2>1, <2>3
  <2>6. ReplayOK'
    BY <1>0, <2>1, <2>3, <2>4, <2>5 DEF ReplayOK, NothingAnswered, Valid, KnownProfiles, Clean
  <2> QED BY <2>2, <2>6
<1>4. ASSUME ComposeStep PROVE ChainInv'
  <2> DEFINE k == replay.at
             c == replay.chain
  <2>1. /\ replay.pc = "step" /\ k \in 1..Len(c) /\ c \in RawChains /\ Valid(c) /\ Len(c) \in 0..MaxSteps
    BY <1>0, <1>4 DEF ComposeStep, ReplayOK
  <2>2. CASE k \in Ready(c, replay.captured, replay.failures)
    <3> DEFINE m == [step |-> k, values |-> Carried(c[k], replay.captured)]
    <3>1. /\ sent' = sent \cup {m}
          /\ replay' = [replay EXCEPT !.pc = "sent"]
          /\ UNCHANGED <<saved, bound, answered, replays>>
      BY <1>4, <2>2 DEF ComposeStep
    <3>2. DOMAIN m.values = Refs(c[k]) /\ Refs(c[k]) \subseteq 1..(k - 1)
      BY <2>1, RefsEarlier DEF Carried
    <3>3. ASSUME NEW r \in Refs(c[k])
          PROVE  answered[r] # Absent /\ m.values[r] \in {answered[r], Absent}
      <4>1. r \in Ready(c, replay.captured, replay.failures)
        <5>1. r \in DependsOn(c[k])
          BY <2>1, RefsEarlier
        <5>2. Len(c) \in Nat
          BY <2>1
        <5>3. DependsOn(c[k]) \subseteq Ready(c, replay.captured, replay.failures)
          BY <2>2, <5>2, ReadySteps
        <5> QED BY <5>1, <5>3
      <4>2. r \notin replay.failures
        <5>1. Len(c) \in Nat
          BY <2>1
        <5> QED BY <4>1, <5>1, ReadySteps
      <4>3. r \in 1..MaxSteps /\ r < k
        BY <1>0, <2>1, <3>2
      <4>4. answered[r] # Absent /\ replay.captured[r] = answered[r]
        BY <2>1, <4>2, <4>3 DEF ReplayOK
      <4>5. m.values[r] = IF Found(replay.captured, r) THEN replay.captured[r] ELSE Absent
        BY DEF Carried
      <4> HIDE DEF m
      <4> QED BY <4>4, <4>5
    <3> HIDE DEF m
    <3>4. ChainTypes'
      BY <1>0, <2>1, <3>1, <3>2 DEF ChainTypes, ReplayKeys
    <3>5. ReplayOK'
      BY <2>1, <3>1 DEF ChainTypes, ReplayKeys, ReplayOK, Valid, KnownProfiles, Clean
    <3>6. CarriesItsOwnReplies'
      BY <3>1, <3>2, <3>3 DEF CarriesItsOwnReplies
    <3> QED BY <3>4, <3>5, <3>6
  <2>3. CASE k \notin Ready(c, replay.captured, replay.failures)
    <3>1. /\ replay' = [replay EXCEPT !.at = k + 1, !.failures = @ \cup {k}]
          /\ UNCHANGED <<sent, saved, bound, answered, replays>>
      BY <1>4, <2>3 DEF ComposeStep
    <3>2. /\ replay'.pc = "step" /\ replay'.chain = c /\ replay'.at = k + 1
          /\ replay'.captured = replay.captured /\ replay'.failures = replay.failures \cup {k}
          /\ DOMAIN replay' = ReplayKeys
      BY <2>1, <3>1 DEF ChainTypes, ReplayKeys
    <3>3. ChainTypes' /\ CarriesItsOwnReplies'
      BY <3>1, <3>2 DEF ChainTypes, CarriesItsOwnReplies
    <3>4. Valid(replay'.chain)
      BY <2>1, <3>2
    <3>5. \A i \in 1..MaxSteps : i < k + 1 => i = k \/ i < k
      BY <1>0, <2>1
    <3>6. ReplayOK'
      BY <1>0, <2>1, <3>1, <3>2, <3>4, <3>5 DEF ReplayOK
    <3> QED BY <3>3, <3>6
  <2> QED BY <2>2, <2>3
<1>5. ASSUME NEW body \in Bodies \ {"stale"}, StepAnswered(body) PROVE ChainInv'
  <2> DEFINE k == replay.at
  <2>1. /\ replay.pc = "sent" /\ k \in 1..MaxSteps /\ Len(replay.chain) \in Nat /\ k <= Len(replay.chain)
        /\ replay.chain \in RawChains
    BY <1>0, <1>5 DEF StepAnswered, ReplayOK
  <2>2. /\ answered' = [answered EXCEPT ![k] = body]
        /\ UNCHANGED <<saved, bound, sent, replays>>
    BY <1>5 DEF StepAnswered
  <2>3. /\ replay'.pc = "step" /\ replay'.chain = replay.chain /\ replay'.at = k + 1
        /\ replay'.captured = [replay.captured EXCEPT ![k] = body] /\ replay'.failures = replay.failures
        /\ DOMAIN replay' = ReplayKeys
    BY <1>5 DEF StepAnswered, ChainTypes, ReplayKeys
  <2>4. body # Absent
    BY DEF Bodies, Fields, Absent
  <2>5. ChainTypes'
    BY <2>2, <2>3 DEF ChainTypes
  <2>6. ReplayOK'
    BY <1>0, <2>1, <2>2, <2>3, <2>4 DEF ChainTypes, ReplayOK, Valid, KnownProfiles, Clean
  <2>7. answered[k] = Absent
    BY <1>0, <2>1 DEF ReplayOK
  <2>8. CarriesItsOwnReplies'
    BY <2>1, <2>2, <2>7 DEF ChainTypes, CarriesItsOwnReplies
  <2> QED BY <2>5, <2>6, <2>8
<1>6. ASSUME StepFails PROVE ChainInv'
  <2>1. /\ replay.pc = "sent" /\ replay.at \in 1..MaxSteps /\ Len(replay.chain) \in Nat
        /\ replay.at <= Len(replay.chain)
    BY <1>0, <1>6 DEF StepFails, ReplayOK
  <2>2. /\ replay'.pc = "step" /\ replay'.chain = replay.chain /\ replay'.at = replay.at + 1
        /\ replay'.captured = replay.captured /\ replay'.failures = replay.failures \cup {replay.at}
        /\ DOMAIN replay' = ReplayKeys
        /\ UNCHANGED <<saved, bound, sent, answered, replays>>
    BY <1>6 DEF StepFails, FailuresAfter, ChainTypes, ReplayKeys
  <2>3. ChainTypes' /\ CarriesItsOwnReplies'
    BY <2>2 DEF ChainTypes, CarriesItsOwnReplies
  <2>4. Valid(replay'.chain)
    BY <2>1, <2>2 DEF ReplayOK
  <2>5. \A i \in 1..MaxSteps : i < replay.at + 1 => i = replay.at \/ i < replay.at
    BY <1>0, <2>1
  <2>6. ReplayOK'
    BY <1>0, <2>1, <2>2, <2>4, <2>5 DEF ReplayOK
  <2> QED BY <2>3, <2>6
<1>7. ASSUME EndReplay PROVE ChainInv'
  BY <1>7 DEF EndReplay, NoReplay, ChainTypes, ReplayKeys, ReplayOK, CarriesItsOwnReplies
<1>8. ASSUME UNCHANGED chainVars PROVE ChainInv'
  BY <1>8 DEF chainVars, ChainTypes, ReplayOK, CarriesItsOwnReplies, Valid, KnownProfiles, Clean
<1> QED
  BY <1>1, <1>2, <1>3, <1>4, <1>5, <1>6, <1>7, <1>8 DEF ChainNext

\* For any chains, captured requests and replies (interface_chain.py): what a replay
\* sends carries only what the steps it depends on answered in the same replay, and
\* a step that failed or was blocked blocks every step that depends on it.
THEOREM ChainsOwnReplies == ChainSpec => []CarriesItsOwnReplies
<1>1. ChainInv => CarriesItsOwnReplies
  BY DEF ChainInv
<1> QED
  BY <1>1, InitChain, StepChain, PTL DEF ChainSpec
=============================================================================
