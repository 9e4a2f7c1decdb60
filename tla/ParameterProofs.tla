-------------------------- MODULE ParameterProofs --------------------------
\* What a project knows of its parameters, proved for every value of the
\* constants: the parameter workbench, the payload screen, the profile
\* parameter archive, the request fixtures, the authorization policies, the
\* replay of a validation and the routing of what was captured.
EXTENDS RelationWorkbench, PayloadScreen, ParameterArchive, RequestFixture, AuthorizationPolicy,
        ValidationReplay, ObservationRouting, FiniteSetTheorems, WellFoundedInduction, TLAPS

-----------------------------------------------------------------------------
(* RelationWorkbench.  What a document, a copy of one or an experience     *)
(* says of a relation is backed by a person or by a validation of its own; *)
(* what a form lets into an automatic run is looked at with the rows.      *)

\* A set of numbers has a least one ...
LEMMA NonemptyHasMin ==
    ASSUME NEW S \in SUBSET Nat, S # {}
    PROVE  \E x \in S : \A y \in S : x <= y
<1> DEFINE R == OpToRel(<, Nat)
<1>1. IsWellFoundedOn(R, Nat)
  BY NatLessThanWellFounded
<1>2. \E x \in S : \A y \in S : <<y, x>> \notin R
  <2> HIDE DEF R
  <2> QED
    BY <1>1, WFMin
<1>3. PICK x \in S : \A y \in S : <<y, x>> \notin R
  BY <1>2
<1>4. \A y \in S : ~(y < x)
  BY <1>3 DEF OpToRel
<1> QED
  BY <1>4

\* ... and a bounded one a greatest.
LEMMA MaxIn ==
    ASSUME NEW n \in Nat, NEW S \in SUBSET (1..n), S # {}
    PROVE  Max(S) \in S /\ \A y \in S : y <= Max(S)
<1> DEFINE T == {n - x : x \in S}
<1>0. \A x \in S : x \in Int /\ 1 <= x /\ x <= n
  OBVIOUS
<1>1. T \in SUBSET Nat /\ T # {}
  <2>1. \A x \in S : n - x \in Nat
    BY <1>0
  <2> QED
    BY <2>1
<1>2. PICK t \in T : \A y \in T : t <= y
  BY <1>1, NonemptyHasMin
<1>3. PICK x \in S : t = n - x
  BY <1>2
<1>4. \A y \in S : x >= y
  <2> SUFFICES ASSUME NEW y \in S PROVE x >= y
    OBVIOUS
  <2>1. n - y \in T
    OBVIOUS
  <2>2. n - x <= n - y
    BY <1>2, <1>3, <2>1
  <2> QED
    BY <2>2, <1>0
<1>5. \E m \in S : \A y \in S : m >= y
  BY <1>4
<1> QED
  BY <1>5 DEF Max

\* A person declared the relation trusted, or a validation of it succeeded.
Backed(f) == f \in byHand \/ \E i \in 1..Len(rows) : rows[i].field = f /\ rows[i].status \in Successful

\* A sequence, of whatever.
Sequence(s) == \E S : s \in Seq(S)

RelKeys == {"map", "verified", "decision", "stale", "origin", "noted", "status", "run", "schema", "confirmed"}

\* What a relation document, stored or copied, says of f is backed.
DocOK(r, f) ==
    /\ DOMAIN r = RelKeys
    /\ (r.decision = "trusted" \/ r.status = "verified" \/ r.verified) => Backed(f)

\* The copy a recording validation holds is no better than the stored document.
CopyOK ==
    recording.field # None =>
        /\ recording.field \in RelFields
        /\ DocOK(recording.doc, recording.field)
        /\ recording.status \in Successful => Backed(recording.field)

FormKeys == {"stage", "action", "field", "approved", "docs", "todo", "peers", "case", "key", "run", "seen"}

\* A form between two of its operations.  Its copies are backed too; and what an
\* automatic one let into its case while the source was blocked, as far as it could
\* see, was concluded.
FormOK(form) ==
    /\ DOMAIN form = FormKeys
    /\ \A f \in DOMAIN form.docs : DocOK(form.docs[f], f)
    /\ form.seen \in Nat /\ form.seen <= Len(rows)
    /\ form.stage \in {"pair", "pick"} => form.case = {}
    /\ form.stage = "pair" => form.field \in RelFields
    /\ form.stage = "treat" => form.todo \subseteq DOMAIN form.docs /\ form.case \cap form.todo = {}
    /\ form.stage \in {"treat", "freeze", "insert"} /\ form.action \in AutoForms
         /\ form.seen = Len(rows) /\ SourceBlocked
       => \A f \in form.case : form.docs[f].status \in Concluded

RelInv ==
    /\ Sequence(rows) /\ Sequence(vruns) /\ setup \in PairSetups
    /\ DOMAIN relFixture = {"source", "consumer"}
    /\ FormOK(asking)
    /\ DOMAIN rel = RelFields /\ DOMAIN exper = RelFields
    /\ \A f \in RelFields : DocOK(rel[f], f)
    /\ CopyOK
    /\ ExperienceIsBacked

\* The index of the last row of f.
LEMMA LatestRowIs ==
    ASSUME Sequence(rows), NEW f
    PROVE  /\ LatestRow(f) \in Nat /\ LatestRow(f) <= Len(rows)
           /\ LatestRow(f) # 0 => LatestRow(f) \in 1..Len(rows) /\ rows[LatestRow(f)].field = f
<1> DEFINE I == {i \in 1..Len(rows) : rows[i].field = f}
<1>1. Len(rows) \in Nat
  BY DEF Sequence
<1>2. LatestRow(f) = IF I # {} THEN Max(I) ELSE 0
  BY DEF LatestRow, SelectLastInSeq
<1>3. I # {} => Max(I) \in I
  BY <1>1, MaxIn
<1> HIDE DEF I
<1>4. \A i \in I : i \in 1..Len(rows) /\ rows[i].field = f
  BY DEF I
<1> QED
  BY <1>1, <1>2, <1>3, <1>4

\* A passed validation counts for the relation whose own it is.
LEMMA PassedIsOwn ==
    ASSUME Sequence(rows), NEW f, Effective(f) \in Passed
    PROVE  Backed(f)
<1>1. EffectiveRow(f) # 0 /\ rows[EffectiveRow(f)].status \in Passed
  BY DEF Effective, Passed
<1>2. rows[EffectiveRow(f)].status \notin SourceRejected
  BY <1>1 DEF Passed, SourceRejected
<1>3. EffectiveRow(f) = LatestRow(f)
  BY <1>1, <1>2 DEF EffectiveRow
<1> QED
  BY <1>1, <1>3, LatestRowIs DEF Backed, Successful

LEMMA AllPassedAreOwn == Sequence(rows) => \A g : Effective(g) \in Passed => Backed(g)
BY PassedIsOwn

\* While the shared source's rejection stands, no relation is ready.
LEMMA BlockedIsEffective ==
    ASSUME Sequence(rows), SourceBlocked, NEW f
    PROVE  Effective(f) \in SourceRejected
<1>1. Len(rows) \in Nat /\ Len(rows) # 0 /\ rows[Len(rows)].status \in SourceRejected /\ ~Superseded(Len(rows))
  BY DEF SourceBlocked, Sequence
<1>2. LatestRow(f) \in Nat /\ LatestRow(f) <= Len(rows)
  BY LatestRowIs
<1>3. EffectiveRow(f) = Len(rows)
  BY <1>1, <1>2 DEF EffectiveRow
<1> QED
  BY <1>1, <1>3 DEF Effective

LEMMA PreprocessedOK ==
    ASSUME Sequence(rows), NEW f, NEW r, DocOK(r, f)
    PROVE  /\ DOMAIN Preprocessed(r, f) = RelKeys
           /\ \A k \in RelKeys : k # "status" => Preprocessed(r, f)[k] = r[k]
           /\ Preprocessed(r, f).status = StatusOf(r, Effective(f))
           /\ DocOK(Preprocessed(r, f), f)
<1> DEFINE p == Preprocessed(r, f)
<1>1. DOMAIN p = RelKeys /\ (\A k \in RelKeys : k # "status" => p[k] = r[k]) /\ p.status = StatusOf(r, Effective(f))
  BY DEF DocOK, Preprocessed, RelKeys
<1>2. StatusOf(r, Effective(f)) = "verified" => Backed(f)
  BY PassedIsOwn DEF StatusOf, DocOK, ScheduledVerified, Passed, Successful
<1>3. p.decision = r.decision /\ p.verified = r.verified
  BY <1>1 DEF RelKeys
<1> HIDE DEF p
<1>4. DocOK(p, f)
  BY <1>1, <1>2, <1>3 DEF DocOK
<1> QED
  BY <1>1, <1>4 DEF p

\* What a relation is while the shared source is blocked: concluded, or not ready.
LEMMA BlockedStatus ==
    ASSUME Sequence(rows), SourceBlocked, NEW f, NEW r
    PROVE  StatusOf(r, Effective(f)) \in Concluded \cup NotReady
<1>1. Effective(f) \in SourceRejected
  BY BlockedIsEffective
<1> QED
  BY <1>1 DEF StatusOf, SourceRejected, Concluded, NotReady, Passed

\* A form that has loaded nothing yet.
LEMMA FreshOK ==
    ASSUME Sequence(rows), NEW form, DOMAIN form = FormKeys, form.docs = <<>>, form.todo = {},
           form.case = {}, form.seen = 0, form.stage = "pair" => form.field \in RelFields
    PROVE  FormOK(form)
<1>1. Len(rows) \in Nat /\ DOMAIN form.docs = {}
  BY DEF Sequence
<1> QED
  BY <1>1 DEF FormOK

LEMMA NoFormOK == Sequence(rows) => FormOK(NoForm)
BY FreshOK DEF NoForm, FormKeys

\* A loop starts with what it read.
LEMMA LoopOK ==
    ASSUME RelInv, NEW form, DOMAIN form = FormKeys, form.case = {}, form.seen \in Nat,
           form.seen <= Len(rows), NEW fs \in SUBSET RelFields
    PROVE  FormOK(Loop(form, fs)) /\ Loop(form, fs).stage = "treat"
<1> DEFINE l == Loop(form, fs)
<1>1. /\ DOMAIN l = FormKeys /\ l.stage = "treat" /\ l.todo = fs /\ l.docs = [f \in fs |-> rel[f]]
      /\ l.case = {} /\ l.seen = form.seen
  BY DEF Loop, FormKeys
<1>2. \A f \in fs : DocOK(rel[f], f)
  BY DEF RelInv
<1> HIDE DEF l
<1>3. FormOK(l)
  BY <1>1, <1>2 DEF FormOK
<1> QED
  BY <1>1, <1>3 DEF l

LEMMA AfterLoopOK ==
    ASSUME Sequence(rows), NEW form, FormOK(form), form.stage = "treat"
    PROVE  FormOK(AfterLoop(form))
<1>1. CASE form.todo # {}
  BY <1>1 DEF AfterLoop
<1>2. FormOK([NoForm EXCEPT !.stage = "pick", !.action = "auto_next"])
  BY FreshOK DEF NoForm, FormKeys
<1>3. FormOK([form EXCEPT !.stage = "freeze"])
  <2> DEFINE a == [form EXCEPT !.stage = "freeze"]
  <2>1. /\ DOMAIN a = FormKeys /\ a.stage = "freeze" /\ a.docs = form.docs /\ a.case = form.case
        /\ a.seen = form.seen /\ a.action = form.action
    BY DEF FormOK, FormKeys
  <2> HIDE DEF a
  <2>2. FormOK(a)
    BY <2>1 DEF FormOK
  <2> QED
    BY <2>2 DEF a
<1> QED
  BY <1>1, <1>2, <1>3, NoFormOK DEF AfterLoop

LEMMA InitRel == RelInit => RelInv
<1> SUFFICES ASSUME RelInit PROVE RelInv
  OBVIOUS
<1>1. Sequence(rows) /\ Sequence(vruns)
  <2>1. rows \in Seq({}) /\ vruns \in Seq({})
    BY DEF RelInit
  <2> QED
    BY <2>1 DEF Sequence
<1>2. \A f \in RelFields : DocOK(NewRelation, f)
  BY DEF NewRelation, DocOK, RelKeys
<1>3. \A f \in RelFields : DocOK(Preprocessed(NewRelation, f), f)
  BY <1>1, <1>2, PreprocessedOK
<1>4. DOMAIN rel = RelFields /\ \A f \in RelFields : rel[f] = Preprocessed(NewRelation, f)
  BY DEF RelInit
<1>5. CopyOK
  BY DEF RelInit, NoCopy, CopyOK
<1>6. DOMAIN exper = RelFields /\ ExperienceIsBacked
  BY DEF RelInit, ExperienceIsBacked
<1>7. FormOK(asking) /\ setup \in PairSetups /\ DOMAIN relFixture = {"source", "consumer"}
  BY <1>1, NoFormOK DEF RelInit
<1> QED
  BY <1>1, <1>3, <1>4, <1>5, <1>6, <1>7 DEF RelInv

\* What was backed stays backed, so a step has to account for what it writes.
LEMMA RelKeeps ==
    ASSUME RelInv, Sequence(rows'), Sequence(vruns'),
           \A f : Backed(f) => Backed(f)',
           DOMAIN rel' = RelFields,
           \A f \in RelFields : DocOK(rel'[f], f) \/ DocOK(rel[f], f)',
           recording' = recording \/ CopyOK',
           exper' = exper \/ (DOMAIN exper' = RelFields /\ ExperienceIsBacked'),
           setup' = setup, DOMAIN relFixture' = {"source", "consumer"},
           \/ rows' = rows /\ (SourceBlocked' => SourceBlocked)
           \/ Len(rows') = Len(rows) + 1,
           NEW form, asking' = form, FormOK(form)
    PROVE  RelInv'
<1>1. \A f, r : DocOK(r, f) => DocOK(r, f)'
  BY DEF DocOK
<1>2. \A f \in RelFields : DocOK(rel[f], f)'
  BY DEF DocOK
<1>3. CopyOK'
  BY DEF CopyOK, RelInv, DocOK
<1>4. DOMAIN exper' = RelFields /\ ExperienceIsBacked'
  <2>1. CASE exper' = exper
    BY <2>1 DEF RelInv, ExperienceIsBacked, Backed
  <2> QED
    BY <2>1
<1>5. FormOK(asking)'
  <2>1. Len(rows) \in Nat /\ Len(rows') \in Nat
    BY DEF RelInv, Sequence
  <2>2. \A f \in DOMAIN form.docs : DocOK(form.docs[f], f)'
    BY <1>1 DEF FormOK
  <2>3. form.seen <= Len(rows') /\ (form.seen = Len(rows') /\ SourceBlocked' => form.seen = Len(rows) /\ SourceBlocked)
    BY <2>1 DEF FormOK
  <2> QED
    BY <2>2, <2>3 DEF FormOK
<1>6. setup' \in PairSetups
  BY DEF RelInv
<1> QED
  BY <1>2, <1>3, <1>4, <1>5, <1>6 DEF RelInv

\* The result of a validation, on the copy.
LEMMA AfterResultOK ==
    ASSUME NEW f, NEW r, DocOK(r, f), NEW status, status \in Successful => Backed(f)
    PROVE  DocOK(AfterResult(r, status), f)
<1> DEFINE a == AfterResult(r, status)
<1>1. DOMAIN a = RelKeys
  BY DEF AfterResult, DocOK, RelKeys
<1>2. /\ a.verified = (r.verified \/ status \in Passed)
      /\ a.decision = (IF status \in Successful /\ r.origin = "manual_override" /\ r.decision = "stale" THEN "trusted" ELSE r.decision)
      /\ a.status = r.status
  BY DEF AfterResult, DocOK, RelKeys
<1> HIDE DEF a
<1>3. status \in Passed => status \in Successful
  BY DEF Successful
<1>4. DocOK(a, f)
  BY <1>1, <1>2, <1>3 DEF DocOK
<1> QED
  BY <1>4 DEF a

\* Every field of the saved document is the copy's or the stored one's.
LEMMA SavedOK ==
    ASSUME NEW f, NEW now, NEW old, NEW new, DocOK(now, f), DocOK(new, f)
    PROVE  DocOK(Saved(now, old, new), f)
<1> DEFINE d == Saved(now, old, new)
<1>1. DOMAIN d = RelKeys /\ \A k \in RelKeys : d[k] = new[k] \/ d[k] = now[k]
  BY DEF Saved, DocOK
<1>2. /\ d.decision = new.decision \/ d.decision = now.decision
      /\ d.status = new.status \/ d.status = now.status
      /\ d.verified = new.verified \/ d.verified = now.verified
  BY <1>1 DEF RelKeys
<1> HIDE DEF d
<1>3. DocOK(d, f)
  BY <1>1, <1>2 DEF DocOK
<1> QED
  BY <1>3 DEF d

\* The experience of a relation follows a document that is backed.
LEMMA ExperienceOK ==
    ASSUME NEW f, NEW r, DocOK(r, f), NEW old, old = "trusted" => Backed(f)
    PROVE  Experience(r, old) = "trusted" => Backed(f)
BY DEF Experience, DocOK

\* Of all that is done to the runs, only the insertion of a form makes a new one.
LEMMA InsertIs ==
    ASSUME Sequence(vruns), InsertRun
    PROVE  Sequence(vruns')
<1>1. CASE vruns' = vruns
  BY <1>1
<1>2. CASE vruns' # vruns
  <2>1. PICK e : vruns' = Append(vruns, e)
    BY <1>2 DEF InsertRun
  <2>2. PICK S : vruns \in Seq(S)
    BY DEF Sequence
  <2>3. vruns' \in Seq(S \cup {e})
    BY <2>1, <2>2
  <2> QED
    BY <2>3 DEF Sequence
<1> QED
  BY <1>1, <1>2

\* A run that changes leaves a sequence of runs.
LEMMA RunChanged ==
    ASSUME Sequence(vruns), NEW i \in 1..Len(vruns), NEW v, vruns' = [vruns EXCEPT ![i] = v]
    PROVE  Sequence(vruns') /\ Len(vruns') = Len(vruns)
<1>1. PICK S : vruns \in Seq(S)
  BY DEF Sequence
<1>2. vruns \in Seq(S \cup {v})
  BY <1>1
<1>3. vruns' \in Seq(S \cup {v}) /\ Len(vruns') = Len(vruns)
  BY <1>2
<1> QED
  BY <1>3 DEF Sequence

LEMMA NextRel ==
    ASSUME RelInv, [RelNext]_relVars
    PROVE  RelInv'
<1>0. /\ Sequence(rows) /\ Sequence(vruns) /\ DOMAIN rel = RelFields /\ DOMAIN exper = RelFields
      /\ \A f \in RelFields : DocOK(rel[f], f)
  BY DEF RelInv
<1>1. /\ setup \in PairSetups /\ DOMAIN relFixture = {"source", "consumer"} /\ FormOK(asking)
      /\ Len(rows) \in Nat
  BY DEF RelInv, Sequence
<1>2. ASSUME UNCHANGED <<rows, exper, recording, byHand, setup, relFixture, relProfile>>, Sequence(vruns'),
             DOMAIN rel' = RelFields, \A f \in RelFields : DocOK(rel'[f], f),
             NEW form, asking' = form, FormOK(form)
      PROVE  RelInv'
  <2>1. \A f : Backed(f) => Backed(f)'
    BY <1>2 DEF Backed
  <2>2. SourceBlocked' => SourceBlocked
    BY <1>2 DEF SourceBlocked, Superseded
  <2> QED
    BY <1>0, <1>1, <1>2, <2>1, <2>2, RelKeeps
<1>3. ASSUME UNCHANGED <<rows, vruns, exper, recording, byHand, setup, relFixture, relProfile, asking>>,
             DOMAIN rel' = RelFields, \A f \in RelFields : DocOK(rel'[f], f)
      PROVE  RelInv'
  <2>1. PICK form : form = asking
    OBVIOUS
  <2> QED
    BY <1>0, <1>1, <1>3, <1>2, <2>1
<1>4. ASSUME NEW f \in RelFields, NEW m, SaveMapping(f, m)
      PROVE  RelInv'
  <2> DEFINE r == [rel[f] EXCEPT !.map = m, !.origin = "manual_override", !.verified = FALSE, !.decision = "stale",
                            !.stale = TRUE]
  <2>1. DocOK(r, f)
    BY <1>0 DEF DocOK, RelKeys
  <2>2. rel' = [rel EXCEPT ![f] = Preprocessed(r, f)]
    BY <1>4 DEF SaveMapping
  <2> HIDE DEF r
  <2>3. DocOK(Preprocessed(r, f), f)
    BY <2>1, <1>0, PreprocessedOK
  <2> QED
    BY <1>0, <1>3, <1>4, <2>2, <2>3 DEF SaveMapping
<1>5. ASSUME NEW f \in RelFields, DeleteRelation(f)
      PROVE  RelInv'
  <2> DEFINE r == [rel[f] EXCEPT !.decision = "deleted", !.origin = "manual_tombstone",
                                 !.verified = FALSE, !.stale = TRUE, !.status = "deleted"]
  <2>1. DocOK(r, f)
    BY <1>0 DEF DocOK, RelKeys
  <2>2. rel' = [rel EXCEPT ![f] = r]
    BY <1>5 DEF DeleteRelation
  <2> HIDE DEF r
  <2> QED
    BY <1>0, <1>3, <1>5, <2>1, <2>2 DEF DeleteRelation
<1>6. ASSUME NEW f \in RelFields, NEW decision, SaveManual(f, decision)
      PROVE  RelInv'
  <2> DEFINE r == [rel[f] EXCEPT !.decision  = IF decision = "reset" THEN "" ELSE decision,
                            !.confirmed = IF decision = "trusted" THEN rel[f].schema ELSE @,
                            !.stale     = @ /\ decision \notin {"trusted", "reset"},
                            !.origin    = IF decision = "reset" /\ @ = "manual_override" THEN "found" ELSE @]
             p == Preprocessed(r, f)
  <2>1. /\ rel' = [rel EXCEPT ![f] = p] /\ exper' = [exper EXCEPT ![f] = Experience(p, exper[f])]
        /\ byHand' = (IF decision = "trusted" THEN byHand \cup {f} ELSE byHand)
        /\ UNCHANGED <<setup, rows, vruns, relFixture, relProfile, gap, asking, recording>>
    BY <1>6 DEF SaveManual
  <2>2. DOMAIN r = RelKeys /\ r.verified = rel[f].verified /\ r.status = rel[f].status
        /\ (r.decision = "trusted" => decision = "trusted")
    BY <1>0 DEF DocOK, RelKeys
  <2>3. \A g : Backed(g) => Backed(g)'
    BY <2>1 DEF Backed
  <2>4. StatusOf(r, Effective(f)) = "verified" => Backed(f)
    BY <1>0, <2>2, PassedIsOwn DEF StatusOf, DocOK, ScheduledVerified, Passed, Successful
  <2> HIDE DEF r
  <2>5. DOMAIN p = RelKeys /\ p.verified = r.verified /\ p.decision = r.decision
        /\ p.status = StatusOf(r, Effective(f))
    BY <2>2 DEF Preprocessed, RelKeys
  <2>6. decision = "trusted" => Backed(f)'
    BY <2>1 DEF Backed
  <2> HIDE DEF p
  <2>7. (p.decision = "trusted" \/ p.status = "verified" \/ p.verified) => Backed(f)'
    BY <1>0, <2>2, <2>3, <2>4, <2>5, <2>6 DEF DocOK
  <2>8. DOMAIN rel' = RelFields /\ \A g \in RelFields : DocOK(rel'[g], g) \/ DocOK(rel[g], g)'
    <3>1. DOMAIN rel' = RelFields /\ rel'[f] = p /\ \A g \in RelFields \ {f} : rel'[g] = rel[g]
      BY <1>0, <2>1
    <3>2. DocOK(rel[f], f)'
      BY <2>5, <2>7, <3>1 DEF DocOK
    <3> QED
      BY <1>0, <3>1, <3>2
  <2>9. DOMAIN exper' = RelFields /\ ExperienceIsBacked'
    <3>1. \A g \in RelFields : exper[g] = "trusted" => Backed(g)
      BY DEF RelInv, ExperienceIsBacked, Backed
    <3>2. DOMAIN exper' = RelFields /\ exper'[f] = Experience(p, exper[f]) /\ \A g \in RelFields \ {f} : exper'[g] = exper[g]
      BY <1>0, <2>1
    <3>3. exper'[f] = "trusted" => Backed(f)'
      BY <2>3, <2>7, <3>1, <3>2 DEF Experience
    <3>4. \A g \in RelFields : exper'[g] = "trusted" => Backed(g)'
      BY <2>3, <3>1, <3>2, <3>3
    <3> QED
      BY <3>2, <3>4 DEF ExperienceIsBacked, Backed
  <2>10. SourceBlocked' => SourceBlocked
    BY <2>1 DEF SourceBlocked, Superseded
  <2>11. PICK form : form = asking
    OBVIOUS
  <2> QED
    BY <1>0, <1>1, <2>1, <2>3, <2>8, <2>9, <2>10, <2>11, RelKeeps
<1>7. ASSUME NEW f \in RelFields, NEW side \in {"source", "consumer"}, NEW filled, SaveRelFixture(f, side, filled)
      PROVE  RelInv'
  <2> DEFINE form == [NoForm EXCEPT !.stage = "pair", !.action = "save_fixture", !.field = f]
  <2>1. FormOK(form)
    <3>1. /\ DOMAIN form = FormKeys /\ form.docs = <<>> /\ form.todo = {} /\ form.case = {} /\ form.seen = 0
          /\ form.field = f
      BY DEF NoForm, FormKeys
    <3> HIDE DEF form
    <3> QED
      BY <1>0, <3>1, FreshOK
  <2>2. \A g : Backed(g) => Backed(g)'
    BY <1>7 DEF SaveRelFixture, Backed
  <2>3. DOMAIN relFixture' = {"source", "consumer"} /\ (SourceBlocked' => SourceBlocked)
    <3>1. PICK new : new.at = Len(rows) /\ relFixture' = [relFixture EXCEPT ![side] = new]
      BY <1>7 DEF SaveRelFixture
    <3>2. relFixture'["source"] = relFixture["source"] \/ relFixture'["source"].at >= Len(rows)
      BY <1>1, <3>1
    <3>3. relFixture'["consumer"] = relFixture["consumer"] \/ relFixture'["consumer"].at >= Len(rows)
      BY <1>1, <3>1
    <3>4. UNCHANGED <<rows, relProfile>> /\ DOMAIN relFixture' = {"source", "consumer"}
      BY <1>1, <1>7, <3>1 DEF SaveRelFixture
    <3>5. Superseded(Len(rows)) => Superseded(Len(rows))'
      BY <3>2, <3>3, <3>4 DEF Superseded
    <3> QED
      BY <3>4, <3>5 DEF SourceBlocked
  <2>4. UNCHANGED <<setup, rel, rows, vruns, exper, recording, byHand>> /\ asking' = form
    BY <1>7 DEF SaveRelFixture
  <2>5. \A g \in RelFields : DocOK(rel'[g], g)
    BY <1>0, <2>4
  <2> HIDE DEF form
  <2> QED
    BY <1>0, <2>1, <2>2, <2>3, <2>4, <2>5, RelKeeps
<1>8. CASE TouchProfile
  <2>1. \A g : Backed(g) => Backed(g)'
    BY <1>8 DEF TouchProfile, Backed
  <2>2. SourceBlocked' => SourceBlocked
    <3>1. relProfile'.at = Len(rows) /\ UNCHANGED <<rows, relFixture>>
      BY <1>8 DEF TouchProfile
    <3>2. Superseded(Len(rows)) => Superseded(Len(rows))'
      BY <1>1, <3>1 DEF Superseded
    <3> QED
      BY <3>1, <3>2 DEF SourceBlocked
  <2>3. /\ UNCHANGED <<setup, rel, rows, vruns, exper, relFixture, recording, byHand, asking>>
        /\ DOMAIN rel' = RelFields /\ \A g \in RelFields : DocOK(rel'[g], g)
    BY <1>0, <1>8 DEF TouchProfile
  <2>4. PICK form : form = asking
    OBVIOUS
  <2> QED
    BY <1>0, <1>1, <2>1, <2>2, <2>3, <2>4, RelKeeps
<1>9. ASSUME NEW f \in RelFields, NEW s, Discover(f, s)
      PROVE  RelInv'
  <2>1. PICK r, base, d : /\ r = rel[f]
                       /\ rel' = [rel EXCEPT ![f] = d]
                       /\ d = (IF s = 0 THEN [r EXCEPT !.stale = TRUE, !.status = "stale"]
                          ELSE IF r.decision = "deleted" THEN r
                          ELSE IF Protected(r)
                          THEN [r EXCEPT !.confirmed = base, !.schema = s, !.stale = @ \/ base # s,
                                         !.status = IF base # s THEN "stale" ELSE @]
                          ELSE [r EXCEPT !.map = s, !.schema = s, !.stale = FALSE])
    BY <1>9 DEF Discover
  <2>2. DocOK(r, f)
    BY <1>0, <2>1
  <2>3. DocOK([r EXCEPT !.stale = TRUE, !.status = "stale"], f)
    BY <2>2 DEF DocOK, RelKeys
  <2>4. DocOK([r EXCEPT !.confirmed = base, !.schema = s, !.stale = @ \/ base # s,
                        !.status = IF base # s THEN "stale" ELSE @], f)
    BY <2>2 DEF DocOK, RelKeys
  <2>5. DocOK([r EXCEPT !.map = s, !.schema = s, !.stale = FALSE], f)
    BY <2>2 DEF DocOK, RelKeys
  <2>6. DocOK(d, f)
    BY <2>1, <2>2, <2>3, <2>4, <2>5
  <2> QED
    BY <1>0, <1>3, <1>9, <2>1, <2>6 DEF Discover
<1>10. ASSUME NEW form, FormOK(form), asking' = form, DOMAIN rel' = RelFields,
             \A f \in RelFields : DocOK(rel'[f], f), vruns' = vruns, AskRest
      PROVE  RelInv'
  BY <1>0, <1>2, <1>10 DEF AskRest
<1>11. ASSUME NEW form, FormOK(form), Ask(form) \/ (Goes(form) /\ UNCHANGED rel)
      PROVE  RelInv'
  BY <1>0, <1>10, <1>11 DEF Ask, Goes
<1>12. CASE PreprocessProject
  <2> DEFINE form == [NoForm EXCEPT !.action = "preprocess_project"]
  <2>1. DOMAIN form = FormKeys /\ form.case = {} /\ form.seen = 0
    BY DEF NoForm, FormKeys
  <2>2. Ask(Loop(form, RelFields))
    BY <1>12 DEF PreprocessProject
  <2> HIDE DEF form
  <2>3. FormOK(Loop(form, RelFields))
    BY <1>1, <2>1, LoopOK
  <2> QED
    BY <1>11, <2>2, <2>3
<1>13. CASE AutoNext
  <2> DEFINE form == [NoForm EXCEPT !.action = "scan"]
  <2>1. DOMAIN form = FormKeys /\ form.case = {} /\ form.seen = 0
    BY DEF NoForm, FormKeys
  <2>2. Ask(AfterLoop(Loop(form, setup.first)))
    BY <1>13 DEF AutoNext
  <2> HIDE DEF form
  <2>3. setup.first \in SUBSET RelFields
    BY <1>1, WorkbenchAssumption
  <2>4. PICK fs : fs = setup.first /\ fs \in SUBSET RelFields
    BY <2>3
  <2>5. FormOK(Loop(form, fs)) /\ Loop(form, fs).stage = "treat"
    BY <1>1, <2>1, <2>4, LoopOK
  <2>6. PICK l : l = Loop(form, fs)
    OBVIOUS
  <2>7. FormOK(AfterLoop(l))
    BY <1>0, <2>5, <2>6, AfterLoopOK
  <2> QED
    BY <1>11, <2>2, <2>4, <2>6, <2>7
<1>14. ASSUME NEW action, NEW f \in RelFields, NEW approved, OpenRelation(action, f, approved)
       PROVE  RelInv'
  <2> DEFINE form == [NoForm EXCEPT !.stage = "pair", !.action = action, !.field = f, !.approved = approved]
  <2>1. /\ DOMAIN form = FormKeys /\ form.docs = <<>> /\ form.todo = {} /\ form.case = {} /\ form.seen = 0
        /\ form.field = f
    BY DEF NoForm, FormKeys
  <2>2. Ask(form)
    BY <1>14 DEF OpenRelation
  <2> HIDE DEF form
  <2> QED
    BY <1>0, <1>11, <2>1, <2>2, FreshOK
<1>15. ASSUME NEW approved, ValidateBatch(approved)
       PROVE  RelInv'
  <2> DEFINE form == [NoForm EXCEPT !.stage = "select", !.action = "validate_ready_batch", !.approved = approved]
  <2>1. /\ DOMAIN form = FormKeys /\ form.docs = <<>> /\ form.todo = {} /\ form.case = {} /\ form.seen = 0
        /\ form.stage = "select"
    BY DEF NoForm, FormKeys
  <2>2. Ask(form)
    BY <1>15 DEF ValidateBatch
  <2> HIDE DEF form
  <2> QED
    BY <1>0, <1>11, <2>1, <2>2, FreshOK
<1>16. CASE LoadPair
  <2>1. PICK fs, form : /\ form = [asking EXCEPT !.peers = Peers(asking.field), !.seen = Len(rows)]
                        /\ fs = Peers(asking.field)
                                 \cup IF asking.action = "validate_relation" THEN {asking.field} ELSE {}
    OBVIOUS
  <2>2. asking.stage = "pair" /\ Goes(Loop(form, fs)) /\ UNCHANGED rel
    BY <1>16, <2>1 DEF LoadPair
  <2>3. asking.field \in RelFields
    BY <1>1, <2>2 DEF FormOK
  <2>4. fs \in SUBSET RelFields
    BY <2>1, <2>3 DEF Peers
  <2>5. DOMAIN form = FormKeys /\ form.case = {} /\ form.seen = Len(rows)
    BY <1>1, <2>1, <2>2 DEF FormOK, FormKeys
  <2>6. FormOK(Loop(form, fs))
    BY <1>1, <2>4, <2>5, LoopOK
  <2> QED
    BY <1>11, <2>2, <2>6
<1>17. ASSUME NEW f \in RelFields, Treat(f)
       PROVE  RelInv'
  <2>1. PICK old : old = asking.docs[f]
    OBVIOUS
  <2>2. PICK r : r = Released(old)
    OBVIOUS
  <2>3. PICK new : new = Preprocessed(r, f)
    OBVIOUS
  <2>4. PICK case : case = IF f \in asking.peers /\ new.status \notin NotReady THEN {f} ELSE {}
    OBVIOUS
  <2>5. PICK form : form = [asking EXCEPT !.todo = @ \ {f}, !.docs[f] = new, !.case = @ \cup case]
    OBVIOUS
  <2>6. /\ asking.stage = "treat" /\ f \in asking.todo
        /\ rel' = [rel EXCEPT ![f] = Saved(rel[f], old, new)]
        /\ Goes(AfterLoop(form))
    BY <1>17, <2>1, <2>2, <2>3, <2>4, <2>5 DEF Treat
  <2>7. f \in DOMAIN asking.docs /\ f \notin asking.case
    BY <1>1, <2>6 DEF FormOK
  <2>8. DocOK(old, f)
    BY <1>1, <2>1, <2>7 DEF FormOK
  <2>9. DocOK(r, f)
    BY <2>2, <2>8 DEF Released, DocOK, RelKeys
  <2>10. DocOK(new, f) /\ new.status = StatusOf(r, Effective(f))
    BY <1>0, <2>3, <2>9, PreprocessedOK
  <2>11. DOMAIN rel' = RelFields /\ \A g \in RelFields : DocOK(rel'[g], g)
    <3>1. PICK d : d = Saved(rel[f], old, new)
      OBVIOUS
    <3>2. DocOK(d, f)
      BY <1>0, <2>10, <3>1, SavedOK
    <3> QED
      BY <1>0, <2>6, <3>1, <3>2
  <2>12. /\ DOMAIN form = FormKeys /\ form.stage = "treat" /\ form.seen = asking.seen
         /\ form.action = asking.action /\ form.todo = asking.todo \ {f}
         /\ form.docs = [asking.docs EXCEPT ![f] = new] /\ form.case = asking.case \cup case
    BY <1>1, <2>5, <2>6 DEF FormOK, FormKeys
  <2>13. /\ DOMAIN form.docs = DOMAIN asking.docs /\ form.docs[f] = new
         /\ \A g \in DOMAIN asking.docs \ {f} : form.docs[g] = asking.docs[g]
    BY <2>7, <2>12
  <2>14. form.todo \subseteq DOMAIN form.docs /\ form.case \cap form.todo = {}
    <3>1. asking.todo \subseteq DOMAIN asking.docs /\ asking.case \cap asking.todo = {}
      BY <1>1, <2>6 DEF FormOK
    <3>2. case \subseteq {f}
      BY <2>4
    <3> QED
      BY <2>12, <2>13, <3>1, <3>2
  <2>15. \A g \in DOMAIN form.docs : DocOK(form.docs[g], g)
    BY <1>1, <2>10, <2>13 DEF FormOK
  <2>16. ASSUME form.action \in AutoForms, form.seen = Len(rows), SourceBlocked, NEW g \in form.case
         PROVE  form.docs[g].status \in Concluded
    <3>1. CASE g \in asking.case
      <4>1. asking.docs[g].status \in Concluded /\ g # f
        BY <1>1, <2>6, <2>7, <2>12, <2>16, <3>1 DEF FormOK
      <4> QED
        BY <2>12, <4>1
    <3>2. CASE g \in case
      <4>1. g = f /\ new.status \notin NotReady
        BY <2>4, <3>2
      <4>2. new.status \in Concluded \cup NotReady
        BY <1>0, <2>10, <2>16, BlockedStatus
      <4> QED
        BY <2>13, <4>1, <4>2
    <3> QED
      BY <2>12, <2>16, <3>1, <3>2
  <2>17. FormOK(form)
    <3>1. form.seen \in Nat /\ form.seen <= Len(rows)
      BY <1>1, <2>12 DEF FormOK
    <3> QED
      BY <2>12, <2>14, <2>15, <2>16, <3>1 DEF FormOK
  <2>18. FormOK(AfterLoop(form))
    BY <1>0, <2>12, <2>17, AfterLoopOK
  <2> QED
    BY <1>10, <2>6, <2>11, <2>18 DEF Goes
<1>18. CASE PickReady
  <2>1. asking.stage = "pick" /\ UNCHANGED rel
        /\ \/ Goes(NoForm)
           \/ \E f \in RelFields : Goes([asking EXCEPT !.stage = "pair", !.field = f])
    BY <1>18 DEF PickReady
  <2>2. ASSUME NEW f \in RelFields PROVE FormOK([asking EXCEPT !.stage = "pair", !.field = f])
    <3>1. PICK form : form = [asking EXCEPT !.stage = "pair", !.field = f]
      OBVIOUS
    <3>2. /\ DOMAIN form = FormKeys /\ form.docs = asking.docs /\ form.case = {} /\ form.seen = asking.seen
          /\ form.stage = "pair" /\ form.field = f
      BY <1>1, <2>1, <3>1 DEF FormOK, FormKeys
    <3>3. FormOK(form)
      BY <1>1, <3>2 DEF FormOK
    <3> QED
      BY <3>1, <3>3
  <2> QED
    BY <1>0, <1>11, <2>1, <2>2, NoFormOK
<1>19. CASE SelectReady
  <2>1. PICK ready : ready = {f \in RelFields : rel[f].status = "auto_ready" /\ rel[f].decision \notin Hidden}
    OBVIOUS
  <2>2. PICK form : form = [asking EXCEPT !.stage = "blockers", !.docs = [f \in ready |-> rel[f]], !.case = ready]
    OBVIOUS
  <2>3. UNCHANGED rel /\ (Goes(NoForm) \/ Goes(form))
    BY <1>19, <2>1, <2>2 DEF SelectReady
  <2>4. /\ DOMAIN form = FormKeys /\ form.docs = [f \in ready |-> rel[f]] /\ form.seen = asking.seen
        /\ form.stage = "blockers"
    BY <1>1, <2>2 DEF FormOK, FormKeys
  <2>5. \A f \in DOMAIN form.docs : DocOK(form.docs[f], f)
    BY <1>0, <2>1, <2>4
  <2>6. FormOK(form)
    BY <1>1, <2>4, <2>5 DEF FormOK
  <2> QED
    BY <1>0, <1>11, <2>3, <2>6, NoFormOK
<1>20. CASE LeavesOutBlocked
  <2>1. PICK form : form = [asking EXCEPT !.stage = "freeze", !.seen = Len(rows)]
    OBVIOUS
  <2>2. UNCHANGED rel /\ (Goes(NoForm) \/ (~SourceBlocked /\ Goes(form)))
    BY <1>20, <2>1 DEF LeavesOutBlocked
  <2>3. /\ DOMAIN form = FormKeys /\ form.docs = asking.docs /\ form.seen = Len(rows) /\ form.stage = "freeze"
    BY <1>1, <2>1 DEF FormOK, FormKeys
  <2>4. ~SourceBlocked => FormOK(form)
    BY <1>1, <2>3 DEF FormOK
  <2> QED
    BY <1>0, <1>11, <2>2, <2>4, NoFormOK
<1>21. CASE FreezePlan
  <2>1. PICK key, form : form = [asking EXCEPT !.stage = "insert", !.key = key] /\ (Goes(NoForm) \/ Goes(form))
    BY <1>21 DEF FreezePlan
  <2>2. asking.stage = "freeze" /\ UNCHANGED rel
    BY <1>21 DEF FreezePlan
  <2>3. /\ DOMAIN form = FormKeys /\ form.docs = asking.docs /\ form.seen = asking.seen /\ form.stage = "insert"
        /\ form.case = asking.case /\ form.action = asking.action
    BY <1>1, <2>1 DEF FormOK, FormKeys
  <2>4. FormOK(form)
    BY <1>1, <2>2, <2>3 DEF FormOK
  <2> QED
    BY <1>0, <1>11, <2>1, <2>2, <2>4, NoFormOK
<1>22. CASE InsertRun
  <2>1. PICK run, form : form = [NoForm EXCEPT !.stage = "mark", !.case = asking.case, !.run = run] /\ asking' = form
    BY <1>22 DEF InsertRun
  <2>2. Sequence(vruns') /\ rel' = rel /\ AskRest
    BY <1>0, <1>22, InsertIs DEF InsertRun
  <2>3. DOMAIN form = FormKeys /\ form.docs = <<>> /\ form.seen = 0 /\ form.stage = "mark"
    BY <2>1 DEF NoForm, FormKeys
  <2>4. FormOK(form)
    <3>1. DOMAIN form.docs = {}
      BY <2>3
    <3> QED
      BY <1>1, <2>3, <3>1 DEF FormOK
  <2> QED
    BY <1>0, <1>2, <2>1, <2>2, <2>4 DEF AskRest
<1>23. CASE MarkRunning
  <2>1. \A f \in RelFields : DocOK([rel[f] EXCEPT !.status = "running", !.run = asking.run], f)
    BY <1>0 DEF DocOK, RelKeys
  <2>2. DOMAIN rel' = RelFields /\ \A f \in RelFields : DocOK(rel'[f], f)
    BY <1>0, <1>23, <2>1 DEF MarkRunning
  <2> QED
    BY <1>0, <1>10, <1>23, <2>2, NoFormOK DEF MarkRunning, Goes
<1>24. CASE AskDies
  BY <1>0, <1>11, <1>24, NoFormOK DEF AskDies
<1>25. ASSUME UNCHANGED <<rows, exper, recording, byHand, setup, relFixture, relProfile, asking>>, Sequence(vruns'),
              DOMAIN rel' = RelFields, \A f \in RelFields : DocOK(rel'[f], f)
       PROVE  RelInv'
  <2>1. PICK form : form = asking
    OBVIOUS
  <2> QED
    BY <1>1, <1>2, <1>25, <2>1
<1>26. CASE RecordRelation
  <2>1. PICK f : f = recording.field
    OBVIOUS
  <2>2. f \in RelFields /\ DocOK(recording.doc, f) /\ (recording.status \in Successful => Backed(f))
    BY <1>26, <2>1 DEF RecordRelation, RelInv, CopyOK
  <2>3. DocOK(AfterResult(recording.doc, recording.status), f)
    BY <2>2, AfterResultOK
  <2>4. PICK new : new = Preprocessed(AfterResult(recording.doc, recording.status), f)
    OBVIOUS
  <2>5. DocOK(new, f)
    BY <1>0, <2>3, <2>4, PreprocessedOK
  <2>6. PICK doc : doc = Saved(rel[f], recording.doc, new)
    OBVIOUS
  <2>7. DocOK(doc, f)
    BY <1>0, <2>2, <2>5, <2>6, SavedOK
  <2>8. /\ rel' = [rel EXCEPT ![f] = doc] /\ exper' = [exper EXCEPT ![f] = Experience(doc, exper[f])]
        /\ recording' = NoCopy
        /\ UNCHANGED <<setup, rows, vruns, byHand, relFixture, relProfile, asking>>
    BY <1>26, <2>1, <2>4, <2>6 DEF RecordRelation
  <2>9. \A g : Backed(g) <=> Backed(g)'
    BY <2>8 DEF Backed
  <2>10. DOMAIN rel' = RelFields /\ \A g \in RelFields : DocOK(rel'[g], g)
    BY <1>0, <2>2, <2>7, <2>8
  <2>11. CopyOK'
    BY <2>8 DEF CopyOK, NoCopy
  <2>12. DOMAIN exper' = RelFields /\ ExperienceIsBacked'
    <3>1. \A g \in RelFields : exper[g] = "trusted" => Backed(g)
      BY DEF RelInv, ExperienceIsBacked, Backed
    <3>2. Experience(doc, exper[f]) = "trusted" => Backed(f)
      BY <2>2, <2>7, <3>1, ExperienceOK
    <3>3. DOMAIN exper' = RelFields /\ \A g \in RelFields : exper'[g] = "trusted" => Backed(g)'
      BY <1>0, <2>2, <2>8, <2>9, <3>1, <3>2
    <3> QED
      BY <3>3 DEF ExperienceIsBacked, Backed
  <2>13. SourceBlocked' => SourceBlocked
    BY <2>8 DEF SourceBlocked, Superseded
  <2>14. PICK form : form = asking
    OBVIOUS
  <2> QED
    BY <1>0, <1>1, <2>8, <2>9, <2>10, <2>11, <2>12, <2>13, <2>14, RelKeeps
<1>27. ASSUME NEW i \in 1..Len(vruns), NEW f \in RelFields, RecordRow(i, f)
       PROVE  RelInv'
  <2>1. PICK e : /\ rows' = Append(rows, e) /\ e.field = f /\ e.status = vruns[i].outcome
                 /\ recording' = [field |-> f, doc |-> rel[f], status |-> vruns[i].outcome]
                 /\ UNCHANGED <<setup, rel, vruns, exper, byHand, relFixture, asking>>
    BY <1>27 DEF RecordRow
  <2>2. PICK S : rows \in Seq(S)
    BY <1>0 DEF Sequence
  <2>3. rows \in Seq(S \cup {e})
    BY <2>2
  <2>4. /\ rows' \in Seq(S \cup {e}) /\ Len(rows') = Len(rows) + 1 /\ Len(rows) \in Nat
        /\ rows'[Len(rows')] = e /\ \A k \in 1..Len(rows) : rows'[k] = rows[k]
    BY <2>1, <2>3
  <2>5. \A g : Backed(g) => Backed(g)'
    BY <2>1, <2>4 DEF Backed
  <2>6. vruns[i].outcome \in Successful => Backed(f)'
    BY <2>1, <2>4 DEF Backed
  <2>7. DocOK(rel[f], f)'
    BY <1>0, <2>1, <2>5 DEF DocOK
  <2>8. CopyOK'
    <3>1. recording'.field = f /\ recording'.doc = rel[f] /\ recording'.status = vruns[i].outcome
      BY <2>1
    <3> QED
      BY <2>1, <2>6, <2>7, <3>1 DEF CopyOK, DocOK
  <2>9. Sequence(rows')
    BY <2>4 DEF Sequence
  <2>10. PICK form : form = asking
    OBVIOUS
  <2> QED
    BY <1>0, <1>1, <2>1, <2>4, <2>5, <2>8, <2>9, <2>10, RelKeeps
<1>28. ASSUME NEW i \in 1..Len(vruns), NEW outcome, ReplayCase(i, outcome)
       PROVE  RelInv'
  <2>1. vruns' = [vruns EXCEPT ![i] = [vruns[i] EXCEPT !.outcome = outcome]]
    BY <1>0, <1>28 DEF ReplayCase, Sequence
  <2>2. Sequence(vruns')
    BY <1>0, <2>1, RunChanged
  <2> QED
    BY <1>0, <1>25, <1>28, <2>2 DEF ReplayCase, RunRest
<1>29. ASSUME NEW i \in 1..Len(vruns), NEW from, NEW to, RunTo(i, from, to)
       PROVE  Sequence(vruns')
  <2>1. vruns' = [vruns EXCEPT ![i] = [vruns[i] EXCEPT !.status = to]]
    BY <1>0, <1>29 DEF RunTo, Sequence
  <2> QED
    BY <1>0, <2>1, RunChanged
<1>30. ASSUME NEW i \in 1..Len(vruns), ClaimRun(i) \/ FinishRun(i) \/ DropRun(i)
       PROVE  RelInv'
  BY <1>0, <1>25, <1>29, <1>30 DEF ClaimRun, FinishRun, DropRun, RunRest
<1>31. ASSUME NEW i, NEW status, status # "verified", rel' = SyncRunState(i, status)
       PROVE  DOMAIN rel' = RelFields /\ \A f \in RelFields : DocOK(rel'[f], f)
  <2>1. \A f \in RelFields : DocOK([rel[f] EXCEPT !.status = status], f)
    BY <1>0, <1>31 DEF DocOK, RelKeys
  <2> QED
    BY <1>0, <1>31, <2>1 DEF SyncRunState
<1>32. ASSUME NEW i \in 1..Len(vruns), PauseRun(i) \/ StopRun(i) \/ ResumeRun(i)
       PROVE  RelInv'
  BY <1>0, <1>25, <1>29, <1>31, <1>32 DEF PauseRun, StopRun, ResumeRun, RunRest
<1>33. CASE UNCHANGED relVars
  BY <1>0, <1>3, <1>33 DEF relVars
<1> QED
  BY <1>4, <1>5, <1>6, <1>7, <1>8, <1>9, <1>12, <1>13, <1>14, <1>15, <1>16, <1>17, <1>18,
     <1>19, <1>20, <1>21, <1>22, <1>23, <1>24, <1>26, <1>27, <1>28, <1>30, <1>32,
     <1>33 DEF RelNext

\* For any relations, saves, discoveries, validations and refreshes interleaved
\* (parameter_relation_workbench.py): a relation whose experience is trusted was
\* declared so by a person, or a validation of its own succeeded, although the
\* service works on copies and shares the rejection of a source.
THEOREM ExperienceBacked == RelSpec => []ExperienceIsBacked
<1>1. RelInv => ExperienceIsBacked
  BY DEF RelInv
<1> QED
  BY <1>1, InitRel, NextRel, PTL DEF RelSpec

\* A new run of an automatic form comes from a case that was let in while the
\* source was not blocked, as far as the form could see.
LEMMA NextUnblocked ==
    ASSUME RelInv, [RelNext]_relVars, AutoInsert, SourceBlocked
    PROVE  Len(rows) > asking.seen \/ \A f \in asking.case : asking.docs[f].status \in Concluded
<1>0. /\ Sequence(rows) /\ Sequence(vruns) /\ Len(rows) \in Nat /\ Len(vruns) \in Nat /\ FormOK(asking)
      /\ Len(vruns') > Len(vruns) /\ vruns' # vruns /\ asking.action \in AutoForms
  BY DEF RelInv, Sequence, AutoInsert, AutoForms
<1>1. ASSUME NEW i \in 1..Len(vruns), NEW v, vruns' = [vruns EXCEPT ![i] = v]
      PROVE  FALSE
  BY <1>0, <1>1, RunChanged
<1>2. ASSUME NEW i \in 1..Len(vruns), NEW from, NEW to, RunTo(i, from, to)
      PROVE  FALSE
  <2>1. vruns' = [vruns EXCEPT ![i] = [vruns[i] EXCEPT !.status = to]]
    BY <1>0, <1>2 DEF RunTo, Sequence
  <2> QED
    BY <1>1, <2>1
<1>3. ASSUME NEW i \in 1..Len(vruns), NEW outcome, ReplayCase(i, outcome)
      PROVE  FALSE
  <2>1. vruns' = [vruns EXCEPT ![i] = [vruns[i] EXCEPT !.outcome = outcome]]
    BY <1>0, <1>3 DEF ReplayCase, Sequence
  <2> QED
    BY <1>1, <2>1
<1>4. ASSUME NEW i \in 1..Len(vruns),
             ClaimRun(i) \/ FinishRun(i) \/ PauseRun(i) \/ StopRun(i) \/ ResumeRun(i) \/ DropRun(i)
      PROVE  FALSE
  BY <1>2, <1>4 DEF ClaimRun, FinishRun, PauseRun, StopRun, ResumeRun, DropRun
<1>5. ASSUME NEW f \in RelFields,
             \/ \E m : SaveMapping(f, m) \/ SaveManual(f, m) \/ Discover(f, m)
             \/ DeleteRelation(f) \/ (\E side, filled : SaveRelFixture(f, side, filled))
             \/ \E i : RecordRow(i, f)
      PROVE  FALSE
  BY <1>0, <1>5 DEF SaveMapping, SaveManual, Discover, DeleteRelation, SaveRelFixture, RecordRow
<1>6. ASSUME NEW form, Ask(form) \/ Goes(form)
      PROVE  FALSE
  BY <1>0, <1>6 DEF Ask, Goes
<1>7. ASSUME NEW f \in RelFields, (\E action, approved : OpenRelation(action, f, approved)) \/ Treat(f)
      PROVE  FALSE
  BY <1>6, <1>7 DEF OpenRelation, Treat
<1>8. CASE PreprocessProject \/ AutoNext \/ \E approved : ValidateBatch(approved)
  BY <1>6, <1>8 DEF PreprocessProject, AutoNext, ValidateBatch
<1>9. CASE LoadPair \/ PickReady \/ SelectReady \/ LeavesOutBlocked \/ FreezePlan \/ MarkRunning \/ AskDies
  BY <1>6, <1>9 DEF LoadPair, PickReady, SelectReady, LeavesOutBlocked, FreezePlan, MarkRunning, AskDies
<1>10. CASE TouchProfile \/ RecordRelation \/ UNCHANGED relVars
  BY <1>0, <1>10 DEF TouchProfile, RecordRelation, relVars
<1>11. CASE InsertRun
  <2>1. asking.stage = "insert"
    BY <1>11 DEF InsertRun
  <2>2. asking.seen \in Nat /\ asking.seen <= Len(rows)
    BY <1>0 DEF FormOK
  <2>3. CASE asking.seen = Len(rows)
    BY <1>0, <2>1, <2>3 DEF FormOK
  <2> QED
    BY <1>0, <2>2, <2>3
<1> QED
  BY <1>3, <1>4, <1>5, <1>7, <1>8, <1>9, <1>10, <1>11 DEF RelNext

\* For any relations, forms, edits and validations interleaved
\* (views_parameter_workbench.py, parameter_relation_workbench.py): an automatic run
\* that meets a rejection of the shared source was frozen before the worker recorded
\* it, or holds relations only that were concluded anyhow.
THEOREM AutomaticUnblocked == RelSpec => AutomaticRunsUnblocked
<1>1. RelSpec => []RelInv
  BY InitRel, NextRel, PTL DEF RelSpec
<1>2. RelInv /\ [RelNext]_relVars =>
        [AutoInsert /\ SourceBlocked =>
           Len(rows) > asking.seen \/ \A f \in asking.case : asking.docs[f].status \in Concluded]_relVars
  BY NextUnblocked
<1> QED
  BY <1>1, <1>2, PTL DEF RelSpec, AutomaticRunsUnblocked

-----------------------------------------------------------------------------
(* PayloadScreen.                                                          *)

ScreenSpec == ScreenInit /\ [][ScreenNext]_screenVars

ScreenReplies == [Targets -> [Probes -> ReplyChoices \cup {Unsent}]]

ScreenTypes ==
    /\ replies \in ScreenReplies
    /\ screen.targets \subseteq Targets

\* A verdict comes with the end, and nothing is sent after it.
ScreenInv ==
    /\ ScreenTypes
    /\ judged = "no_vuln" => stage = "ended"
    /\ ClearedByReplies

LEMMA InitScreen == ScreenInit => ScreenInv
<1> SUFFICES ASSUME ScreenInit PROVE ScreenInv
  OBVIOUS
<1>1. screen.targets \subseteq Targets
  <2>1. PICK registered \in BOOLEAN : screen \in PlannedScreens(registered) \cup RecordedScreens(registered)
    BY DEF ScreenInit
  <2>2. CASE screen \in PlannedScreens(registered)
    <3>1. PICK class, doc : screen = [class |-> class, targets |-> ManifestTargets(doc), readback |-> registered]
      BY <2>2 DEF PlannedScreens
    <3>2. screen.targets = ManifestTargets(doc)
      BY <3>1
    <3> QED
      BY <3>2 DEF ManifestTargets
  <2>3. CASE screen \in RecordedScreens(registered)
    <3>1. PICK ts \in SUBSET Targets : \E class : screen = [class |-> class, targets |-> ts, readback |-> registered]
      BY <2>3 DEF RecordedScreens
    <3> QED
      BY <3>1
  <2> QED
    BY <2>1, <2>2, <2>3
<1>2. replies \in ScreenReplies
  BY DEF ScreenInit, ScreenReplies
<1> QED
  BY <1>1, <1>2 DEF ScreenInit, ScreenInv, ScreenTypes, ClearedByReplies

\* A row that is neither interesting, blocked nor unusable had an answer of the
\* service to every probe.
LEMMA CleanRow ==
    ASSUME NEW row \in [Probes -> ReplyChoices], RowVerdict(row) \notin {"interest", "not_evaluable", "blocked"}
    PROVE  \A p \in Probes : UsableReply(row[p])
<1>1. \A p \in Probes : ~Problem(row[p])
  BY DEF RowVerdict
<1>2. \A p \in Probes : row[p] \in [status : {"base", "body", "rejected", "server", "problem"}, sign : BOOLEAN]
  BY ScreenAssumption
<1>3. \A p \in Probes : row[p].status \in {"base", "body", "rejected", "server", "problem"}
  BY <1>2
<1> QED
  BY <1>1, <1>3 DEF Problem, UsableReply

LEMMA NextScreen ==
    ASSUME ScreenInv, [ScreenNext]_screenVars
    PROVE  ScreenInv'
<1> USE DEF ScreenInv, ScreenTypes
<1>1. ASSUME NEW verdict, verdict # "no_vuln", Ended(verdict)
      PROVE  ScreenInv'
  BY <1>1 DEF Ended, ClearedByReplies
<1>2. CASE ReadbackMissing \/ RequestRefused \/ NothingToScreen
  BY <1>1, <1>2 DEF ReadbackMissing, RequestRefused, NothingToScreen
<1>3. ASSUME NEW outcome, Baseline(outcome)
      PROVE  ScreenInv'
  <2>1. CASE outcome = "usable"
    BY <1>3, <2>1 DEF Baseline, ClearedByReplies
  <2>2. CASE outcome # "usable"
    BY <1>1, <1>3, <2>2 DEF Baseline
  <2> QED
    BY <2>1, <2>2
<1>4. ASSUME NEW t \in Targets, NEW row \in [Probes -> ReplyChoices], ScreenParameter(t, row)
      PROVE  ScreenInv'
  <2>1. judged # "no_vuln"
    BY <1>4 DEF ScreenParameter
  <2>2. replies' \in ScreenReplies
    BY <1>4 DEF ScreenParameter, ScreenReplies
  <2> QED
    BY <1>4, <2>1, <2>2 DEF ScreenParameter, ClearedByReplies
<1>5. CASE Judge
  <2>1. CASE judged' = "no_vuln" /\ SendsProbes(screen.class)
    <3> SUFFICES ASSUME NEW t \in screen.targets
                 PROVE  \A p \in Probes : UsableReply(replies[t][p])
      BY <1>5, <2>1 DEF Judge, Ended, ClearedByReplies
    <3>1. \A p \in Probes : replies[t][p] # Unsent
      BY <1>5, <2>1 DEF Judge
    <3>2. replies[t] \in [Probes -> ReplyChoices]
      BY <3>1 DEF ScreenReplies
    <3>3. JudgeRows(screen.targets) = "no_vuln"
      BY <1>5, <2>1 DEF Judge, Ended
    <3>4. RowVerdict(replies[t]) \notin {"interest", "not_evaluable", "blocked"}
      BY <3>3 DEF JudgeRows
    <3> QED
      BY <3>2, <3>4, CleanRow
  <2>2. CASE ~(judged' = "no_vuln" /\ SendsProbes(screen.class))
    BY <1>5, <2>2 DEF Judge, Ended, ClearedByReplies
  <2> QED
    BY <2>1, <2>2
<1>6. CASE UNCHANGED screenVars
  BY <1>6 DEF screenVars, ClearedByReplies
<1> QED
  BY <1>2, <1>3, <1>4, <1>5, <1>6 DEF ScreenNext

\* For any probes, targets and replies (sqli_screen.py): where probes are sent, the
\* screen says no_vuln only after the service itself has answered every probe of
\* every target; one that is refused, throttled or lost never clears it.
THEOREM ScreenCleared == ScreenSpec => []ClearedByReplies
<1>1. ScreenInv => ClearedByReplies
  BY DEF ScreenInv
<1> QED
  BY <1>1, InitScreen, NextScreen, PTL DEF ScreenSpec

-----------------------------------------------------------------------------
(* ParameterArchive.  An id an import has taken and not written yet is as  *)
(* good as written.                                                        *)

ArchiveSpec == ArchiveInit /\ [][ArchiveNext]_archiveVars

\* Names whose id an import has taken from the counter and not written yet.
Pending(i) == IF importJobs[i].pc = "upsert" THEN DOMAIN importJobs[i].ids ELSE {}

JobOK(i) ==
    /\ importJobs[i].pc = "disassemble" => importJobs[i].capture \in Captures \cup Exported
    /\ importJobs[i].pc = "allocate" =>
         /\ importJobs[i].missing \subseteq ParamNames
         /\ \A n \in importJobs[i].names : n \in ParamNames /\ (n \in importJobs[i].missing \/ paramRows[n].id # 0)
    /\ importJobs[i].pc = "upsert" =>
         /\ importJobs[i].ids \in [DOMAIN importJobs[i].ids -> 1..counter]
         /\ \A n \in importJobs[i].names : n \in ParamNames /\ (n \in DOMAIN importJobs[i].ids \/ paramRows[n].id # 0)

IdTypes ==
    /\ counter \in Nat
    /\ DOMAIN paramRows = ParamNames /\ \A n \in ParamNames : paramRows[n].id \in 0..counter
    /\ \A d \in documents : d[3] \in ParamNames
    /\ DOMAIN importJobs = Imports /\ \A i \in Imports : JobOK(i)

\* No id is in two places, be it taken or written.
PendingDiffer ==
    /\ \A i \in Imports : \A m, n \in Pending(i) : m # n => importJobs[i].ids[m] # importJobs[i].ids[n]
    /\ \A i, j \in Imports : i # j => \A m \in Pending(i), n \in Pending(j) : importJobs[i].ids[m] # importJobs[j].ids[n]
    /\ \A i \in Imports : \A m \in Pending(i), n \in ParamNames : importJobs[i].ids[m] # paramRows[n].id

IdInv == IdTypes /\ PendingDiffer /\ ParameterIdsDiffer

LEMMA InitIds == ArchiveInit => IdInv
<1> SUFFICES ASSUME ArchiveInit PROVE IdInv
  OBVIOUS
<1>1. IdTypes
  BY DEF ArchiveInit, IdTypes, JobOK
<1>2. PendingDiffer
  BY DEF ArchiveInit, PendingDiffer, Pending
<1>3. ParameterIdsDiffer
  BY DEF ArchiveInit, ParameterIdsDiffer
<1> QED
  BY <1>1, <1>2, <1>3 DEF IdInv

\* The ranks of the names in a set are distinct and go up to its size.
LEMMA RanksDiffer ==
    ASSUME NEW S \in SUBSET ParamNames
    PROVE  /\ Cardinality(S) \in Nat
           /\ \A n \in S : Cardinality({k \in S : k <= n}) \in 1..Cardinality(S)
           /\ \A m, n \in S : m # n => Cardinality({k \in S : k <= m}) # Cardinality({k \in S : k <= n})
<1> DEFINE low(n) == {k \in S : k <= n}
<1>1. IsFiniteSet(S) /\ S \subseteq Nat
  BY ArchiveAssumption, FS_Subset
<1>2. Cardinality(S) \in Nat
  BY <1>1, FS_CardinalityType
<1>3. \A n \in S : IsFiniteSet(low(n)) /\ Cardinality(low(n)) \in Nat /\ Cardinality(low(n)) <= Cardinality(S)
  <2> SUFFICES ASSUME NEW n \in S
               PROVE  IsFiniteSet(low(n)) /\ Cardinality(low(n)) \in Nat /\ Cardinality(low(n)) <= Cardinality(S)
    OBVIOUS
  <2>1. low(n) \in SUBSET S
    OBVIOUS
  <2> HIDE DEF low
  <2> QED
    BY <1>1, <2>1, FS_Subset, FS_CardinalityType
<1>4. \A n \in S : Cardinality(low(n)) # 0
  <2> SUFFICES ASSUME NEW n \in S PROVE Cardinality(low(n)) # 0
    OBVIOUS
  <2>1. n \in low(n)
    BY <1>1
  <2> HIDE DEF low
  <2> QED
    BY <1>3, <2>1, FS_EmptySet
<1>5. ASSUME NEW m \in S, NEW n \in S, m < n
      PROVE  Cardinality(low(m)) < Cardinality(low(n))
  <2>0. m \in Nat /\ n \in Nat /\ \A k \in S : k \in Nat
    BY <1>1
  <2>1. low(m) \in SUBSET low(n) /\ n \in low(n) /\ n \notin low(m)
    <3>1. \A k \in S : k <= m => k <= n
      BY <1>5, <2>0
    <3>2. n \in low(n) /\ n \notin low(m)
      BY <1>5, <2>0
    <3> QED
      BY <3>1, <3>2
  <2> HIDE DEF low
  <2>2. Cardinality(low(m)) <= Cardinality(low(n)) /\ (Cardinality(low(m)) = Cardinality(low(n)) => low(m) = low(n))
    BY <1>3, <2>1, FS_Subset
  <2> QED
    BY <1>3, <2>1, <2>2
<1>6. \A m, n \in S : m # n => Cardinality(low(m)) # Cardinality(low(n))
  <2> SUFFICES ASSUME NEW m \in S, NEW n \in S, m # n PROVE Cardinality(low(m)) # Cardinality(low(n))
    OBVIOUS
  <2> HIDE DEF low
  <2>1. m < n \/ n < m
    BY <1>1
  <2> QED
    BY <1>3, <1>5, <2>1
<1>7. \A n \in S : Cardinality(low(n)) \in 1..Cardinality(S)
  <2> HIDE DEF low
  <2> QED
    BY <1>2, <1>3, <1>4
<1> QED
  BY <1>2, <1>6, <1>7

\* An import moves on with ids untouched.
LEMMA JobMoves ==
    ASSUME IdInv, NEW i \in Imports, NEW r, importJobs' = [importJobs EXCEPT ![i] = r],
           importJobs[i].pc # "upsert", r.pc # "upsert",
           UNCHANGED <<counter, paramRows>>,
           \A d \in documents' : d[3] \in ParamNames,
           JobOK(i)'
    PROVE  IdInv'
<1>1. /\ DOMAIN importJobs' = Imports /\ importJobs'[i] = r
      /\ \A j \in Imports : j # i => importJobs'[j] = importJobs[j]
  BY DEF IdInv, IdTypes
<1>2. IdTypes'
  BY <1>1 DEF IdInv, IdTypes, JobOK
<1>3. \A j \in Imports : Pending(j)' = Pending(j) /\ (Pending(j) # {} => importJobs'[j] = importJobs[j])
  BY <1>1 DEF Pending
<1>4. PendingDiffer'
  BY <1>3 DEF IdInv, PendingDiffer
<1>5. ParameterIdsDiffer'
  BY DEF IdInv, ParameterIdsDiffer
<1> QED
  BY <1>2, <1>4, <1>5 DEF IdInv

LEMMA AllocateKeeps ==
    ASSUME IdInv, NEW i \in Imports, Allocate(i)
    PROVE  IdInv'
<1> DEFINE m == importJobs[i]
           missing == m.missing
<1>0. /\ m.pc = "allocate" /\ missing \in SUBSET ParamNames
      /\ \A n \in m.names : n \in ParamNames /\ (n \in missing \/ paramRows[n].id # 0)
  BY DEF Allocate, IdInv, IdTypes, JobOK
<1>1. PICK ids : /\ ids = [n \in missing |-> counter + Cardinality({k \in missing : k <= n})]
                 /\ importJobs' = [importJobs EXCEPT ![i] = [pc |-> "upsert", path |-> m.path, names |-> m.names, ids |-> ids]]
                 /\ counter' = counter + Cardinality(missing)
                 /\ UNCHANGED <<sampleRows, documents, paramRows>>
  BY DEF Allocate, ImportGo
<1>2. counter \in Nat /\ counter' \in Nat /\ counter <= counter'
  BY <1>0, <1>1, RanksDiffer DEF IdInv, IdTypes
<1>3. DOMAIN ids = missing /\ \A n \in missing : ids[n] \in 1..counter' /\ ids[n] > counter
  BY <1>0, <1>1, <1>2, RanksDiffer
<1>4. \A n, k \in missing : n # k => ids[n] # ids[k]
  <2> SUFFICES ASSUME NEW n \in missing, NEW k \in missing, n # k PROVE ids[n] # ids[k]
    OBVIOUS
  <2>1. /\ Cardinality({q \in missing : q <= n}) \in Nat /\ Cardinality({q \in missing : q <= k}) \in Nat
        /\ Cardinality({q \in missing : q <= n}) # Cardinality({q \in missing : q <= k})
    BY <1>0, RanksDiffer
  <2>2. /\ ids[n] = counter + Cardinality({q \in missing : q <= n})
        /\ ids[k] = counter + Cardinality({q \in missing : q <= k})
    BY <1>1
  <2> QED
    BY <1>2, <2>1, <2>2
<1>5. PICK r : r = [pc |-> "upsert", path |-> m.path, names |-> m.names, ids |-> ids]
  OBVIOUS
<1>6. r.pc = "upsert" /\ r.names = m.names /\ r.ids = ids
  BY <1>5
<1>7. /\ DOMAIN importJobs' = Imports /\ importJobs'[i] = r
      /\ \A j \in Imports : j # i => importJobs'[j] = importJobs[j]
  BY <1>1, <1>5 DEF IdInv, IdTypes
<1>8. ids \in [missing -> 1..counter']
  BY <1>1, <1>3
<1> HIDE DEF m
<1>9. JobOK(i)'
  BY <1>0, <1>1, <1>3, <1>6, <1>7, <1>8 DEF JobOK
<1>10. \A j \in Imports : j # i => JobOK(j)'
  <2> SUFFICES ASSUME NEW j \in Imports, j # i PROVE JobOK(j)'
    OBVIOUS
  <2>1. 1..counter \subseteq 1..counter'
    BY <1>2
  <2>2. JobOK(j)
    BY DEF IdInv, IdTypes
  <2> QED
    BY <1>1, <1>7, <2>1, <2>2 DEF JobOK
<1>11. \A n \in ParamNames : paramRows'[n].id \in 0..counter'
  BY <1>1, <1>2 DEF IdInv, IdTypes
<1>12. IdTypes'
  BY <1>1, <1>2, <1>7, <1>9, <1>10, <1>11 DEF IdInv, IdTypes
<1>13. Pending(i)' = missing /\ \A j \in Imports : j # i => Pending(j)' = Pending(j)
  BY <1>3, <1>6, <1>7 DEF Pending
<1>14. \A j \in Imports : \A n \in Pending(j) : importJobs[j].ids[n] \in 1..counter
  BY DEF IdInv, IdTypes, JobOK, Pending
<1>15. PendingDiffer'
  <2>1. \A j \in Imports : \A k, n \in Pending(j)' : k # n => importJobs'[j].ids[k] # importJobs'[j].ids[n]
    BY <1>4, <1>6, <1>7, <1>13 DEF IdInv, PendingDiffer
  <2>2. ASSUME NEW j \in Imports, j # i, NEW k \in missing, NEW n \in Pending(j)
        PROVE  ids[k] # importJobs[j].ids[n]
    <3>1. ids[k] > counter /\ ids[k] \in Int
      BY <1>3
    <3>2. importJobs[j].ids[n] <= counter /\ importJobs[j].ids[n] \in Int
      BY <1>2, <1>14
    <3> QED
      BY <1>2, <3>1, <3>2
  <2>3. \A j, k \in Imports : j # k => \A n \in Pending(j)', q \in Pending(k)' : importJobs'[j].ids[n] # importJobs'[k].ids[q]
    BY <1>6, <1>7, <1>13, <2>2 DEF IdInv, PendingDiffer
  <2>4. ASSUME NEW k \in missing, NEW n \in ParamNames
        PROVE  ids[k] # paramRows[n].id
    <3>1. ids[k] > counter /\ ids[k] \in Int
      BY <1>3
    <3>2. paramRows[n].id <= counter /\ paramRows[n].id \in Int
      BY <1>2 DEF IdInv, IdTypes
    <3> QED
      BY <1>2, <3>1, <3>2
  <2>5. \A j \in Imports : \A k \in Pending(j)', n \in ParamNames : importJobs'[j].ids[k] # paramRows'[n].id
    BY <1>1, <1>6, <1>7, <1>13, <2>4 DEF IdInv, PendingDiffer
  <2> QED
    BY <2>1, <2>3, <2>5 DEF PendingDiffer
<1>16. ParameterIdsDiffer'
  BY <1>1 DEF IdInv, ParameterIdsDiffer
<1> QED
  BY <1>12, <1>15, <1>16 DEF IdInv

LEMMA UpsertKeeps ==
    ASSUME IdInv, NEW i \in Imports, Upsert(i)
    PROVE  IdInv'
<1> DEFINE m == importJobs[i]
<1>0. /\ m.pc = "upsert" /\ m.ids \in [DOMAIN m.ids -> 1..counter] /\ counter \in Nat
      /\ \A n \in m.names : n \in ParamNames /\ (n \in DOMAIN m.ids \/ paramRows[n].id # 0)
  BY DEF Upsert, IdInv, IdTypes, JobOK
<1>1. Pending(i) = DOMAIN m.ids
  BY <1>0 DEF Pending
<1>2. /\ importJobs' = [importJobs EXCEPT ![i] = [pc |-> "end"]]
      /\ UNCHANGED <<documents, counter>>
      /\ paramRows' = [n \in ParamNames |->
             IF n \notin m.names THEN paramRows[n]
             ELSE [id |-> IF paramRows[n].id = 0 THEN m.ids[n] ELSE paramRows[n].id,
                   paths |-> paramRows[n].paths \cup {m.path}]]
  BY DEF Upsert, ImportGo
<1>3. /\ DOMAIN importJobs' = Imports /\ importJobs'[i].pc = "end"
      /\ \A j \in Imports : j # i => importJobs'[j] = importJobs[j]
  BY <1>2 DEF IdInv, IdTypes
<1>4. /\ DOMAIN paramRows' = ParamNames
      /\ \A n \in ParamNames : paramRows'[n].id = IF n \in m.names /\ paramRows[n].id = 0 THEN m.ids[n] ELSE paramRows[n].id
  BY <1>2
<1>5. \A n \in ParamNames : \/ paramRows'[n].id = paramRows[n].id
                            \/ n \in Pending(i) /\ paramRows'[n].id = m.ids[n]
  BY <1>0, <1>1, <1>4
<1>6. \A n \in ParamNames : paramRows[n].id # 0 => paramRows'[n].id = paramRows[n].id
  BY <1>4
<1>7. \A n \in Pending(i) : m.ids[n] \in 1..counter /\ m.ids[n] # 0
  <2>1. \A n \in Pending(i) : m.ids[n] \in 1..counter
    BY <1>0, <1>1
  <2> QED
    BY <1>0, <2>1
<1>8. \A n \in ParamNames : paramRows'[n].id \in 0..counter'
  <2>1. \A n \in ParamNames : paramRows[n].id \in 0..counter
    BY DEF IdInv, IdTypes
  <2> QED
    BY <1>0, <1>2, <1>5, <1>7, <2>1
<1> HIDE DEF m
<1>9. JobOK(i)'
  BY <1>3 DEF JobOK
<1>10. \A j \in Imports : j # i => JobOK(j)'
  <2> SUFFICES ASSUME NEW j \in Imports, j # i PROVE JobOK(j)'
    OBVIOUS
  <2>1. JobOK(j)
    BY DEF IdInv, IdTypes
  <2> QED
    BY <1>2, <1>3, <1>6, <2>1 DEF JobOK
<1>11. IdTypes'
  BY <1>2, <1>3, <1>4, <1>8, <1>9, <1>10 DEF IdInv, IdTypes
<1>12. Pending(i)' = {} /\ \A j \in Imports : j # i => Pending(j)' = Pending(j)
  BY <1>3 DEF Pending
<1>13. PendingDiffer'
  <2>1. \A j \in Imports : \A k \in Pending(j)', n \in ParamNames : importJobs'[j].ids[k] # paramRows'[n].id
    <3> SUFFICES ASSUME NEW j \in Imports, NEW k \in Pending(j)', NEW n \in ParamNames
                 PROVE  importJobs'[j].ids[k] # paramRows'[n].id
      OBVIOUS
    <3>1. j # i /\ k \in Pending(j) /\ importJobs'[j] = importJobs[j]
      BY <1>3, <1>12
    <3>2. importJobs[j].ids[k] # paramRows[n].id
      BY <3>1 DEF IdInv, PendingDiffer
    <3>3. n \in Pending(i) => importJobs[j].ids[k] # m.ids[n]
      BY <3>1 DEF IdInv, PendingDiffer, m
    <3> QED
      BY <1>5, <3>1, <3>2, <3>3
  <2>2. \A j \in Imports : \A k, n \in Pending(j)' : k # n => importJobs'[j].ids[k] # importJobs'[j].ids[n]
    BY <1>3, <1>12 DEF IdInv, PendingDiffer
  <2>3. \A j, k \in Imports : j # k => \A n \in Pending(j)', q \in Pending(k)' : importJobs'[j].ids[n] # importJobs'[k].ids[q]
    BY <1>3, <1>12 DEF IdInv, PendingDiffer
  <2> QED
    BY <2>1, <2>2, <2>3 DEF PendingDiffer
<1>14. ParameterIdsDiffer'
  <2> SUFFICES ASSUME NEW k \in ParamNames, NEW n \in ParamNames, k # n, paramRows'[k].id # 0
               PROVE  paramRows'[k].id # paramRows'[n].id
    BY DEF ParameterIdsDiffer
  <2>1. k \in Pending(i) /\ n \in Pending(i) => m.ids[k] # m.ids[n]
    BY DEF IdInv, PendingDiffer, m
  <2>2. (k \in Pending(i) => m.ids[k] # paramRows[n].id) /\ (n \in Pending(i) => m.ids[n] # paramRows[k].id)
    BY DEF IdInv, PendingDiffer, m
  <2>3. paramRows[k].id # 0 => paramRows[k].id # paramRows[n].id
    BY DEF IdInv, ParameterIdsDiffer
  <2> QED
    BY <1>5, <2>1, <2>2, <2>3
<1> QED
  BY <1>11, <1>13, <1>14 DEF IdInv

LEMMA NextIds ==
    ASSUME IdInv, [ArchiveNext]_archiveVars
    PROVE  IdInv'
<1>0. DOMAIN importJobs = Imports /\ \A d \in documents : d[3] \in ParamNames
  BY DEF IdInv, IdTypes
<1>1. ASSUME NEW i \in Imports, NEW c \in Captures \cup Exported, StoreSample(i, c)
      PROVE  IdInv'
  <2>1. PICK r : r = [pc |-> "disassemble", capture |-> c]
    OBVIOUS
  <2>2. importJobs' = [importJobs EXCEPT ![i] = r] /\ importJobs[i].pc = "start" /\ UNCHANGED <<documents, counter, paramRows>>
    BY <1>1, <2>1 DEF StoreSample, ImportGo
  <2>3. r.pc = "disassemble" /\ r.capture = c
    BY <2>1
  <2>4. JobOK(i)'
    BY <1>0, <2>2, <2>3 DEF JobOK
  <2> QED
    BY <1>0, <2>2, <2>3, <2>4, JobMoves
<1>2. ASSUME NEW i \in Imports, NEW path, importJobs[i].pc # "upsert",
             importJobs' = [importJobs EXCEPT ![i] = [pc |-> "aggregate", path |-> path]],
             UNCHANGED <<counter, paramRows>>, \A d \in documents' : d[3] \in ParamNames
      PROVE  IdInv'
  <2>1. PICK r : r = [pc |-> "aggregate", path |-> path]
    OBVIOUS
  <2>2. r.pc = "aggregate"
    BY <2>1
  <2>3. JobOK(i)'
    BY <1>0, <1>2, <2>1, <2>2 DEF JobOK
  <2> QED
    BY <1>2, <2>1, <2>2, <2>3, JobMoves
<1>3. ASSUME NEW i \in Imports, ImportOpenApi(i)
      PROVE  IdInv'
  <2>1. PICK op \in Described :
          /\ documents' = documents \cup {<<op.endpoint, "request", n>> : n \in op.params}
                 \cup UNION {{<<op.endpoint, d, n>> : n \in FlattenSchema(op.schemas[d])} : d \in Directions}
          /\ importJobs' = [importJobs EXCEPT ![i] = [pc |-> "aggregate", path |-> op.endpoint]]
    BY <1>3 DEF ImportOpenApi, ImportGo
  <2>2. \A d \in Directions : FlattenSchema(op.schemas[d]) \subseteq ParamNames
    BY ArchiveAssumption DEF FlattenSchema, Directions
  <2>3. op.params \subseteq ParamNames
    BY ArchiveAssumption
  <2>4. \A e \in {<<op.endpoint, "request", n>> : n \in op.params} : e[3] \in ParamNames
    BY <2>3
  <2>5. \A e \in UNION {{<<op.endpoint, d, n>> : n \in FlattenSchema(op.schemas[d])} : d \in Directions} : e[3] \in ParamNames
    BY <2>2
  <2>6. \A e \in documents' : e[3] \in ParamNames
    BY <1>0, <2>1, <2>4, <2>5
  <2> QED
    BY <1>2, <1>3, <2>1, <2>6 DEF ImportOpenApi
<1>4. ASSUME NEW i \in Imports, Disassemble(i)
      PROVE  IdInv'
  <2>1. PICK c : c = importJobs[i].capture
    OBVIOUS
  <2>2. /\ documents' = documents \cup RequestDocuments(c) \cup ResponseDocuments(c)
        /\ importJobs' = [importJobs EXCEPT ![i] = [pc |-> "aggregate", path |-> c.endpoint]]
        /\ importJobs[i].pc = "disassemble" /\ UNCHANGED <<counter, paramRows>>
    BY <1>4, <2>1 DEF Disassemble, ImportGo
  <2>3. c \in Captures \cup Exported
    BY <2>1, <2>2 DEF IdInv, IdTypes, JobOK
  <2>4. \A f \in c.found : f[2] \in ParamNames
    BY <2>3, ArchiveAssumption
  <2>5. \A e \in RequestDocuments(c) \cup ResponseDocuments(c) : e[3] \in ParamNames
    BY <2>4 DEF RequestDocuments, ResponseDocuments
  <2>6. \A e \in documents' : e[3] \in ParamNames
    BY <1>0, <2>2, <2>5
  <2> QED
    BY <1>2, <2>2, <2>6
<1>5. ASSUME NEW i \in Imports, Aggregate(i)
      PROVE  IdInv'
  <2>1. PICK path, names, missing, r :
          /\ names = {d[3] : d \in {d \in documents : d[1] = path}}
          /\ missing = {n \in names : paramRows[n].id = 0}
          /\ r = [pc |-> "allocate", path |-> path, names |-> names, missing |-> missing]
          /\ importJobs' = [importJobs EXCEPT ![i] = r]
    BY <1>5 DEF Aggregate, ImportGo
  <2>2. importJobs[i].pc = "aggregate" /\ UNCHANGED <<documents, counter, paramRows>>
    BY <1>5 DEF Aggregate
  <2>3. names \subseteq ParamNames
    BY <1>0, <2>1
  <2>4. missing \subseteq ParamNames /\ \A n \in names : n \in ParamNames /\ (n \in missing \/ paramRows[n].id # 0)
    BY <2>1, <2>3
  <2>5. r.pc = "allocate" /\ r.names = names /\ r.missing = missing
    BY <2>1
  <2>6. JobOK(i)'
    BY <1>0, <2>1, <2>2, <2>4, <2>5 DEF JobOK
  <2> QED
    BY <1>0, <2>1, <2>2, <2>5, <2>6, JobMoves
<1>6. ASSUME UNCHANGED archiveRest
      PROVE  IdInv'
  BY <1>6 DEF archiveRest, IdInv, IdTypes, JobOK, PendingDiffer, Pending, ParameterIdsDiffer
<1>7. ASSUME NEW o \in Operators,
             DryRun(o) \/ Apply(o) \/ CheckRow(o) \/ SaveRow(o) \/ FinishApply(o) \/ ApplyDies(o)
      PROVE  UNCHANGED archiveRest
  <2>1. CASE DryRun(o) \/ Apply(o)
    BY <2>1 DEF DryRun, Apply
  <2>2. CASE CheckRow(o) \/ SaveRow(o)
    BY <2>2 DEF CheckRow, SaveRow
  <2>3. CASE FinishApply(o) \/ ApplyDies(o)
    BY <2>3 DEF FinishApply, ApplyDies
  <2> QED
    BY <1>7, <2>1, <2>2, <2>3
<1>8. CASE UNCHANGED archiveVars
  BY <1>6, <1>8 DEF archiveVars, archiveRest
<1> QED
  BY <1>1, <1>3, <1>4, <1>5, <1>6, <1>7, <1>8, AllocateKeeps, UpsertKeeps
  DEF ArchiveNext, ImportCapture, ImportPostman

\* For any imports at once and any names (db/save.py): the ids an import takes
\* from the counter differ from every id written, and from those every other import
\* has taken and not written yet, so no two parameters share one.
THEOREM IdsDiffer == ArchiveSpec => []ParameterIdsDiffer
<1>1. IdInv => ParameterIdsDiffer
  BY DEF IdInv
<1> QED
  BY <1>1, InitIds, NextIds, PTL DEF ArchiveSpec

-----------------------------------------------------------------------------
(* ParameterArchive.  The rows of an archive hold what the account         *)
(* exchanged, and a row that became what a plan makes of it stays so.      *)

\* PairLess is a strict total order of pairs of numbers.
LEMMA PairOrder ==
    ASSUME NEW S \in SUBSET (Int \X Int), NEW a \in S, NEW b \in S
    PROVE  /\ ~PairLess(a, a)
           /\ a # b => PairLess(a, b) \/ PairLess(b, a)
           /\ \A c \in S : PairLess(a, b) /\ PairLess(b, c) => PairLess(a, c)
<1>1. \A c \in S : c[1] \in Int /\ c[2] \in Int /\ c = <<c[1], c[2]>>
  OBVIOUS
<1>2. a # b => a[1] # b[1] \/ a[2] # b[2]
  BY <1>1
<1> QED BY <1>1, <1>2 DEF PairLess

\* The pairs of a set that come before one.
Lower(S, a) == {b \in S : PairLess(b, a)}

\* Fewer pairs come before one than there are, and before a later one more.
LEMMA LowerCount ==
    ASSUME NEW S \in SUBSET (Int \X Int), IsFiniteSet(S), NEW a \in S
    PROVE  /\ Cardinality(Lower(S, a)) \in Nat /\ Cardinality(Lower(S, a)) < Cardinality(S)
           /\ \A b \in S : PairLess(b, a) => Cardinality(Lower(S, b)) < Cardinality(Lower(S, a))
<1>1. IsFiniteSet(S) /\ Cardinality(S) \in Nat
  BY FS_CardinalityType
<1>2. \A b \in S : IsFiniteSet(Lower(S, b)) /\ Cardinality(Lower(S, b)) \in Nat
  <2> SUFFICES ASSUME NEW b \in S PROVE IsFiniteSet(Lower(S, b)) /\ Cardinality(Lower(S, b)) \in Nat
    OBVIOUS
  <2>1. Lower(S, b) \in SUBSET S
    BY DEF Lower
  <2>2. IsFiniteSet(Lower(S, b))
    BY <1>1, <2>1, FS_Subset
  <2> QED BY <2>2, FS_CardinalityType
<1>3. Cardinality(Lower(S, a)) < Cardinality(S)
  <2>1. Lower(S, a) \in SUBSET S /\ a \notin Lower(S, a)
    BY PairOrder DEF Lower
  <2>2. Cardinality(Lower(S, a)) <= Cardinality(S) /\ (Cardinality(S) = Cardinality(Lower(S, a)) => S = Lower(S, a))
    BY <1>1, <2>1, FS_Subset
  <2> QED BY <1>1, <1>2, <2>1, <2>2
<1>4. ASSUME NEW b \in S, PairLess(b, a) PROVE Cardinality(Lower(S, b)) < Cardinality(Lower(S, a))
  <2>1. Lower(S, b) \in SUBSET Lower(S, a)
    BY <1>4, PairOrder DEF Lower
  <2>2. b \in Lower(S, a) /\ b \notin Lower(S, b)
    BY <1>4, PairOrder DEF Lower
  <2>3. /\ Cardinality(Lower(S, b)) <= Cardinality(Lower(S, a))
        /\ Cardinality(Lower(S, a)) = Cardinality(Lower(S, b)) => Lower(S, a) = Lower(S, b)
    BY <1>2, <2>1, FS_Subset
  <2> QED BY <1>2, <2>2, <2>3
<1> QED BY <1>2, <1>3, <1>4

\* InOrder lists every pair, at the place its predecessors leave.
LEMMA InOrderIs ==
    ASSUME NEW S \in SUBSET (Int \X Int), IsFiniteSet(S)
    PROVE  /\ InOrder(S) \in [1..Cardinality(S) -> S] /\ Cardinality(S) \in Nat
           /\ \A k \in 1..Cardinality(S) : Cardinality(Lower(S, InOrder(S)[k])) = k - 1
           /\ \A a \in S : \E k \in 1..Cardinality(S) : InOrder(S)[k] = a
           /\ \A a \in S, k \in 1..Cardinality(S) : Cardinality(Lower(S, a)) = k - 1 => InOrder(S)[k] = a
<1> DEFINE n == Cardinality(S)
           at(a) == Cardinality(Lower(S, a)) + 1
           f == [a \in S |-> at(a)]
           s == [k \in 1..n |-> CHOOSE a \in S : Cardinality(Lower(S, a)) = k - 1]
<1>1. n \in Nat
  BY FS_CardinalityType
<1>2. InOrder(S) = s
  BY DEF InOrder, Lower
<1>3. ASSUME NEW a \in S PROVE at(a) \in 1..n
  BY <1>1, LowerCount
<1>4. ASSUME NEW a \in S, NEW b \in S, at(a) = at(b) PROVE a = b
  <2>1. Cardinality(Lower(S, a)) = Cardinality(Lower(S, b))
    BY <1>4, LowerCount
  <2>2. ~PairLess(a, b) /\ ~PairLess(b, a)
    BY <2>1, LowerCount
  <2> QED BY <2>2, PairOrder
<1>5. f \in Surjection(S, 1..n)
  <2>1. f \in Injection(S, 1..n)
    BY <1>3, <1>4 DEF Injection, IsInjective
  <2>2. IsFiniteSet(1..n) /\ Cardinality(1..n) = n
    <3>1. 1 \in Int /\ n \in Int
      BY <1>1
    <3>2. IsFiniteSet(1..n) /\ Cardinality(1..n) = IF 1 > n THEN 0 ELSE n - 1 + 1
      BY <3>1, FS_Interval
    <3> QED BY <1>1, <3>2
  <2> HIDE DEF f
  <2> QED BY <2>1, <2>2, FS_Injection
<1>6. \A k \in 1..n : s[k] \in S /\ Cardinality(Lower(S, s[k])) = k - 1
  <2> SUFFICES ASSUME NEW k \in 1..n PROVE s[k] \in S /\ Cardinality(Lower(S, s[k])) = k - 1
    OBVIOUS
  <2>1. PICK a \in S : f[a] = k
    BY <1>5 DEF Surjection
  <2>2. Cardinality(Lower(S, a)) = k - 1
    BY <2>1, LowerCount
  <2> QED BY <2>2
<1>7. s \in [1..n -> S]
  BY <1>6
<1> HIDE DEF s
<1>8. ASSUME NEW a \in S, NEW k \in 1..n, Cardinality(Lower(S, a)) = k - 1 PROVE s[k] = a
  <2>1. s[k] \in S /\ Cardinality(Lower(S, s[k])) = k - 1
    BY <1>6
  <2> QED BY <1>4, <1>8, <2>1
<1>9. ASSUME NEW a \in S PROVE \E k \in 1..n : s[k] = a
  <2>1. PICK k \in 1..n : k = at(a)
    BY <1>3
  <2>2. Cardinality(Lower(S, a)) = k - 1
    BY <2>1, LowerCount
  <2> QED BY <1>8, <2>2
<1> QED BY <1>1, <1>2, <1>6, <1>7, <1>8, <1>9

\* The first occurrences in a list of numbers.
Firsts(all) == {i \in DOMAIN all : \A j \in 1..(i - 1) : all[j] # all[i]}
FirstPairs(all) == {<<i, all[i]>> : i \in Firsts(all)}

\* Merge puts a finite set of pairs in order.
LEMMA FirstPairsFinite ==
    ASSUME NEW all \in Seq(Nat)
    PROVE  FirstPairs(all) \in SUBSET (Int \X Int) /\ IsFiniteSet(FirstPairs(all))
<1>1. Len(all) \in Nat /\ DOMAIN all = 1..Len(all) /\ \A i \in DOMAIN all : all[i] \in Nat
  OBVIOUS
<1>2. FirstPairs(all) \in SUBSET (Int \X Int)
  BY <1>1 DEF FirstPairs, Firsts
<1> DEFINE f == [i \in DOMAIN all |-> <<i, all[i]>>]
           T == {f[i] : i \in DOMAIN all}
<1>3. IsFiniteSet(DOMAIN all)
  <2>1. 1 \in Int /\ Len(all) \in Int
    BY <1>1
  <2> QED BY <1>1, <2>1, FS_Interval
<1>4. f \in Surjection(DOMAIN all, T)
  BY DEF Surjection
<1>5. FirstPairs(all) \in SUBSET T
  BY DEF FirstPairs, Firsts
<1> HIDE DEF f, T
<1>6. IsFiniteSet(T)
  BY <1>3, <1>4, FS_Surjection
<1> QED BY <1>2, <1>5, <1>6, FS_Subset

\* An occurrence has a first one.
LEMMA FirstExists ==
    ASSUME NEW all \in Seq(Nat), NEW i \in DOMAIN all
    PROVE  \E f \in Firsts(all) : all[f] = all[i]
<1> DEFINE T == {j \in DOMAIN all : all[j] = all[i]}
<1>1. DOMAIN all \subseteq Nat /\ DOMAIN all = 1..Len(all) /\ Len(all) \in Nat
  OBVIOUS
<1>2. T \in SUBSET Nat /\ T # {}
  BY <1>1
<1>3. PICK k \in T : \A j \in T : k <= j
  <2> HIDE DEF T
  <2> QED BY <1>2, NonemptyHasMin
<1>4. \A j \in 1..(k - 1) : all[j] # all[k]
  BY <1>1, <1>3
<1> QED BY <1>4 DEF Firsts

\* The first occurrences of a list, all of them if there is room.
Merged(all, R) ==
    /\ R \in Seq(Nat) /\ Len(R) <= MaxArchiveValues
    /\ \A k \in 1..Len(R) : \E i \in DOMAIN all : R[k] = all[i]
    /\ \A k, l \in 1..Len(R) : k # l => R[k] # R[l]
    /\ Len(R) < MaxArchiveValues => \A i \in DOMAIN all : \E k \in 1..Len(R) : R[k] = all[i]

\* _merge_values keeps to the limit, repeats nothing, and leaves out a value
\* only where there is no room.
LEMMA MergeIs ==
    ASSUME NEW old \in Seq(Nat), NEW new \in Seq(Nat)
    PROVE  Merged(old \o new, Merge(old, new))
<1> SUFFICES ASSUME NEW all, all = old \o new, NEW R, R = Merge(old, new) PROVE Merged(all, R)
  OBVIOUS
<1> DEFINE S == FirstPairs(all)
           n == Cardinality(S)
           s == InOrder(S)
           m == Fewer(n, MaxArchiveValues)
           p(i) == s[i][1]
<1>1. all \in Seq(Nat) /\ \A i \in DOMAIN all : all[i] \in Nat
  OBVIOUS
<1>2. S \in SUBSET (Int \X Int) /\ IsFiniteSet(S)
  BY <1>1, FirstPairsFinite
<1>3. /\ s \in [1..n -> S] /\ n \in Nat
      /\ \A k \in 1..n : Cardinality(Lower(S, s[k])) = k - 1
      /\ \A a \in S : \E k \in 1..n : s[k] = a
  BY <1>2, InOrderIs
<1>4. ASSUME NEW a \in S PROVE a[1] \in Firsts(all) /\ a[2] = all[a[1]] /\ a = <<a[1], a[2]>>
  <2>1. PICK i \in Firsts(all) : a = <<i, all[i]>>
    BY DEF FirstPairs
  <2> QED BY <2>1
<1>5. \A i \in Firsts(all) : i \in DOMAIN all /\ i \in Nat \ {0} /\ <<i, all[i]>> \in S
  BY <1>1 DEF FirstPairs, Firsts
<1>6. m \in Nat /\ m <= n /\ m <= MaxArchiveValues /\ (m < MaxArchiveValues => m = n)
  BY <1>3, ArchiveAssumption DEF Fewer
<1>7. R = [k \in 1..m |-> s[k][2]]
  <2>1. s \in Seq(S) /\ Len(s) = n
    <3> HIDE DEF S, n, s
    <3> QED BY <1>3
  <2>2. R = [k \in 1..Fewer(Len(s), MaxArchiveValues) |-> s[k][2]]
    BY DEF Merge, FirstPairs, Firsts
  <2> QED BY <2>1, <2>2
<1> HIDE DEF S, n, m
<1>8. ASSUME NEW k \in 1..n
      PROVE  p(k) \in Firsts(all) /\ s[k][2] = all[p(k)] /\ s[k] = <<p(k), all[p(k)]>>
  <2>1. s[k] \in S
    BY <1>3
  <2> QED BY <1>4, <2>1
<1>9. \A k, l \in 1..n : k # l => s[k] # s[l]
  BY <1>3
<1> HIDE DEF s, p
<1>10. \A k \in 1..m : k \in 1..n /\ R[k] = all[p(k)] /\ p(k) \in Firsts(all) /\ p(k) \in DOMAIN all /\ R[k] \in Nat
  <2> SUFFICES ASSUME NEW k \in 1..m
               PROVE  k \in 1..n /\ R[k] = all[p(k)] /\ p(k) \in Firsts(all) /\ p(k) \in DOMAIN all /\ R[k] \in Nat
    OBVIOUS
  <2>1. k \in 1..n
    BY <1>3, <1>6
  <2>2. R[k] = s[k][2]
    BY <1>7
  <2>3. p(k) \in Firsts(all) /\ s[k][2] = all[p(k)]
    BY <1>8, <2>1
  <2>4. p(k) \in DOMAIN all
    BY <1>5, <2>3
  <2> QED BY <1>1, <2>1, <2>2, <2>3, <2>4
<1>11. R \in Seq(Nat) /\ Len(R) = m
  <2>1. R \in [1..m -> Nat]
    BY <1>7, <1>10
  <2> QED BY <1>6, <2>1
<1>12. ASSUME NEW k \in 1..m PROVE \E i \in DOMAIN all : R[k] = all[i]
  BY <1>10
<1>13. ASSUME NEW k \in 1..m, NEW l \in 1..m, k # l PROVE R[k] # R[l]
  <2>1. k \in 1..n /\ l \in 1..n /\ p(k) \in Firsts(all) /\ p(l) \in Firsts(all)
        /\ R[k] = all[p(k)] /\ R[l] = all[p(l)]
    BY <1>10
  <2>2. p(k) # p(l)
    <3>1. s[k] = <<p(k), all[p(k)]>> /\ s[l] = <<p(l), all[p(l)]>>
      BY <1>8, <2>1
    <3>2. s[k] # s[l]
      BY <1>9, <1>13, <2>1
    <3> QED BY <3>1, <3>2
  <2>3. PICK i, j : i = p(k) /\ j = p(l)
    OBVIOUS
  <2>4. i \in Nat \ {0} /\ j \in Nat \ {0} /\ i # j /\ i \in Firsts(all) /\ j \in Firsts(all)
    BY <1>5, <2>1, <2>2, <2>3
  <2>5. i < j => all[i] # all[j]
    BY <2>4 DEF Firsts
  <2>6. j < i => all[i] # all[j]
    BY <2>4 DEF Firsts
  <2>7. i < j \/ j < i
    BY <2>4
  <2> QED BY <2>1, <2>3, <2>5, <2>6, <2>7
<1>14. ASSUME m < MaxArchiveValues, NEW i \in DOMAIN all PROVE \E k \in 1..m : R[k] = all[i]
  <2>1. PICK j \in Firsts(all) : all[j] = all[i]
    BY <1>1, FirstExists
  <2>2. <<j, all[j]>> \in S
    BY <1>5
  <2> DEFINE a == <<j, all[j]>>
  <2>3. a \in S /\ a[2] = all[j]
    BY <2>2
  <2> HIDE DEF a
  <2>4. PICK k \in 1..n : s[k] = a
    BY <1>3, <2>3
  <2>5. k \in 1..m /\ s[k][2] = all[j]
    BY <1>6, <1>14, <2>3, <2>4
  <2> QED BY <1>7, <2>1, <2>5
<1> QED BY <1>6, <1>11, <1>12, <1>13, <1>14 DEF Merged

\* The pairs <<1, R[1]>> to <<k, R[k]>> are k.
LEMMA SomePairs ==
    ASSUME NEW R \in Seq(Nat), NEW k \in 0..Len(R)
    PROVE  /\ IsFiniteSet({<<j, R[j]>> : j \in 1..k})
           /\ Cardinality({<<j, R[j]>> : j \in 1..k}) = k
<1> DEFINE T == {<<j, R[j]>> : j \in 1..k}
           f == [j \in 1..k |-> <<j, R[j]>>]
<1>1. f \in Bijection(1..k, T)
  <2>1. f \in [1..k -> T] /\ \A t \in T : \E j \in 1..k : f[j] = t
    OBVIOUS
  <2>2. \A i, j \in 1..k : f[i] = f[j] => i = j
    OBVIOUS
  <2> HIDE DEF f, T
  <2> QED BY <2>1, <2>2 DEF Bijection, Injection, Surjection, IsInjective
<1>2. IsFiniteSet(1..k) /\ Cardinality(1..k) = k
  <2>1. 1 \in Int /\ k \in Int /\ k >= 0
    OBVIOUS
  <2>2. IsFiniteSet(1..k) /\ Cardinality(1..k) = IF 1 > k THEN 0 ELSE k - 1 + 1
    BY <2>1, FS_Interval
  <2> QED BY <2>1, <2>2
<1> HIDE DEF f, T
<1>3. IsFiniteSet(T) /\ Cardinality(T) = k
  BY <1>1, <1>2, FS_Bijection DEF ExistsBijection
<1> QED BY <1>3 DEF T

\* What was merged is not changed by merging the same values into it again:
\* the stored ones come first, and either all the new ones are among them or
\* there is no room.
LEMMA MergeSettles ==
    ASSUME NEW old \in Seq(Nat), NEW new \in Seq(Nat)
    PROVE  Merge(Merge(old, new), new) = Merge(old, new)
<1>1. PICK R : R = Merge(old, new)
  OBVIOUS
<1>2. PICK all : all = old \o new
  OBVIOUS
<1>3. /\ R \in Seq(Nat) /\ Len(R) <= MaxArchiveValues
      /\ \A k, l \in 1..Len(R) : k # l => R[k] # R[l]
      /\ Len(R) < MaxArchiveValues => \A i \in DOMAIN all : \E k \in 1..Len(R) : R[k] = all[i]
  <2>1. Merged(all, R)
    BY <1>1, <1>2, MergeIs
  <2> QED BY <2>1 DEF Merged
<1>4. PICK both : both = R \o new
  OBVIOUS
<1> DEFINE S == FirstPairs(both)
           n == Cardinality(S)
           P(k) == {<<j, R[j]>> : j \in 1..k}
<1>0. PICK m : m = Len(R)
  OBVIOUS
<1>5. /\ both \in Seq(Nat) /\ m \in Nat /\ DOMAIN both = 1..(m + Len(new)) /\ Len(new) \in Nat
      /\ \A i \in DOMAIN both : both[i] \in Nat /\ i \in Nat \ {0}
      /\ \A i \in 1..m : both[i] = R[i]
      /\ \A i \in 1..Len(new) : both[m + i] = new[i]
      /\ m <= MaxArchiveValues /\ \A k, l \in 1..m : k # l => R[k] # R[l]
      /\ \A i \in 1..m : R[i] \in Nat
      /\ m < MaxArchiveValues => \A i \in DOMAIN all : \E k \in 1..m : R[k] = all[i]
  <2>1. /\ both \in Seq(Nat) /\ m \in Nat /\ DOMAIN both = 1..(m + Len(new)) /\ Len(new) \in Nat
        /\ \A i \in 1..m : both[i] = R[i]
        /\ \A i \in 1..Len(new) : both[m + i] = new[i]
        /\ \A i \in 1..m : R[i] \in Nat
    BY <1>0, <1>3, <1>4
  <2>2. \A i \in DOMAIN both : both[i] \in Nat /\ i \in Nat \ {0}
    BY <2>1
  <2> QED BY <1>0, <1>3, <2>1, <2>2
<1>6. S \in SUBSET (Int \X Int) /\ IsFiniteSet(S) /\ n \in Nat
  BY <1>5, FirstPairsFinite, FS_CardinalityType
<1>7. \A k \in 1..m : k \in Firsts(both)
  <2> SUFFICES ASSUME NEW k \in 1..m, NEW j \in 1..(k - 1) PROVE both[j] # both[k]
    BY <1>5 DEF Firsts
  <2>1. j \in 1..m /\ j # k
    BY <1>5
  <2> QED BY <1>5, <2>1
<1>8. \A k \in 0..m : P(k) \in SUBSET S
  <2> SUFFICES ASSUME NEW k \in 0..m, NEW j \in 1..k PROVE <<j, R[j]>> \in S
    OBVIOUS
  <2>1. j \in 1..m
    BY <1>5
  <2> QED BY <1>5, <1>7, <2>1 DEF FirstPairs
<1>9. \A k \in 0..m : IsFiniteSet(P(k)) /\ Cardinality(P(k)) = k
  BY <1>0, <1>3, SomePairs
<1>10. ASSUME NEW k \in 1..m
       PROVE  <<k, R[k]>> \in S /\ Cardinality(Lower(S, <<k, R[k]>>)) = k - 1
  <2>1. <<k, R[k]>> \in S
    BY <1>5, <1>7 DEF FirstPairs
  <2>2. ASSUME NEW b \in S, PairLess(b, <<k, R[k]>>) PROVE b \in P(k - 1)
    <3>1. PICK i \in Firsts(both) : b = <<i, both[i]>>
      BY DEF FirstPairs
    <3>2. i \in DOMAIN both /\ both[i] \in Nat /\ i \in Nat \ {0} /\ R[k] \in Nat
      <4>1. i \in DOMAIN both
        BY DEF Firsts
      <4> QED BY <1>5, <4>1
    <3>3. i < k
      <4>1. i < k \/ (i = k /\ both[i] < R[k])
        <5>1. PairLess(<<i, both[i]>>, <<k, R[k]>>)
          BY <2>2, <3>1
        <5> QED BY <5>1 DEF PairLess
      <4>2. i = k => both[i] = R[k]
        BY <1>5
      <4> QED BY <3>2, <4>1, <4>2
    <3>4. i \in 1..(k - 1) /\ i \in 1..m
      <4>1. k \in Nat /\ k <= m
        BY <1>5
      <4>2. i \in Nat \ {0} /\ m \in Nat
        BY <1>5, <3>2
      <4> HIDE DEF P, S
      <4> QED BY <3>3, <4>1, <4>2
    <3>5. both[i] = R[i]
      BY <1>5, <3>4
    <3> QED BY <3>1, <3>4, <3>5
  <2>3. ASSUME NEW j \in 1..(k - 1) PROVE <<j, R[j]>> \in S /\ PairLess(<<j, R[j]>>, <<k, R[k]>>)
    <3>1. j \in 1..m /\ j < k
      BY <1>5
    <3> QED BY <1>5, <1>7, <3>1 DEF FirstPairs, PairLess
  <2>4. Lower(S, <<k, R[k]>>) = P(k - 1)
    <3>1. Lower(S, <<k, R[k]>>) \subseteq P(k - 1)
      <4> HIDE DEF P, S
      <4> QED BY <2>2 DEF Lower
    <3>2. P(k - 1) \subseteq Lower(S, <<k, R[k]>>)
      <4> HIDE DEF S
      <4> QED BY <2>3 DEF Lower
    <3> QED BY <3>1, <3>2
  <2>5. k - 1 \in 0..m
    BY <1>5
  <2> HIDE DEF P, S
  <2> QED BY <1>9, <2>1, <2>4, <2>5
<1>11. m <= n
  <2>0. m \in 0..m
    BY <1>5
  <2>1. P(m) \in SUBSET S /\ Cardinality(P(m)) = m
    <3> HIDE DEF P, S
    <3> QED BY <1>8, <1>9, <2>0
  <2> HIDE DEF P, S
  <2> QED BY <1>6, <2>1, FS_Subset
<1>12. m < MaxArchiveValues => n = m
  <2> SUFFICES ASSUME m < MaxArchiveValues PROVE n = m
    OBVIOUS
  <2>1. ASSUME NEW i \in Firsts(both) PROVE i \in 1..m
    <3> SUFFICES ASSUME i \notin 1..m PROVE FALSE
      OBVIOUS
    <3>1. i \in 1..(m + Len(new)) /\ i > m
      BY <1>5 DEF Firsts
    <3>2. PICK t : t = i - m
      OBVIOUS
    <3>3. t \in 1..Len(new) /\ i = m + t
      BY <1>5, <3>1, <3>2
    <3>7. both[i] = new[t]
      BY <1>5, <3>3
    <3>4. Len(old) + t \in DOMAIN all /\ all[Len(old) + t] = new[t]
      BY <1>2, <3>3
    <3>5. PICK k \in 1..m : R[k] = new[t]
      BY <1>5, <3>4
    <3>6. k \in 1..(i - 1) /\ both[k] = both[i]
      BY <1>5, <3>1, <3>5, <3>7
    <3> QED BY <3>6 DEF Firsts
  <2>2. S \subseteq P(m)
    <3> SUFFICES ASSUME NEW i \in Firsts(both) PROVE <<i, both[i]>> \in P(m)
      BY DEF FirstPairs
    <3> QED BY <1>5, <2>1
  <2>3. S = P(m) /\ Cardinality(P(m)) = m
    <3>1. m \in 0..m
      BY <1>5
    <3> HIDE DEF P, S
    <3> QED BY <1>8, <1>9, <2>2, <3>1
  <2> HIDE DEF P, S
  <2> QED BY <2>3
<1>13. Fewer(n, MaxArchiveValues) = m
  BY <1>3, <1>5, <1>6, <1>11, <1>12, ArchiveAssumption DEF Fewer
<1>14. InOrder(S) \in Seq(S) /\ Len(InOrder(S)) = n
  <2> HIDE DEF S
  <2>1. InOrder(S) \in [1..n -> S]
    BY <1>6, InOrderIs
  <2> QED BY <1>6, <2>1
<1>15. \A k \in 1..m : InOrder(S)[k] = <<k, R[k]>>
  <2> SUFFICES ASSUME NEW k \in 1..m PROVE InOrder(S)[k] = <<k, R[k]>>
    OBVIOUS
  <2>1. k \in 1..n
    BY <1>5, <1>6, <1>11
  <2> DEFINE a == <<k, R[k]>>
  <2>2. a \in S /\ Cardinality(Lower(S, a)) = k - 1
    BY <1>10
  <2> HIDE DEF S, a
  <2>3. InOrder(S)[k] = a
    BY <1>6, <2>1, <2>2, InOrderIs
  <2> QED BY <2>3 DEF a
<1>16. Merge(R, new) = [k \in 1..m |-> InOrder(S)[k][2]]
  <2>1. Merge(R, new) = [k \in 1..Fewer(Len(InOrder(S)), MaxArchiveValues) |-> InOrder(S)[k][2]]
    BY <1>4 DEF Merge, FirstPairs, Firsts
  <2> HIDE DEF S
  <2> QED BY <1>13, <1>14, <2>1
<1>17. Merge(R, new) = [k \in 1..m |-> R[k]]
  <2> HIDE DEF S
  <2>1. \A k \in 1..m : InOrder(S)[k][2] = R[k]
    BY <1>15
  <2> QED BY <1>16, <2>1
<1>18. R = [k \in 1..m |-> R[k]]
  BY <1>0, <1>3
<1> QED BY <1>1, <1>17, <1>18

\* What may be imported as a sample.
Samples == Captures \cup Exported

\* A set with an element for each of finitely many is finite.
LEMMA ImageFinite ==
    ASSUME NEW S, IsFiniteSet(S), NEW f, f = [x \in S |-> f[x]], NEW T, T = {f[x] : x \in S}
    PROVE  IsFiniteSet(T)
<1>1. f \in Surjection(S, T)
  <2>1. f \in [S -> T]
    <3>1. \A x \in S : f[x] \in T
      OBVIOUS
    <3> QED BY <3>1
  <2>2. \A t \in T : \E x \in S : f[x] = t
    OBVIOUS
  <2> QED BY <2>1, <2>2 DEF Surjection
<1> QED BY <1>1, FS_Surjection

\* An input a plan may be made from: finitely many samples.
InputOK(in) == IsFiniteSet(in.samples) /\ in.samples \subseteq (Nat \X Samples)

\* The values samples have for a name, which is no session or dynamic value.
HeldBy(in, d, n) == {v \in Nat : n \notin ContextNames /\ \E e \in in.samples : <<d, n, v>> \in e[2].found}

\* A name has finitely many values, all of them values its samples have.
LEMMA FoundFinite ==
    ASSUME NEW in, InputOK(in), NEW d \in Directions, NEW n
    PROVE  /\ IsFiniteSet(FoundValues(in, d, n))
           /\ FoundValues(in, d, n) \subseteq (Int \X HeldBy(in, d, n))
           /\ FoundValues(in, d, n) \in SUBSET (Int \X Int)
<1> DEFINE G(e) == {<<e[1], v>> : v \in Extracted(in, e[2], d, n)}
           g == [e \in in.samples |-> G(e)]
           F == {g[e] : e \in in.samples}
<1>1. \A e \in in.samples : e[1] \in Nat /\ e[2] \in Samples
  BY DEF InputOK
<1>2. \A c \in Samples : IsFiniteSet(c.found) /\ c.found \subseteq ({"request", "response"} \X ParamNames \X Nat)
  BY ArchiveAssumption DEF Samples
<1>3. ASSUME NEW e \in in.samples, NEW v \in Extracted(in, e[2], d, n)
      PROVE  v \in HeldBy(in, d, n) /\ <<d, n, v>> \in e[2].found
  <2>1. n \notin ContextNames
    BY <1>3 DEF Extracted
  <2>2. PICK f \in e[2].found : f[1] = d /\ f[2] = n /\ f[3] = v
    BY <1>3 DEF Extracted
  <2>3. f = <<f[1], f[2], f[3]>> /\ f[3] \in Nat
    BY <1>1, <1>2
  <2> QED BY <2>1, <2>2, <2>3 DEF HeldBy
<1>4. ASSUME NEW e \in in.samples PROVE IsFiniteSet(G(e))
  <2> DEFINE found == e[2].found
             h == [f \in found |-> <<e[1], f[3]>>]
             T == {h[f] : f \in found}
  <2>1. IsFiniteSet(found)
    BY <1>1, <1>2
  <2>2. h = [f \in found |-> h[f]]
    OBVIOUS
  <2>3. IsFiniteSet(T)
    <3> HIDE DEF h, found
    <3> QED BY <2>1, <2>2, ImageFinite
  <2>4. G(e) \in SUBSET T
    BY DEF Extracted
  <2> HIDE DEF G, T
  <2> QED BY <2>3, <2>4, FS_Subset
<1>5. IsFiniteSet(F)
  <2>1. IsFiniteSet(in.samples) /\ g = [e \in in.samples |-> g[e]]
    BY DEF InputOK
  <2> HIDE DEF g
  <2> QED BY <2>1, ImageFinite
<1>6. \A x \in F : IsFiniteSet(x)
  <2> HIDE DEF G
  <2> QED BY <1>4
<1>7. FoundValues(in, d, n) = UNION F
  BY DEF FoundValues
<1>8. IsFiniteSet(UNION F)
  <2> HIDE DEF F
  <2> QED BY <1>5, <1>6, FS_UNION
<1>9. ASSUME NEW x \in FoundValues(in, d, n) PROVE x \in Int \X HeldBy(in, d, n)
  <2>1. PICK e \in in.samples : x \in G(e)
    BY DEF FoundValues
  <2>2. PICK v \in Extracted(in, e[2], d, n) : x = <<e[1], v>>
    BY <2>1
  <2>3. e[1] \in Int
    <3>1. e[1] \in Nat
      BY <1>1
    <3> QED BY <3>1
  <2>4. v \in HeldBy(in, d, n)
    BY <1>3
  <2> HIDE DEF G
  <2> QED BY <2>2, <2>3, <2>4
<1>10. HeldBy(in, d, n) \subseteq Int
  BY DEF HeldBy
<1> QED BY <1>7, <1>8, <1>9, <1>10

\* The values of a name are values its samples have.
LEMMA ValuesHeld ==
    ASSUME NEW in, InputOK(in), NEW d \in Directions, NEW n
    PROVE  GroupValues(in, d, n) \in Seq(HeldBy(in, d, n))
<1> DEFINE S == FoundValues(in, d, n)
<1>1. /\ IsFiniteSet(S) /\ S \in SUBSET (Int \X Int) /\ S \subseteq (Int \X HeldBy(in, d, n))
  BY FoundFinite
<1> HIDE DEF S
<1>2. InOrder(S) \in [1..Cardinality(S) -> S] /\ Cardinality(S) \in Nat
  BY <1>1, InOrderIs
<1>3. GroupValues(in, d, n) = [k \in 1..Cardinality(S) |-> InOrder(S)[k][2]]
  BY <1>2 DEF GroupValues, S
<1>4. \A k \in 1..Cardinality(S) : InOrder(S)[k][2] \in HeldBy(in, d, n)
  BY <1>1, <1>2
<1>5. GroupValues(in, d, n) \in [1..Cardinality(S) -> HeldBy(in, d, n)]
  BY <1>3, <1>4
<1> QED BY <1>2, <1>5

\* A list of members of a set is one of members of a larger set.
LEMMA SeqWidens == ASSUME NEW V, NEW W, V \subseteq W, NEW s \in Seq(V) PROVE s \in Seq(W)
<1>1. Len(s) \in Nat /\ s = [k \in 1..Len(s) |-> s[k]] /\ \A k \in 1..Len(s) : s[k] \in V
  OBVIOUS
<1>2. s \in [1..Len(s) -> W]
  BY <1>1
<1> QED BY <1>1, <1>2

\* A merge keeps to the values of both sides.
LEMMA MergeHeld ==
    ASSUME NEW V \in SUBSET Nat, NEW old \in Seq(V), NEW new \in Seq(V)
    PROVE  Merge(old, new) \in Seq(V)
<1>1. old \in Seq(Nat) /\ new \in Seq(Nat)
  BY SeqWidens
<1>2. PICK R : R = Merge(old, new)
  OBVIOUS
<1>3. Merged(old \o new, R)
  BY <1>1, <1>2, MergeIs
<1>4. \A i \in DOMAIN (old \o new) : (old \o new)[i] \in V
  OBVIOUS
<1>5. /\ R \in Seq(Nat)
      /\ \A k \in 1..Len(R) : R[k] \in V
  BY <1>3, <1>4 DEF Merged
<1>6. R \in [1..Len(R) -> V] /\ Len(R) \in Nat
  BY <1>5
<1> QED BY <1>2, <1>6

\* What a row became by an input does not change by it again.
LEMMA AfterSettles ==
    ASSUME NEW in, InputOK(in), NEW n, NEW old, \A d \in Directions : old.vals[d] \in Seq(Nat)
    PROVE  After(in, n, After(in, n, old)) = After(in, n, old)
<1> DEFINE a == After(in, n, old)
<1>1. /\ a = [name |-> n, ids |-> a.ids, paths |-> a.paths, vals |-> a.vals, mark |-> in.samples]
      /\ a.ids = old.ids \cup MetadataIds(in, n)
      /\ a.paths = [d \in Directions |-> old.paths[d] \cup GroupPaths(in, d, n)]
      /\ a.vals = [d \in Directions |-> Merge(old.vals[d], GroupValues(in, d, n))]
  BY DEF After
<1> HIDE DEF a
<1>2. a.ids \cup MetadataIds(in, n) = a.ids
  BY <1>1
<1>3. [d \in Directions |-> a.paths[d] \cup GroupPaths(in, d, n)] = a.paths
  BY <1>1
<1>4. ASSUME NEW d \in Directions PROVE Merge(a.vals[d], GroupValues(in, d, n)) = a.vals[d]
  <2>1. GroupValues(in, d, n) \in Seq(Nat)
    <3>1. GroupValues(in, d, n) \in Seq(HeldBy(in, d, n)) /\ HeldBy(in, d, n) \subseteq Nat
      BY ValuesHeld DEF HeldBy
    <3> QED BY <3>1
  <2>2. a.vals[d] = Merge(old.vals[d], GroupValues(in, d, n))
    BY <1>1
  <2> QED BY <2>1, <2>2, MergeSettles
<1>5. [d \in Directions |-> Merge(a.vals[d], GroupValues(in, d, n))] = a.vals
  BY <1>1, <1>4
<1>6. After(in, n, a) = a
  BY <1>1, <1>2, <1>3, <1>5 DEF After
<1> QED BY <1>6 DEF a

\* The values the revision's account exchanged under a name.
Exchanged(d, n) ==
    {v \in Nat : n \notin ContextNames /\
        \E c \in RangeOf(sampleRows) : c.account \in AccountRefs /\ <<d, n, v>> \in c.found}

\* The rows of a name.
RowsIn(kept, n) == {k \in DOMAIN kept : kept[k].name = n}

\* The one row of a name is what an operation made it.
RowSettled(kept, n, op) == \E k : RowsIn(kept, n) = {k} /\ kept[k] = op.after

\* The row of a name is what an operation found.
Awaited(kept, n, op) ==
    IF op.action = "create" THEN RowsIn(kept, n) = {}
    ELSE RowsIn(kept, n) = {op.row} /\ kept[op.row] = op.before

\* An operation of a plan made from an input: what it leaves is what After
\* makes of what it found, and of values the account exchanged.
OpOK(in, n, op) ==
    /\ op.name = n /\ op.after = After(in, n, op.before)
    /\ op.action = "unchanged" => op.after = op.before
    /\ \A d \in Directions : op.before.vals[d] \in Seq(Nat) /\ op.after.vals[d] \in Seq(Exchanged(d, n))

\* The plan at work or applied was made from the input its operator saw.
PlanOK(p) ==
    /\ InputOK(p.seen) /\ DOMAIN p.plan.operations = Grouped(p.seen)
    /\ \A n \in DOMAIN p.plan.operations : OpOK(p.seen, n, p.plan.operations[n])

\* An operator who applies a plan, and one who has: nobody else wrote, so what
\* is behind is settled, and what is to do awaited.
WorkOK(p, kept) ==
    /\ DOMAIN p = {"pc", "plan", "todo", "wrote", "alone", "seen"}
    /\ p.todo \subseteq DOMAIN p.plan.operations /\ (p.pc = "save" => p.todo # {})
    /\ p.alone = TRUE => \A n \in DOMAIN p.plan.operations :
          IF n \in p.todo THEN Awaited(kept, n, p.plan.operations[n])
          ELSE RowSettled(kept, n, p.plan.operations[n])

\* The rows an operator left are settled.
DoneOK(p) ==
    p.alone = TRUE => \A n \in DOMAIN p.plan.operations : RowSettled(p.left, n, p.plan.operations[n])

\* An operator, among the rows there are.
OperatorOK(p, kept) ==
    /\ p.pc \in {"start", "reviewed", "blocked", "check", "save", "done"}
    /\ p.pc \in {"check", "save", "done"} => PlanOK(p)
    /\ p.pc \in {"check", "save"} => WorkOK(p, kept)
    /\ p.pc = "done" => DoneOK(p)

\* The rows hold values the account exchanged.
RowsOK(kept) ==
    /\ \E S : kept \in Seq(S)
    /\ \A k \in DOMAIN kept : \A d \in Directions : kept[k].vals[d] \in Seq(Exchanged(d, kept[k].name))

\* The inductive invariant of ArchiveIsFaithful: the rows are the account's
\* own, and an operator nobody interferes with leaves settled rows behind and
\* finds the rows ahead as planned.
ArchiveInv ==
    /\ sampleRows \in Seq(Samples)
    /\ RowsOK(archiveRows)
    /\ DOMAIN operators = Operators
    /\ \A o \in Operators : OperatorOK(operators[o], archiveRows)

\* Nothing is archived and nobody is at work at first.
LEMMA InitArchive == ArchiveInit => ArchiveInv
<1> SUFFICES ASSUME ArchiveInit PROVE ArchiveInv
  OBVIOUS
<1>1. sampleRows \in Seq(Samples)
  BY DEF ArchiveInit
<1>2. RowsOK(archiveRows)
  <2>1. archiveRows = << >> /\ << >> \in Seq({}) /\ DOMAIN << >> = {}
    BY DEF ArchiveInit
  <2> QED BY <2>1 DEF RowsOK
<1>3. DOMAIN operators = Operators /\ \A o \in Operators : operators[o].pc = "start"
  BY DEF ArchiveInit
<1> QED BY <1>1, <1>2, <1>3 DEF ArchiveInv, OperatorOK

\* The input there is now, and what its samples hold.
LEMMA InputNow ==
    ASSUME sampleRows \in Seq(Samples)
    PROVE  InputOK(ArchiveInput) /\ \A d, n : HeldBy(ArchiveInput, d, n) \subseteq Exchanged(d, n)
<1> DEFINE I == {i \in DOMAIN sampleRows : sampleRows[i].account \in AccountRefs}
           f == [i \in I |-> <<i, sampleRows[i]>>]
<1>1. /\ Len(sampleRows) \in Nat /\ DOMAIN sampleRows = 1..Len(sampleRows)
      /\ \A i \in DOMAIN sampleRows : sampleRows[i] \in Samples
  OBVIOUS
<1>2. IsFiniteSet(I)
  <2>1. 1 \in Int /\ Len(sampleRows) \in Int
    BY <1>1
  <2>2. IsFiniteSet(1..Len(sampleRows))
    BY <2>1, FS_Interval
  <2>3. I \in SUBSET (1..Len(sampleRows))
    BY <1>1
  <2> HIDE DEF I
  <2> QED BY <2>2, <2>3, FS_Subset
<1>3. Eligible = {f[i] : i \in I} /\ f = [i \in I |-> f[i]]
  BY DEF Eligible
<1>4. IsFiniteSet(Eligible)
  <2> HIDE DEF f, I
  <2> QED BY <1>2, <1>3, ImageFinite
<1>5. \A e \in Eligible : \E i \in I : e = <<i, sampleRows[i]>>
  BY DEF Eligible
<1>6. Eligible \subseteq (Nat \X Samples)
  <2> SUFFICES ASSUME NEW i \in I PROVE i \in Nat /\ sampleRows[i] \in Samples
    BY <1>5
  <2> QED BY <1>1
<1>7. ASSUME NEW e \in Eligible PROVE e[2] \in RangeOf(sampleRows) /\ e[2].account \in AccountRefs
  <2>1. PICK i \in I : e = <<i, sampleRows[i]>>
    BY <1>5
  <2>2. e[2] = sampleRows[i] /\ i \in DOMAIN sampleRows /\ sampleRows[i].account \in AccountRefs
    BY <2>1
  <2> QED BY <2>2 DEF RangeOf
<1>8. ArchiveInput.samples = Eligible
  BY DEF ArchiveInput
<1> QED BY <1>4, <1>6, <1>7, <1>8 DEF InputOK, HeldBy, Exchanged

\* Samples are only added, so an account's values stay.
LEMMA HeldGrows ==
    ASSUME sampleRows \in Seq(Samples),
           sampleRows' = sampleRows \/ \E c \in Samples : sampleRows' = Append(sampleRows, c)
    PROVE  sampleRows' \in Seq(Samples) /\ \A d, n : Exchanged(d, n) \subseteq Exchanged(d, n)'
<1>1. CASE sampleRows' = sampleRows
  BY <1>1 DEF Exchanged, RangeOf
<1>2. CASE \E c \in Samples : sampleRows' = Append(sampleRows, c)
  <2>1. PICK c \in Samples : sampleRows' = Append(sampleRows, c)
    BY <1>2
  <2>2. PICK s \in Seq(Samples) : s = sampleRows
    OBVIOUS
  <2>3. /\ Append(s, c) \in Seq(Samples) /\ DOMAIN s \subseteq DOMAIN Append(s, c)
        /\ \A i \in DOMAIN s : Append(s, c)[i] = s[i]
    OBVIOUS
  <2>4. RangeOf(sampleRows) \subseteq RangeOf(sampleRows)'
    BY <2>1, <2>2, <2>3 DEF RangeOf
  <2> QED BY <2>1, <2>2, <2>3, <2>4 DEF Exchanged
<1> QED BY <1>1, <1>2

\* An operator's plan stays what it was when samples are added ...
LEMMA OperatorStays ==
    ASSUME NEW CONSTANT p, NEW CONSTANT kept, OperatorOK(p, kept), \A d, n : Exchanged(d, n) \subseteq Exchanged(d, n)'
    PROVE  OperatorOK(p, kept)'
<1>1. ASSUME NEW n, NEW op, OpOK(p.seen, n, op) PROVE OpOK(p.seen, n, op)'
  <2>1. ASSUME NEW d \in Directions PROVE op.after.vals[d] \in Seq(Exchanged(d, n)')
    <3>1. op.after.vals[d] \in Seq(Exchanged(d, n)) /\ Exchanged(d, n) \subseteq Exchanged(d, n)'
      BY <1>1 DEF OpOK
    <3> QED BY <3>1, SeqWidens
  <2> QED BY <1>1, <2>1 DEF OpOK
<1>2. PlanOK(p) => PlanOK(p)'
  BY <1>1 DEF PlanOK
<1> QED BY <1>2 DEF OperatorOK, WorkOK, DoneOK

\* ... and so do the rows.
LEMMA RowsStay ==
    ASSUME NEW CONSTANT kept, RowsOK(kept), \A d, n : Exchanged(d, n) \subseteq Exchanged(d, n)'
    PROVE  RowsOK(kept)'
<1>1. ASSUME NEW k \in DOMAIN kept, NEW d \in Directions PROVE kept[k].vals[d] \in Seq(Exchanged(d, kept[k].name)')
  <2>1. kept[k].vals[d] \in Seq(Exchanged(d, kept[k].name)) /\ Exchanged(d, kept[k].name) \subseteq Exchanged(d, kept[k].name)'
    BY DEF RowsOK
  <2> QED BY <2>1, SeqWidens
<1> QED BY <1>1 DEF RowsOK

\* An import leaves the operators and the archive alone.
LEMMA ImportArchive ==
    ASSUME ArchiveInv, UNCHANGED importRest,
           sampleRows' = sampleRows \/ \E c \in Samples : sampleRows' = Append(sampleRows, c)
    PROVE  ArchiveInv'
<1>1. archiveRows' = archiveRows /\ operators' = operators
  BY DEF importRest
<1>2. sampleRows' \in Seq(Samples) /\ \A d, n : Exchanged(d, n) \subseteq Exchanged(d, n)'
  BY HeldGrows DEF ArchiveInv
<1>3. PICK kept : kept = archiveRows
  OBVIOUS
<1>4. RowsOK(archiveRows)'
  <2>1. RowsOK(kept)'
    BY <1>2, <1>3, RowsStay DEF ArchiveInv
  <2> QED BY <1>1, <1>3, <2>1 DEF RowsOK
<1>5. ASSUME NEW o \in Operators PROVE OperatorOK(operators[o], archiveRows)'
  <2>1. PICK p : p = operators[o]
    OBVIOUS
  <2>2. OperatorOK(p, kept)'
    BY <1>2, <1>3, <2>1, OperatorStays DEF ArchiveInv
  <2> QED BY <1>1, <1>3, <2>1, <2>2 DEF OperatorOK, PlanOK, OpOK, WorkOK, DoneOK
<1> QED BY <1>1, <1>2, <1>4, <1>5 DEF ArchiveInv

\* A step of an operator that saves no row.
LEMMA OperatorMoves ==
    ASSUME ArchiveInv, sampleRows' = sampleRows, archiveRows' = archiveRows,
           NEW o \in Operators, NEW CONSTANT p, operators' = [operators EXCEPT ![o] = p],
           OperatorOK(p, archiveRows)
    PROVE  ArchiveInv'
<1>1. \A d, n : Exchanged(d, n)' = Exchanged(d, n)
  BY DEF Exchanged, RangeOf
<1>2. sampleRows' \in Seq(Samples) /\ RowsOK(archiveRows)'
  BY <1>1 DEF ArchiveInv, RowsOK
<1>3. PICK kept : kept = archiveRows
  OBVIOUS
<1>4. ASSUME NEW q \in Operators PROVE OperatorOK(operators[q], archiveRows)'
  <2>1. PICK r : r = operators'[q]
    OBVIOUS
  <2>2. OperatorOK(r, kept)
    BY <1>3, <2>1 DEF ArchiveInv
  <2>3. OperatorOK(r, kept)'
    BY <1>1, <2>2, OperatorStays
  <2> QED BY <1>3, <2>1, <2>3 DEF OperatorOK, PlanOK, OpOK, WorkOK, DoneOK
<1> QED BY <1>2, <1>4 DEF ArchiveInv

\* The plan of now: every operation finds the rows of now.
LEMMA PlanNow ==
    ASSUME ArchiveInv, Plannable, NEW n \in Grouped(ArchiveInput), NEW op, op = Planned(ArchiveInput, n)
    PROVE  OpOK(ArchiveInput, n, op) /\ Awaited(archiveRows, n, op)
<1> DEFINE k == IF RowsOf(n) = {} THEN 0 ELSE CHOOSE k \in RowsOf(n) : TRUE
           old == IF k = 0 THEN NoArchiveRow ELSE archiveRows[k]
           after == After(ArchiveInput, n, old)
<1>1. op = [name |-> n, row |-> k, before |-> old, after |-> after,
            action |-> IF k = 0 THEN "create" ELSE IF old = after THEN "unchanged" ELSE "update"]
  BY DEF Planned
<1>2. PICK S : archiveRows \in Seq(S)
  BY DEF ArchiveInv, RowsOK
<1>3. RowsOf(n) = RowsIn(archiveRows, n) /\ RowsOf(n) \in SUBSET (1..Len(archiveRows)) /\ Len(archiveRows) \in Nat
  BY <1>2 DEF RowsOf, RowsIn
<1>4. RowsOf(n) # {} => k \in RowsOf(n) /\ k # 0 /\ RowsOf(n) = {k}
  <2> SUFFICES ASSUME RowsOf(n) # {} PROVE k \in RowsOf(n) /\ k # 0 /\ RowsOf(n) = {k}
    OBVIOUS
  <2>1. k \in RowsOf(n)
    OBVIOUS
  <2> HIDE DEF k
  <2>2. k # 0
    BY <1>3, <2>1
  <2>3. IsFiniteSet(RowsOf(n))
    <3>1. IsFiniteSet(1..Len(archiveRows))
      <4>1. 1 \in Int /\ Len(archiveRows) \in Int
        BY <1>3
      <4> QED BY <4>1, FS_Interval
    <3> QED BY <1>3, <3>1, FS_Subset
  <2>4. Cardinality(RowsOf(n)) \in Nat /\ Cardinality(RowsOf(n)) <= 1 /\ Cardinality(RowsOf(n)) # 0
    <3>1. n \in ParamNames
      BY DEF Grouped
    <3> QED BY <2>1, <2>3, <3>1, FS_CardinalityType, FS_EmptySet DEF Plannable
  <2>5. Cardinality({k}) = 1 /\ {k} \in SUBSET RowsOf(n)
    BY <2>1, FS_Singleton
  <2>6. {k} = RowsOf(n)
    BY <2>3, <2>4, <2>5, FS_Subset
  <2> QED BY <2>1, <2>2, <2>6
<1>5. RowsOf(n) = {} => k = 0
  OBVIOUS
<1>6. k # 0 => /\ k \in DOMAIN archiveRows /\ archiveRows[k].name = n
               /\ \A d \in Directions : archiveRows[k].vals[d] \in Seq(Exchanged(d, n))
  BY <1>4, <1>5 DEF RowsOf, ArchiveInv, RowsOK
<1> HIDE DEF k
<1>7. ASSUME NEW d \in Directions PROVE old.vals[d] \in Seq(Exchanged(d, n))
  <2>1. CASE k = 0
    <3>1. old.vals[d] = << >>
      BY <2>1 DEF NoArchiveRow
    <3>2. PICK V : V = Exchanged(d, n)
      OBVIOUS
    <3>3. << >> \in Seq(V)
      OBVIOUS
    <3> QED BY <3>1, <3>2, <3>3
  <2>2. CASE k # 0
    BY <1>6, <2>2
  <2> QED BY <2>1, <2>2
<1> HIDE DEF old
<1>8. ASSUME NEW d \in Directions PROVE after.vals[d] \in Seq(Exchanged(d, n)) /\ old.vals[d] \in Seq(Nat)
  <2>1. InputOK(ArchiveInput) /\ HeldBy(ArchiveInput, d, n) \subseteq Exchanged(d, n)
    BY InputNow DEF ArchiveInv
  <2>2. GroupValues(ArchiveInput, d, n) \in Seq(Exchanged(d, n))
    <3>1. GroupValues(ArchiveInput, d, n) \in Seq(HeldBy(ArchiveInput, d, n))
      BY <2>1, ValuesHeld
    <3> QED BY <2>1, <3>1, SeqWidens
  <2>3. after.vals[d] = Merge(old.vals[d], GroupValues(ArchiveInput, d, n))
    BY DEF After
  <2>4. Exchanged(d, n) \in SUBSET Nat
    BY DEF Exchanged
  <2> HIDE DEF after
  <2>5. old.vals[d] \in Seq(Nat)
    BY <1>7, <2>4, SeqWidens
  <2>6. Merge(old.vals[d], GroupValues(ArchiveInput, d, n)) \in Seq(Exchanged(d, n))
    BY <1>7, <2>2, <2>4, MergeHeld
  <2> QED BY <2>3, <2>5, <2>6
<1> HIDE DEF after
<1>9. /\ op.name = n /\ op.row = k /\ op.before = old /\ op.after = after
      /\ op.action = IF k = 0 THEN "create" ELSE IF old = after THEN "unchanged" ELSE "update"
  BY <1>1
<1>10. OpOK(ArchiveInput, n, op)
  <2>1. op.action = "unchanged" => op.after = op.before
    BY <1>9
  <2>2. op.after = After(ArchiveInput, n, op.before)
    BY <1>9 DEF after
  <2> QED BY <1>8, <1>9, <2>1, <2>2 DEF OpOK
<1>11. Awaited(archiveRows, n, op)
  <2>1. CASE k = 0
    BY <1>3, <1>4, <1>9, <2>1 DEF Awaited
  <2>2. CASE k # 0
    <3>1. op.action # "create" /\ old = archiveRows[k]
      BY <1>9, <2>2 DEF old
    <3> QED BY <1>3, <1>4, <1>5, <1>9, <2>2, <3>1 DEF Awaited
  <2> QED BY <2>1, <2>2
<1> QED BY <1>10, <1>11

\* Apply plans again and goes to work only on the plan of now.
LEMMA ApplyArchive ==
    ASSUME ArchiveInv, NEW o \in Operators, Apply(o) PROVE ArchiveInv'
<1>1. sampleRows' = sampleRows /\ archiveRows' = archiveRows /\ operators[o].pc = "reviewed"
  BY DEF Apply, archiveRest
<1>2. PICK plan : plan = operators[o].plan
  OBVIOUS
<1>3. PICK p :
        /\ operators' = [operators EXCEPT ![o] = p]
        /\ \/ \E w : p = [pc |-> "blocked", wrote |-> w]
           \/ /\ Plannable /\ ArchivePlan = plan
              /\ p = [pc |-> "check", plan |-> plan, todo |-> DOMAIN plan.operations, wrote |-> 0,
                      alone |-> TRUE, seen |-> ArchiveInput]
  <2> DEFINE b == [pc |-> "blocked", wrote |-> 0]
             c == [pc |-> "check", plan |-> plan, todo |-> DOMAIN plan.operations, wrote |-> 0,
                   alone |-> TRUE, seen |-> ArchiveInput]
  <2>1. \/ operators' = [operators EXCEPT ![o] = b]
        \/ Plannable /\ ArchivePlan = plan /\ operators' = [operators EXCEPT ![o] = c]
    BY <1>2 DEF Apply, Refuse, OperatorGo
  <2> QED BY <2>1
<1>4. OperatorOK(p, archiveRows)
  <2>1. CASE \E w : p = [pc |-> "blocked", wrote |-> w]
    BY <2>1 DEF OperatorOK
  <2>2. CASE /\ Plannable /\ ArchivePlan = plan
             /\ p = [pc |-> "check", plan |-> plan, todo |-> DOMAIN plan.operations, wrote |-> 0,
                     alone |-> TRUE, seen |-> ArchiveInput]
    <3>1. plan.operations = [n \in Grouped(ArchiveInput) |-> Planned(ArchiveInput, n)]
      BY <2>2 DEF ArchivePlan
    <3>2. \A n \in Grouped(ArchiveInput) :
             OpOK(ArchiveInput, n, plan.operations[n]) /\ Awaited(archiveRows, n, plan.operations[n])
      BY <2>2, <3>1, PlanNow
    <3>3. /\ p.pc = "check" /\ p.plan = plan /\ p.todo = DOMAIN plan.operations /\ p.seen = ArchiveInput
          /\ DOMAIN p = {"pc", "plan", "todo", "wrote", "alone", "seen"}
      BY <2>2
    <3>4. InputOK(ArchiveInput)
      BY InputNow DEF ArchiveInv
    <3>5. DOMAIN plan.operations = Grouped(ArchiveInput)
      BY <3>1
    <3>6. PlanOK(p)
      BY <3>2, <3>3, <3>4, <3>5 DEF PlanOK
    <3>7. WorkOK(p, archiveRows)
      BY <3>2, <3>3, <3>5 DEF WorkOK
    <3> QED BY <3>3, <3>6, <3>7 DEF OperatorOK
  <2> QED BY <1>3, <2>1, <2>2
<1> QED BY <1>1, <1>3, <1>4, OperatorMoves

\* An operator at work is at an identity of the plan that is still to do.
LEMMA AtToDo ==
    ASSUME NEW p, PlanOK(p), p.todo \subseteq DOMAIN p.plan.operations, p.todo # {}
    PROVE  At(p) \in p.todo
<1>1. p.todo \in SUBSET Nat
  BY ArchiveAssumption DEF PlanOK, Grouped
<1>2. \E n \in p.todo : \A m \in p.todo : n <= m
  BY <1>1, NonemptyHasMin
<1> QED BY <1>2 DEF At

\* A dry run only keeps a plan.
LEMMA DryRunArchive ==
    ASSUME ArchiveInv, NEW o \in Operators, DryRun(o) PROVE ArchiveInv'
<1>1. sampleRows' = sampleRows /\ archiveRows' = archiveRows
  BY DEF DryRun, archiveRest
<1>2. PICK p : /\ operators' = [operators EXCEPT ![o] = p]
               /\ p.pc \in {"reviewed", "blocked"}
  <2> DEFINE b == [pc |-> "blocked", wrote |-> 0]
             c == [pc |-> "reviewed", plan |-> ArchivePlan]
  <2>1. \/ operators' = [operators EXCEPT ![o] = b]
        \/ operators' = [operators EXCEPT ![o] = c]
    BY DEF DryRun, Refuse, OperatorGo
  <2>2. b.pc = "blocked" /\ c.pc = "reviewed"
    OBVIOUS
  <2> HIDE DEF b, c
  <2> QED BY <2>1, <2>2
<1>3. OperatorOK(p, archiveRows)
  BY <1>2 DEF OperatorOK
<1> QED BY <1>1, <1>2, <1>3, OperatorMoves

\* A row that is unchanged is settled as it is; the others stay awaited.
LEMMA CheckArchive ==
    ASSUME ArchiveInv, NEW o \in Operators, CheckRow(o) PROVE ArchiveInv'
<1>1. sampleRows' = sampleRows /\ archiveRows' = archiveRows
  BY DEF CheckRow, archiveRest
<1>2. PICK p : p = operators[o]
  OBVIOUS
<1>3. PICK n : n = At(p)
  OBVIOUS
<1>4. PICK op : op = p.plan.operations[n]
  OBVIOUS
<1>5. p.pc = "check" /\ p.todo # {} /\ OperatorOK(p, archiveRows)
  BY <1>2 DEF CheckRow, ArchiveInv
<1>6. PlanOK(p) /\ WorkOK(p, archiveRows)
  BY <1>5 DEF OperatorOK
<1>7. n \in p.todo
  BY <1>3, <1>5, <1>6, AtToDo DEF WorkOK
<1>8. PICK r :
        /\ operators' = [operators EXCEPT ![o] = r]
        /\ \/ op.action = "unchanged" /\ r = [p EXCEPT !.todo = @ \ {n}]
           \/ r = [pc |-> "blocked", wrote |-> p.wrote]
           \/ r = [p EXCEPT !.pc = "save"]
  <2> DEFINE a == [p EXCEPT !.todo = @ \ {n}]
             b == [pc |-> "blocked", wrote |-> p.wrote]
             c == [p EXCEPT !.pc = "save"]
  <2>1. \/ op.action = "unchanged" /\ operators' = [operators EXCEPT ![o] = a]
        \/ operators' = [operators EXCEPT ![o] = b]
        \/ operators' = [operators EXCEPT ![o] = c]
    BY <1>2, <1>3, <1>4 DEF CheckRow, OperatorGo
  <2> QED BY <2>1
<1>9. OperatorOK(r, archiveRows)
  <2>1. CASE r = [pc |-> "blocked", wrote |-> p.wrote]
    BY <2>1 DEF OperatorOK
  <2>2. CASE r = [p EXCEPT !.pc = "save"]
    <3>1. /\ r.pc = "save" /\ r.plan = p.plan /\ r.todo = p.todo /\ r.seen = p.seen /\ r.alone = p.alone
          /\ DOMAIN r = DOMAIN p
      BY <1>6, <2>2 DEF WorkOK
    <3> QED BY <1>5, <1>6, <3>1 DEF OperatorOK, PlanOK, WorkOK
  <2>3. CASE op.action = "unchanged" /\ r = [p EXCEPT !.todo = @ \ {n}]
    <3>1. /\ r.pc = "check" /\ r.plan = p.plan /\ r.todo = p.todo \ {n} /\ r.seen = p.seen /\ r.alone = p.alone
          /\ DOMAIN r = DOMAIN p
      BY <1>5, <1>6, <2>3 DEF WorkOK
    <3>2. PlanOK(r)
      BY <1>6, <3>1 DEF PlanOK
    <3>3. Awaited(archiveRows, n, op) => RowSettled(archiveRows, n, op)
      <4>1. op.after = op.before
        BY <1>4, <1>6, <1>7, <2>3 DEF PlanOK, WorkOK, OpOK
      <4> QED BY <2>3, <4>1 DEF Awaited, RowSettled
    <3>4. WorkOK(r, archiveRows)
      BY <1>4, <1>6, <1>7, <3>1, <3>3 DEF WorkOK
    <3> QED BY <3>1, <3>2, <3>4 DEF OperatorOK
  <2> QED BY <1>8, <2>1, <2>2, <2>3
<1> QED BY <1>1, <1>8, <1>9, OperatorMoves

\* With nothing left to do, everything planned is settled.
LEMMA FinishArchive ==
    ASSUME ArchiveInv, NEW o \in Operators, FinishApply(o) PROVE ArchiveInv'
<1>1. sampleRows' = sampleRows /\ archiveRows' = archiveRows
  BY DEF FinishApply, archiveRest
<1>2. PICK p : p = operators[o]
  OBVIOUS
<1>3. p.pc = "check" /\ p.todo = {} /\ OperatorOK(p, archiveRows)
  BY <1>2 DEF FinishApply, ArchiveInv
<1>4. PlanOK(p) /\ WorkOK(p, archiveRows)
  BY <1>3 DEF OperatorOK
<1>5. PICK r :
        /\ operators' = [operators EXCEPT ![o] = r]
        /\ r = [pc |-> "done", plan |-> p.plan, alone |-> p.alone, seen |-> p.seen, left |-> archiveRows]
  BY <1>2 DEF FinishApply, OperatorGo
<1>6. r.pc = "done" /\ r.plan = p.plan /\ r.alone = p.alone /\ r.seen = p.seen /\ r.left = archiveRows
  BY <1>5
<1>7. PlanOK(r)
  BY <1>4, <1>6 DEF PlanOK
<1>8. DoneOK(r)
  BY <1>3, <1>4, <1>6 DEF DoneOK, WorkOK
<1>9. OperatorOK(r, archiveRows)
  BY <1>6, <1>7, <1>8 DEF OperatorOK
<1> QED BY <1>1, <1>5, <1>9, OperatorMoves

\* A killed command leaves what it wrote.
LEMMA DiesArchive ==
    ASSUME ArchiveInv, NEW o \in Operators, ApplyDies(o) PROVE ArchiveInv'
<1>1. sampleRows' = sampleRows /\ archiveRows' = archiveRows
  BY DEF ApplyDies, archiveRest
<1>2. PICK r : operators' = [operators EXCEPT ![o] = r] /\ r = [pc |-> "start"]
  BY DEF ApplyDies, OperatorGo
<1>3. OperatorOK(r, archiveRows)
  BY <1>2 DEF OperatorOK
<1> QED BY <1>1, <1>2, <1>3, OperatorMoves

\* The rows a save of an operation leaves.
SavedRows(kept, op) == IF op.action = "create" THEN Append(kept, op.after) ELSE [kept EXCEPT ![op.row] = op.after]

\* The rows after a save hold values the account exchanged.
LEMMA SavedRowsOK ==
    ASSUME NEW kept, RowsOK(kept), NEW in, NEW n, NEW op, OpOK(in, n, op)
    PROVE  RowsOK(SavedRows(kept, op))
<1>1. PICK S : kept \in Seq(S)
  BY DEF RowsOK
<1>2. PICK a : a = op.after
  OBVIOUS
<1>3. a.name = n /\ \A d \in Directions : a.vals[d] \in Seq(Exchanged(d, n))
  BY <1>2 DEF OpOK, After
<1>4. PICK T : T = S \cup {a}
  OBVIOUS
<1>5. kept \in Seq(T) /\ a \in T
  BY <1>1, <1>4, SeqWidens
<1>6. CASE op.action = "create"
  <2>1. PICK new : new = SavedRows(kept, op)
    OBVIOUS
  <2>2. new = Append(kept, a)
    BY <1>2, <1>6, <2>1 DEF SavedRows
  <2>3. new \in Seq(T) /\ Len(new) = Len(kept) + 1
    BY <1>5, <2>2
  <2>4. \A k \in DOMAIN new : (k \in DOMAIN kept /\ new[k] = kept[k]) \/ new[k] = a
    BY <1>5, <2>2
  <2> QED BY <1>3, <2>1, <2>3, <2>4 DEF RowsOK
<1>7. CASE op.action # "create"
  <2>1. PICK new : new = SavedRows(kept, op)
    OBVIOUS
  <2>2. new = [kept EXCEPT ![op.row] = a]
    BY <1>2, <1>7, <2>1 DEF SavedRows
  <2>3. Len(kept) \in Nat /\ kept \in [1..Len(kept) -> T] /\ DOMAIN kept = 1..Len(kept)
    BY <1>5
  <2>4. new \in [1..Len(kept) -> T]
    BY <1>5, <2>2, <2>3
  <2>5. new \in Seq(T)
    BY <2>3, <2>4
  <2>6. \A k \in DOMAIN new : (k \in DOMAIN kept /\ new[k] = kept[k]) \/ new[k] = a
    BY <2>2
  <2> QED BY <1>3, <2>1, <2>5, <2>6 DEF RowsOK
<1> QED BY <1>6, <1>7

\* Where an operation found what it waits for, its save settles its name and
\* leaves the others as they were.
LEMMA SavedSettles ==
    ASSUME NEW kept, RowsOK(kept), NEW in, NEW n, NEW op, OpOK(in, n, op), Awaited(kept, n, op)
    PROVE  /\ RowSettled(SavedRows(kept, op), n, op)
           /\ \A m, q : m # n => /\ Awaited(kept, m, q) => Awaited(SavedRows(kept, op), m, q)
                                 /\ RowSettled(kept, m, q) => RowSettled(SavedRows(kept, op), m, q)
<1>1. PICK S : kept \in Seq(S)
  BY DEF RowsOK
<1>2. PICK a : a = op.after
  OBVIOUS
<1>3. a.name = n
  BY <1>2 DEF OpOK, After
<1>4. PICK new : new = SavedRows(kept, op)
  OBVIOUS
<1>5. \E k : /\ RowsIn(new, n) = {k} /\ new[k] = a
             /\ \A m : m # n => /\ RowsIn(new, m) = RowsIn(kept, m)
                                /\ \A j \in RowsIn(kept, m) : new[j] = kept[j]
  <2>1. CASE op.action = "create"
    <3>1. new = Append(kept, a) /\ RowsIn(kept, n) = {}
      BY <1>2, <1>4, <2>1 DEF SavedRows, Awaited
    <3>2. PICK k : k = Len(kept) + 1
      OBVIOUS
    <3>3. /\ DOMAIN new = DOMAIN kept \cup {k} /\ k \notin DOMAIN kept
          /\ new[k] = a /\ \A j \in DOMAIN kept : new[j] = kept[j]
      BY <1>1, <3>1, <3>2
    <3> QED BY <1>3, <3>1, <3>3 DEF RowsIn
  <2>2. CASE op.action # "create"
    <3>1. new = [kept EXCEPT ![op.row] = a] /\ RowsIn(kept, n) = {op.row}
      BY <1>2, <1>4, <2>2 DEF SavedRows, Awaited
    <3>2. PICK k : k = op.row
      OBVIOUS
    <3>3. /\ DOMAIN new = DOMAIN kept /\ k \in DOMAIN kept /\ kept[k].name = n
          /\ new[k] = a /\ \A j \in DOMAIN kept : j # k => new[j] = kept[j]
      BY <3>1, <3>2 DEF RowsIn
    <3> QED BY <1>3, <3>1, <3>2, <3>3 DEF RowsIn
  <2> QED BY <2>1, <2>2
<1>6. ASSUME NEW m, NEW q, m # n, Awaited(kept, m, q) PROVE Awaited(new, m, q)
  BY <1>5, <1>6 DEF Awaited
<1>7. ASSUME NEW m, NEW q, m # n, RowSettled(kept, m, q) PROVE RowSettled(new, m, q)
  <2>1. PICK k : RowsIn(kept, m) = {k} /\ kept[k] = q.after
    BY <1>7 DEF RowSettled
  <2>2. RowsIn(new, m) = {k} /\ new[k] = q.after
    BY <1>5, <1>7, <2>1
  <2> QED BY <2>2 DEF RowSettled
<1>8. RowSettled(new, n, op)
  BY <1>2, <1>5 DEF RowSettled
<1> QED BY <1>4, <1>6, <1>7, <1>8

\* A save settles its row for its operator; every other operator at work is
\* not alone any more.
LEMMA SaveArchive ==
    ASSUME ArchiveInv, NEW o \in Operators, SaveRow(o) PROVE ArchiveInv'
<1>1. PICK p : p = operators[o]
  OBVIOUS
<1>2. PICK n : n = At(p)
  OBVIOUS
<1>3. PICK op : op = p.plan.operations[n]
  OBVIOUS
<1>4. PICK kept : kept = archiveRows
  OBVIOUS
<1>5. PICK new : new = SavedRows(kept, op)
  OBVIOUS
<1>6. sampleRows' = sampleRows /\ archiveRows' = new /\ p.pc = "save"
  BY <1>1, <1>2, <1>3, <1>4, <1>5 DEF SaveRow, archiveRest, SavedRows
<1>7. /\ DOMAIN operators' = Operators
      /\ operators'[o] = [p EXCEPT !.pc = "check", !.todo = @ \ {n}, !.wrote = @ + 1]
      /\ \A q \in Operators \ {o} :
            operators'[q] = IF operators[q].pc \in {"check", "save"} THEN [operators[q] EXCEPT !.alone = FALSE]
                            ELSE operators[q]
  BY <1>1, <1>2 DEF SaveRow
<1>8. \A d, m : Exchanged(d, m)' = Exchanged(d, m)
  BY <1>6 DEF Exchanged, RangeOf
<1>9. OperatorOK(p, kept) /\ RowsOK(kept)
  BY <1>1, <1>4 DEF ArchiveInv
<1>10. PlanOK(p) /\ WorkOK(p, kept)
  BY <1>6, <1>9 DEF OperatorOK
<1>11. n \in p.todo
  BY <1>2, <1>6, <1>10, AtToDo DEF WorkOK
<1>12. OpOK(p.seen, n, op)
  BY <1>3, <1>10, <1>11 DEF PlanOK, WorkOK
<1>13. RowsOK(new)
  BY <1>5, <1>9, <1>12, SavedRowsOK
<1>14. ASSUME NEW q \in Operators PROVE OperatorOK(operators[q], archiveRows)'
  <2>1. PICK r : r = operators'[q]
    OBVIOUS
  <2>2. OperatorOK(r, new)
    <3>1. CASE q = o
      <4>1. r = [p EXCEPT !.pc = "check", !.todo = @ \ {n}, !.wrote = @ + 1]
        BY <1>7, <2>1, <3>1
      <4>2. /\ r.pc = "check" /\ r.plan = p.plan /\ r.todo = p.todo \ {n} /\ r.seen = p.seen
            /\ r.alone = p.alone /\ DOMAIN r = DOMAIN p
        BY <1>10, <4>1 DEF WorkOK
      <4>3. PlanOK(r)
        BY <1>10, <4>2 DEF PlanOK
      <4>4. ASSUME r.alone = TRUE, NEW m \in DOMAIN r.plan.operations
            PROVE  IF m \in r.todo THEN Awaited(new, m, r.plan.operations[m])
                   ELSE RowSettled(new, m, r.plan.operations[m])
        <5>1. Awaited(kept, n, op)
          BY <1>3, <1>10, <1>11, <4>2, <4>4 DEF WorkOK
        <5>2. CASE m = n
          BY <1>3, <1>5, <1>9, <1>12, <4>2, <5>1, <5>2, SavedSettles
        <5>3. CASE m # n
          <6>1. IF m \in p.todo THEN Awaited(kept, m, p.plan.operations[m])
                ELSE RowSettled(kept, m, p.plan.operations[m])
            BY <1>10, <4>2, <4>4 DEF WorkOK
          <6>2. m \in r.todo <=> m \in p.todo
            BY <4>2, <5>3
          <6>3. \A x : /\ Awaited(kept, m, x) => Awaited(new, m, x)
                       /\ RowSettled(kept, m, x) => RowSettled(new, m, x)
            BY <1>5, <1>9, <1>12, <5>1, <5>3, SavedSettles
          <6> QED BY <4>2, <6>1, <6>2, <6>3
        <5> QED BY <5>2, <5>3
      <4>5. WorkOK(r, new)
        BY <1>10, <4>2, <4>4 DEF WorkOK
      <4> QED BY <4>2, <4>3, <4>5 DEF OperatorOK
    <3>2. CASE q # o /\ operators[q].pc \in {"check", "save"}
      <4>1. PICK s : s = operators[q]
        OBVIOUS
      <4>2. r = [s EXCEPT !.alone = FALSE] /\ s.pc \in {"check", "save"}
        BY <1>7, <2>1, <3>2, <4>1
      <4>3. OperatorOK(s, kept) /\ PlanOK(s) /\ WorkOK(s, kept)
        BY <1>4, <4>1, <4>2 DEF ArchiveInv, OperatorOK
      <4>4. /\ r.pc = s.pc /\ r.plan = s.plan /\ r.todo = s.todo /\ r.seen = s.seen
            /\ r.alone = FALSE /\ DOMAIN r = DOMAIN s
        BY <4>2, <4>3 DEF WorkOK
      <4>5. PlanOK(r)
        BY <4>3, <4>4 DEF PlanOK
      <4>6. WorkOK(r, new)
        BY <4>3, <4>4 DEF WorkOK
      <4> QED BY <4>2, <4>4, <4>5, <4>6 DEF OperatorOK
    <3>3. CASE q # o /\ operators[q].pc \notin {"check", "save"}
      <4>1. r = operators[q] /\ OperatorOK(r, kept) /\ r.pc \notin {"check", "save"}
        BY <1>4, <1>7, <2>1, <3>3 DEF ArchiveInv
      <4> QED BY <4>1 DEF OperatorOK
    <3> QED BY <3>1, <3>2, <3>3
  <2>3. OperatorOK(r, new)'
    BY <1>8, <2>2, OperatorStays
  <2> QED BY <1>6, <2>1, <2>3 DEF OperatorOK, PlanOK, OpOK, WorkOK, DoneOK
<1>15. RowsOK(archiveRows)'
  <2>1. RowsOK(new)'
    BY <1>8, <1>13, RowsStay
  <2> QED BY <1>6, <2>1 DEF RowsOK
<1>16. sampleRows' \in Seq(Samples)
  BY <1>6 DEF ArchiveInv
<1> QED BY <1>7, <1>14, <1>15, <1>16 DEF ArchiveInv

\* Every step keeps the invariant.
LEMMA NextArchive == ArchiveInv /\ [ArchiveNext]_archiveVars => ArchiveInv'
<1> SUFFICES ASSUME ArchiveInv, [ArchiveNext]_archiveVars PROVE ArchiveInv'
  OBVIOUS
<1>1. ASSUME NEW i \in Imports, ImportCapture(i) \/ ImportPostman(i) PROVE ArchiveInv'
  <2>1. PICK c \in Samples : StoreSample(i, c)
    BY <1>1 DEF ImportCapture, ImportPostman, Samples
  <2>2. UNCHANGED importRest /\ (sampleRows' = sampleRows \/ sampleRows' = Append(sampleRows, c))
    BY <2>1 DEF StoreSample, importRest
  <2> QED BY <2>2, ImportArchive
<1>2. ASSUME NEW i \in Imports,
             ImportOpenApi(i) \/ Disassemble(i) \/ Aggregate(i) \/ Allocate(i) \/ Upsert(i)
      PROVE  ArchiveInv'
  <2>1. UNCHANGED importRest /\ sampleRows' = sampleRows
    BY <1>2 DEF ImportOpenApi, Disassemble, Aggregate, Allocate, Upsert, importRest
  <2> QED BY <2>1, ImportArchive
<1>3. ASSUME NEW o \in Operators,
             DryRun(o) \/ Apply(o) \/ CheckRow(o) \/ SaveRow(o) \/ FinishApply(o) \/ ApplyDies(o)
      PROVE  ArchiveInv'
  BY <1>3, DryRunArchive, ApplyArchive, CheckArchive, SaveArchive, FinishArchive, DiesArchive
<1>4. CASE UNCHANGED archiveVars
  <2>1. UNCHANGED importRest /\ sampleRows' = sampleRows
    BY <1>4 DEF archiveVars, importRest
  <2> QED BY <2>1, ImportArchive
<1> QED BY <1>1, <1>2, <1>3, <1>4 DEF ArchiveNext

\* A plan of now finds nothing to change where a plan of the same input is settled.
LEMMA NothingLeft ==
    ASSUME ArchiveInv, NEW n, NEW op, OpOK(ArchiveInput, n, op), RowSettled(archiveRows, n, op)
    PROVE  Planned(ArchiveInput, n).action = "unchanged"
<1>1. PICK k : RowsIn(archiveRows, n) = {k} /\ archiveRows[k] = op.after
  BY DEF RowSettled
<1>2. RowsOf(n) = {k}
  BY <1>1 DEF RowsOf, RowsIn
<1>3. k # 0
  <2>1. PICK S : archiveRows \in Seq(S)
    BY DEF ArchiveInv, RowsOK
  <2>2. k \in DOMAIN archiveRows
    BY <1>1 DEF RowsIn
  <2> QED BY <2>1, <2>2
<1>4. After(ArchiveInput, n, op.after) = op.after
  <2>1. InputOK(ArchiveInput)
    BY InputNow DEF ArchiveInv
  <2>2. op.after = After(ArchiveInput, n, op.before) /\ \A d \in Directions : op.before.vals[d] \in Seq(Nat)
    BY DEF OpOK
  <2> QED BY <2>1, <2>2, AfterSettles
<1>5. (CHOOSE j \in RowsOf(n) : TRUE) = k
  BY <1>2
<1>6. PICK a : a = op.after
  OBVIOUS
<1> QED BY <1>1, <1>2, <1>3, <1>4, <1>5, <1>6 DEF Planned

\* The rows and the operators being so, the archive is faithful.
LEMMA ArchiveInvFaithful == ArchiveInv => ArchiveIsFaithful
<1> SUFFICES ASSUME ArchiveInv PROVE ArchiveIsFaithful
  OBVIOUS
<1>1. ArchivedIsOwn
  <2> SUFFICES ASSUME NEW k \in DOMAIN archiveRows, NEW d \in Directions,
                      NEW v \in RangeOf(archiveRows[k].vals[d])
               PROVE  v \in Exchanged(d, archiveRows[k].name)
    BY DEF ArchivedIsOwn, Exchanged
  <2>1. PICK s : s = archiveRows[k].vals[d]
    OBVIOUS
  <2>2. PICK V : V = Exchanged(d, archiveRows[k].name)
    OBVIOUS
  <2>3. s \in Seq(V) /\ v \in RangeOf(s)
    BY <2>1, <2>2 DEF ArchiveInv, RowsOK
  <2> QED BY <2>2, <2>3 DEF RangeOf
<1>2. ApplySettles
  <2> SUFFICES ASSUME NEW o \in Operators, operators[o].pc = "done", operators[o].alone,
                      operators[o].left = archiveRows, operators[o].seen = ArchiveInput,
                      NEW op \in RangeOf(ArchivePlan.operations)
               PROVE  op.action = "unchanged"
    BY DEF ApplySettles
  <2>1. PICK p : p = operators[o]
    OBVIOUS
  <2>2. PlanOK(p) /\ DoneOK(p)
    BY <2>1 DEF ArchiveInv, OperatorOK
  <2>3. p.alone = TRUE /\ p.left = archiveRows /\ p.seen = ArchiveInput
    BY <2>1
  <2>4. PICK n \in Grouped(ArchiveInput) : op = Planned(ArchiveInput, n)
    BY DEF ArchivePlan, RangeOf
  <2>5. n \in DOMAIN p.plan.operations
    BY <2>2, <2>3, <2>4 DEF PlanOK
  <2>6. OpOK(ArchiveInput, n, p.plan.operations[n]) /\ RowSettled(archiveRows, n, p.plan.operations[n])
    BY <2>2, <2>3, <2>5 DEF PlanOK, DoneOK
  <2> QED BY <2>4, <2>6, NothingLeft
<1> QED BY <1>1, <1>2 DEF ArchiveIsFaithful

\* For any captures, operators and limit (profile_parameter_archive.py): what a
\* revision's archive holds was exchanged by its account under that name, and a
\* reviewed plan that was applied without interference leaves nothing for the
\* plan of the same input to change, because _merge_values keeps what is stored
\* first and cuts off what is new.
THEOREM ArchivesFaithful == ArchiveSpec => []ArchiveIsFaithful
<1>1. ArchiveInit => ArchiveInv
  BY InitArchive
<1>2. ArchiveInv /\ [ArchiveNext]_archiveVars => ArchiveInv'
  BY NextArchive
<1>3. ArchiveInv => ArchiveIsFaithful
  BY ArchiveInvFaithful
<1> QED BY <1>1, <1>2, <1>3, PTL DEF ArchiveSpec

-----------------------------------------------------------------------------
(* RequestFixture.  What a call has read and will write is of revisions    *)
(* that were inserted.                                                     *)

\* The documents of a fixture; NoFixture is none of them.
Docs == [lifecycle : {"active", "inactive", "archived"}, active : BOOLEAN, rev : Nat,
         query : FixtureValues, body : FixtureValues]

\* A document of a revision that was inserted.
Stored(d) == d.rev \in DOMAIN revisions

\* A document whose revision, payload and lifecycle were written together.
Whole(d) ==
    /\ d.query = revisions[d.rev].query /\ d.body = revisions[d.rev].body
    /\ d.active = TRUE <=> d.lifecycle = "active"

\* What a call has read, and what it will write: whole if what it read was.
FixtureCallOK(call) ==
    /\ call.pc \in {"idle", "insert", "write", "event"}
    /\ call.pc # "idle" => DOMAIN call = {"pc", "read", "new", "kind"}
    /\ call.pc \in {"insert", "write"} =>
          /\ call.new \in Docs
          /\ call.read # NoFixture => fixture # NoFixture /\ call.read \in Docs /\ Stored(call.read)
    /\ call.pc = "insert" => (call.new.active = TRUE <=> call.new.lifecycle = "active")
    /\ call.pc = "write" =>
          /\ Stored(call.new)
          /\ call.read = NoFixture \/ Whole(call.read) => Whole(call.new)

\* The document is of a stored revision, and whole unless a stale one was written.
DocumentOK ==
    /\ fixture # NoFixture => fixture \in Docs /\ Stored(fixture)
    /\ staleWrite \in BOOLEAN
    /\ fixture # NoFixture /\ staleWrite = FALSE => Whole(fixture)

\* A sealed fixture stays: nobody is left who could write it.
SealOK ==
    sealed # NoFixture =>
       /\ fixture = sealed /\ sealed.lifecycle = "archived"
       /\ \A c \in FixtureCalls : fixtureCall[c].pc \notin {"insert", "write"}

FixtureInv ==
    /\ revisions \in Seq(FixturePayloads)
    /\ DocumentOK /\ SealOK
    /\ DOMAIN fixtureCall = FixtureCalls /\ \A c \in FixtureCalls : FixtureCallOK(fixtureCall[c])

-----------------------------------------------------------------------------
LEMMA NoDoc == NoFixture \notin Docs
  BY FixtureAssumption DEF Docs

LEMMA InitFixture == FixtureInit => FixtureInv
<1> SUFFICES ASSUME FixtureInit PROVE FixtureInv
  OBVIOUS
<1>1. revisions \in Seq(FixturePayloads) /\ DocumentOK /\ SealOK
  <2>1. revisions = << >> /\ fixture = NoFixture /\ staleWrite = FALSE /\ sealed = NoFixture
    BY DEF FixtureInit
  <2>2. << >> \in Seq(FixturePayloads)
    OBVIOUS
  <2>3. DocumentOK
    BY <2>1 DEF DocumentOK
  <2>4. SealOK
    BY <2>1 DEF SealOK
  <2> QED BY <2>1, <2>2, <2>3, <2>4
<1>2. PICK l : l = FixtureIdle
  OBVIOUS
<1>3. FixtureCallOK(l)
  BY <1>2 DEF FixtureIdle, FixtureCallOK
<1>4. DOMAIN fixtureCall = FixtureCalls /\ \A c \in FixtureCalls : fixtureCall[c] = l
  BY <1>2 DEF FixtureInit
<1> QED BY <1>1, <1>3, <1>4 DEF FixtureInv

LEMMA SealStep ==
  ASSUME SealOK, SealFixture,
         sealed # NoFixture => UNCHANGED fixture /\ \A c \in FixtureCalls : fixtureCall'[c].pc \notin {"insert", "write"}
  PROVE  SealOK'
  BY DEF SealOK, SealFixture

\* Revisions are only added, and a document stays what it is in them.
Extends == revisions' \in Seq(FixturePayloads) /\ DOMAIN revisions \subseteq DOMAIN revisions'
           /\ \A n \in DOMAIN revisions : revisions'[n] = revisions[n]

LEMMA StoredStays ==
  ASSUME Extends, NEW d, Stored(d)
  PROVE  (d.rev \in DOMAIN revisions')
         /\ (Whole(d) <=> /\ d.query = revisions'[d.rev].query /\ d.body = revisions'[d.rev].body
                          /\ (d.active = TRUE <=> d.lifecycle = "active"))
  BY DEF Extends, Stored, Whole

\* The call c goes on to n, the document stays or is made.
LEMMA FixtureCallStep ==
  ASSUME FixtureInv, Extends, fixture # NoFixture => fixture' # NoFixture, DocumentOK', SealOK',
         NEW c \in FixtureCalls, NEW n, fixtureCall' = [fixtureCall EXCEPT ![c] = n], FixtureCallOK(n)'
  PROVE  FixtureInv'
<1>1. DOMAIN fixtureCall' = FixtureCalls /\ \A d \in FixtureCalls : fixtureCall'[d] = IF d = c THEN n ELSE fixtureCall[d]
  BY DEF FixtureInv
<1>2. ASSUME NEW l, FixtureCallOK(l) PROVE FixtureCallOK(l)'
  <2>1. l.pc \in {"insert", "write"} /\ l.read # NoFixture => Stored(l.read) /\ Stored(l.read)' /\ (Whole(l.read) <=> Whole(l.read)')
    BY <1>2, StoredStays DEF FixtureCallOK, Stored, Whole
  <2>2. l.pc = "write" => Stored(l.new) /\ Stored(l.new)' /\ (Whole(l.new) <=> Whole(l.new)')
    BY <1>2, StoredStays DEF FixtureCallOK, Stored, Whole
  <2>3. l.pc = "write" => (l.read = NoFixture \/ Whole(l.read) => Whole(l.new))
    BY <1>2 DEF FixtureCallOK
  <2>4. l.pc = "write" => (l.read = NoFixture \/ Whole(l.read)' => Whole(l.new)')
    BY <2>1, <2>2, <2>3
  <2> QED BY <1>2, <2>1, <2>2, <2>4 DEF FixtureCallOK
<1>3. ASSUME NEW d \in FixtureCalls PROVE FixtureCallOK(fixtureCall[d])'
  <2>1. PICK l : l = fixtureCall'[d]
    OBVIOUS
  <2>2. FixtureCallOK(l)'
    BY <1>1, <1>2, <2>1 DEF FixtureInv
  <2> QED BY <2>1, <2>2 DEF FixtureCallOK, Stored, Whole
<1> QED BY <1>1, <1>3 DEF FixtureInv, Extends

\* A step that leaves document and revisions alone.
LEMMA FixtureReadStep ==
  ASSUME FixtureInv, UNCHANGED <<fixture, revisions, staleWrite>>, SealFixture,
         NEW c \in FixtureCalls, NEW n, fixtureCall' = [fixtureCall EXCEPT ![c] = n], FixtureCallOK(n),
         sealed # NoFixture => n.pc \notin {"insert", "write"}
  PROVE  FixtureInv'
<1>1. Extends
  BY DEF FixtureInv, Extends
<1>2. DocumentOK'
  BY DEF FixtureInv, DocumentOK, Stored, Whole
<1>3. SealOK'
  <2>1. \A d \in FixtureCalls : fixtureCall'[d] = IF d = c THEN n ELSE fixtureCall[d]
    BY DEF FixtureInv
  <2> QED BY <2>1, SealStep DEF FixtureInv, SealOK
<1>4. FixtureCallOK(n)'
  BY DEF FixtureCallOK, Stored, Whole
<1> QED BY <1>1, <1>2, <1>3, <1>4, FixtureCallStep

LEMMA IdleOK == FixtureCallOK(FixtureIdle) /\ FixtureIdle.pc = "idle"
  BY DEF FixtureIdle, FixtureCallOK

\* Nobody opens a sealed fixture.
LEMMA SealedState == ASSUME FixtureInv, sealed # NoFixture PROVE FixtureState = "archived" /\ fixture # NoFixture
  BY DEF FixtureInv, SealOK, FixtureState

LEMMA BeginStep ==
  ASSUME FixtureInv, NEW c \in FixtureCalls, NEW n, FixtureBegin(c, n), FixtureCallOK(n), FixtureState # "archived"
  PROVE  FixtureInv'
<1>1. UNCHANGED <<fixture, revisions, staleWrite>> /\ SealFixture /\ fixtureCall' = [fixtureCall EXCEPT ![c] = n]
  BY DEF FixtureBegin
<1>2. sealed = NoFixture
  BY SealedState
<1> QED BY <1>1, <1>2, FixtureReadStep

\* The document that is read now.
LEMMA CurrentIs ==
  ASSUME FixtureInv, fixture # NoFixture
  PROVE  /\ fixture \in Docs /\ Stored(fixture) /\ FixtureState = fixture.lifecycle
         /\ DOMAIN fixture = {"lifecycle", "active", "rev", "query", "body"}
  BY DEF FixtureInv, DocumentOK, FixtureState, Docs

-----------------------------------------------------------------------------
LEMMA SaveKeeps ==
  ASSUME FixtureInv, NEW c \in FixtureCalls, NEW payload \in FixturePayloads, SaveFixture(c, payload)
  PROVE  FixtureInv'
<1>1. PICK known : known = {k \in DOMAIN revisions : revisions[k] = payload}
  OBVIOUS
<1>2. PICK n : n = IF known = {} THEN Len(revisions) + 1 ELSE CHOOSE k \in known : TRUE
  OBVIOUS
<1>3. known # {} => n \in known
  BY <1>2
<1>4. revisions \in Seq(FixturePayloads) /\ Len(revisions) \in Nat /\ DOMAIN revisions = 1..Len(revisions)
  BY DEF FixtureInv
<1>5. n \in Nat
  BY <1>1, <1>2, <1>3, <1>4
<1>6. PICK new : new = FixtureDoc("active", n, payload)
  OBVIOUS
<1>7. new \in Docs /\ new.rev = n /\ new.active = TRUE /\ new.lifecycle = "active"
      /\ new.query = payload.query /\ new.body = payload.body
  BY <1>5, <1>6 DEF FixtureDoc, Docs, FixturePayloads
<1>8. PICK kind : FixtureBegin(c, [pc |-> IF known = {} THEN "insert" ELSE "write", read |-> fixture,
                                   new |-> new, kind |-> kind])
  BY <1>1, <1>2, <1>6 DEF SaveFixture
<1>9. PICK call : call = [pc |-> IF known = {} THEN "insert" ELSE "write", read |-> fixture, new |-> new, kind |-> kind]
  OBVIOUS
<1>10. call.pc = (IF known = {} THEN "insert" ELSE "write") /\ call.read = fixture /\ call.new = new
       /\ DOMAIN call = {"pc", "read", "new", "kind"}
  BY <1>9
<1>11. known # {} => Stored(new) /\ Whole(new)
  BY <1>1, <1>3, <1>7 DEF Stored, Whole
<1>12. FixtureCallOK(call)
  BY <1>7, <1>10, <1>11, CurrentIs DEF FixtureCallOK
<1> QED BY <1>8, <1>9, <1>12, BeginStep DEF SaveFixture

LEMMA ActivateKeeps ==
  ASSUME FixtureInv, NEW c \in FixtureCalls, NEW n \in DOMAIN revisions, ActivateRevision(c, n)
  PROVE  FixtureInv'
<1>1. fixture # NoFixture /\ FixtureState # "archived"
  BY DEF ActivateRevision, FixtureState
<1>2. revisions[n] \in FixturePayloads /\ n \in Nat
  BY DEF FixtureInv
<1>3. PICK new : new = FixtureDoc("active", n, revisions[n])
  OBVIOUS
<1>4. new \in Docs /\ new.rev = n /\ new.active = TRUE /\ new.lifecycle = "active"
      /\ new.query = revisions[n].query /\ new.body = revisions[n].body
  BY <1>2, <1>3 DEF FixtureDoc, Docs, FixturePayloads
<1>5. PICK call : call = [pc |-> "write", read |-> fixture, kind |-> "activated", new |-> new]
  OBVIOUS
<1>6. FixtureBegin(c, call)
  BY <1>3, <1>5 DEF ActivateRevision
<1>7. Stored(new) /\ Whole(new)
  BY <1>4 DEF Stored, Whole
<1>8. FixtureCallOK(call)
  BY <1>1, <1>4, <1>5, <1>7, CurrentIs DEF FixtureCallOK
<1> QED BY <1>1, <1>6, <1>8, BeginStep

LEMMA LeaveKeeps ==
  ASSUME FixtureInv, NEW c \in FixtureCalls, DeactivateFixture(c) \/ ArchiveFixture(c)
  PROVE  FixtureInv'
<1>1. fixture # NoFixture /\ FixtureState # "archived"
  BY DEF DeactivateFixture, ArchiveFixture, FixtureState
<1>2. PICK l \in {"inactive", "archived"} : \E kind :
         FixtureBegin(c, [pc |-> "write", read |-> fixture, kind |-> kind,
                          new |-> [fixture EXCEPT !.lifecycle = l, !.active = FALSE]])
  BY DEF DeactivateFixture, ArchiveFixture
<1>3. PICK kind :
         FixtureBegin(c, [pc |-> "write", read |-> fixture, kind |-> kind,
                          new |-> [fixture EXCEPT !.lifecycle = l, !.active = FALSE]])
  BY <1>2
<1>4. PICK new : new = [fixture EXCEPT !.lifecycle = l, !.active = FALSE]
  OBVIOUS
<1>5. new \in Docs /\ new.rev = fixture.rev /\ new.active = FALSE /\ new.lifecycle = l
      /\ new.query = fixture.query /\ new.body = fixture.body
  BY <1>1, <1>4, CurrentIs DEF Docs
<1>6. PICK call : call = [pc |-> "write", read |-> fixture, kind |-> kind, new |-> new]
  OBVIOUS
<1>7. Stored(new) /\ (Whole(fixture) => Whole(new))
  BY <1>1, <1>5, CurrentIs DEF Stored, Whole
<1>8. FixtureCallOK(call)
  BY <1>1, <1>5, <1>6, <1>7, CurrentIs DEF FixtureCallOK
<1> QED BY <1>1, <1>3, <1>4, <1>6, <1>8, BeginStep

LEMMA RevisionKeeps == ASSUME FixtureInv, NEW c \in FixtureCalls, InsertRevision(c) PROVE FixtureInv'
<1>1. PICK call : call = fixtureCall[c]
  OBVIOUS
<1>2. call.pc = "insert" /\ FixtureCallOK(call) /\ sealed = NoFixture
      /\ UNCHANGED <<fixture, staleWrite>> /\ SealFixture
  BY <1>1 DEF InsertRevision, FixtureInv, SealOK
<1>3. CASE UNCHANGED revisions /\ fixtureCall' = [fixtureCall EXCEPT ![c] = FixtureIdle]
  BY <1>2, <1>3, IdleOK, FixtureReadStep
<1>4. CASE /\ call.new.rev = Len(revisions) + 1
           /\ revisions' = Append(revisions, FixturePayload(call.new))
           /\ fixtureCall' = [fixtureCall EXCEPT ![c].pc = "write"]
  <2>1. PICK new : new = call.new
    OBVIOUS
  <2>2. new \in Docs /\ (new.active = TRUE <=> new.lifecycle = "active")
    BY <1>2, <2>1 DEF FixtureCallOK
  <2>3. PICK p : p = FixturePayload(new)
    OBVIOUS
  <2>4. p \in FixturePayloads /\ p.query = new.query /\ p.body = new.body
    BY <2>2, <2>3 DEF FixturePayload, FixturePayloads, Docs
  <2>5. revisions \in Seq(FixturePayloads) /\ revisions' = Append(revisions, p)
    BY <1>4, <2>1, <2>3 DEF FixtureInv
  <2>6. /\ revisions' \in Seq(FixturePayloads) /\ DOMAIN revisions \subseteq DOMAIN revisions'
        /\ \A n \in DOMAIN revisions : revisions'[n] = revisions[n]
        /\ Len(revisions) + 1 \in DOMAIN revisions' /\ revisions'[Len(revisions) + 1] = p
    BY <2>4, <2>5
  <2>7. Extends
    BY <2>6 DEF Extends
  <2>8. Stored(new)' /\ Whole(new)'
    BY <1>4, <2>1, <2>2, <2>4, <2>6 DEF Stored, Whole
  <2>9. DocumentOK'
    BY <1>2, <2>7, StoredStays DEF FixtureInv, DocumentOK, Stored, Whole
  <2>10. SealOK'
    BY <1>2, SealStep DEF FixtureInv
  <2>11. PICK n : n = [call EXCEPT !.pc = "write"]
    OBVIOUS
  <2>12. fixtureCall' = [fixtureCall EXCEPT ![c] = n]
    BY <1>1, <1>4, <2>11
  <2>13. DOMAIN n = {"pc", "read", "new", "kind"} /\ n.pc = "write" /\ n.new = new /\ n.read = call.read
    BY <1>2, <2>1, <2>11 DEF FixtureCallOK
  <2>14. n.read # NoFixture => fixture' # NoFixture /\ n.read \in Docs /\ Stored(n.read)'
    BY <1>2, <2>7, <2>13, StoredStays DEF FixtureCallOK, Stored
  <2>15. FixtureCallOK(n)'
    BY <2>2, <2>8, <2>13, <2>14 DEF FixtureCallOK
  <2> QED BY <1>2, <2>7, <2>9, <2>10, <2>12, <2>15, FixtureCallStep
<1> QED BY <1>1, <1>2, <1>3, <1>4 DEF InsertRevision


\* What save() makes of two documents is a document; of the one it read, the new one.
LEMMA SavedIs ==
  ASSUME FixtureInv, NEW old, NEW new \in Docs, Stored(new),
         old = NoFixture => fixture = NoFixture, old # NoFixture => fixture # NoFixture,
         NEW d, d = SavedFixture(old, new, fixture)
  PROVE  d \in Docs /\ Stored(d) /\ (fixture = old => d = new)
<1>1. CASE old = NoFixture
  BY <1>1 DEF SavedFixture
<1>2. CASE old # NoFixture
  <2>1. fixture \in Docs /\ Stored(fixture)
    BY <1>2, CurrentIs
  <2>2. DOMAIN new = {"lifecycle", "active", "rev", "query", "body"}
    BY DEF Docs
  <2>3. d = [f \in DOMAIN new |-> IF new[f] # old[f] THEN new[f] ELSE fixture[f]]
    BY <1>2 DEF SavedFixture
  <2>4. /\ d.lifecycle = new.lifecycle \/ d.lifecycle = fixture.lifecycle
        /\ d.active = new.active \/ d.active = fixture.active
        /\ d.rev = new.rev \/ d.rev = fixture.rev
        /\ d.query = new.query \/ d.query = fixture.query
        /\ d.body = new.body \/ d.body = fixture.body
        /\ DOMAIN d = {"lifecycle", "active", "rev", "query", "body"}
    BY <2>2, <2>3
  <2>5. d = [lifecycle |-> d.lifecycle, active |-> d.active, rev |-> d.rev, query |-> d.query, body |-> d.body]
    BY <2>2, <2>3
  <2>6. d.lifecycle \in {"active", "inactive", "archived"} /\ d.active \in BOOLEAN /\ d.rev \in Nat
        /\ d.query \in FixtureValues /\ d.body \in FixtureValues
    BY <2>1, <2>4 DEF Docs
  <2>7. d \in Docs
    BY <2>5, <2>6 DEF Docs
  <2>8. Stored(d)
    BY <2>1, <2>4 DEF Stored
  <2>9. fixture = old => d = new
    <3>1. fixture = old => \A f \in DOMAIN new : d[f] = new[f]
      BY <2>3
    <3>2. new = [f \in DOMAIN new |-> new[f]]
      BY DEF Docs
    <3> QED BY <2>3, <3>1, <3>2
  <2> QED BY <2>7, <2>8, <2>9
<1> QED BY <1>1, <1>2

LEMMA WriteKeeps == ASSUME FixtureInv, NEW c \in FixtureCalls, WriteFixture(c) PROVE FixtureInv'
<1>1. PICK call : call = fixtureCall[c]
  OBVIOUS
<1>2. call.pc = "write" /\ FixtureCallOK(call) /\ sealed = NoFixture /\ UNCHANGED revisions /\ SealFixture
  BY <1>1 DEF WriteFixture, FixtureInv, SealOK
<1>3. Extends
  BY <1>2 DEF FixtureInv, Extends
<1>4. CASE fixtureCall' = [fixtureCall EXCEPT ![c] = FixtureIdle] /\ UNCHANGED <<fixture, staleWrite>>
  BY <1>2, <1>4, IdleOK, FixtureReadStep
<1>5. CASE ~(fixtureCall' = [fixtureCall EXCEPT ![c] = FixtureIdle] /\ UNCHANGED <<fixture, staleWrite>>)
  <2>1. ~(call.read = NoFixture /\ fixture # NoFixture)
    BY <1>1, <1>5 DEF WriteFixture
  <2>2. fixture' = SavedFixture(call.read, call.new, fixture) /\ staleWrite' = (staleWrite \/ fixture # call.read)
    BY <1>1, <1>5, <2>1 DEF WriteFixture
  <2>3. PICK new : new = call.new
    OBVIOUS
  <2>4. new \in Docs /\ Stored(new) /\ (call.read # NoFixture => fixture # NoFixture)
        /\ (call.read = NoFixture \/ Whole(call.read) => Whole(new))
    BY <1>2, <2>3 DEF FixtureCallOK
  <2>5. PICK d : d = fixture'
    OBVIOUS
  <2>6. d \in Docs /\ Stored(d) /\ (fixture = call.read => d = new)
    BY <2>1, <2>2, <2>3, <2>4, <2>5, SavedIs
  <2>7. staleWrite' = FALSE => staleWrite = FALSE /\ fixture = call.read
    BY <2>2 DEF FixtureInv, DocumentOK
  <2>8. staleWrite' = FALSE => Whole(d)
    BY <2>4, <2>6, <2>7 DEF FixtureInv, DocumentOK
  <2>9. DocumentOK'
    <3>1. staleWrite' \in BOOLEAN
      BY <2>2 DEF FixtureInv, DocumentOK
    <3> QED BY <1>2, <2>5, <2>6, <2>8, <3>1 DEF DocumentOK, Stored, Whole
  <2>10. fixture' # NoFixture
    BY <2>5, <2>6, NoDoc
  <2>11. SealOK'
    BY <1>2, SealStep DEF FixtureInv
  <2>12. PICK n : fixtureCall' = [fixtureCall EXCEPT ![c] = n] /\ (n = FixtureIdle \/ n = [call EXCEPT !.pc = "event"])
    BY <1>1, <1>5, <2>1 DEF WriteFixture
  <2>13. FixtureCallOK(n)'
    <3>1. CASE n = FixtureIdle
      BY <3>1 DEF FixtureIdle, FixtureCallOK
    <3>2. CASE n = [call EXCEPT !.pc = "event"]
      <4>1. DOMAIN n = {"pc", "read", "new", "kind"} /\ n.pc = "event"
        BY <1>2, <3>2 DEF FixtureCallOK
      <4> QED BY <4>1 DEF FixtureCallOK
    <3> QED BY <2>12, <3>1, <3>2
  <2> QED BY <1>3, <2>9, <2>10, <2>11, <2>12, <2>13, FixtureCallStep
<1> QED BY <1>4, <1>5

LEMMA EndKeeps ==
  ASSUME FixtureInv, NEW c \in FixtureCalls, AppendEvent(c) \/ FixtureCallDies(c)
  PROVE  FixtureInv'
<1>1. fixtureCall' = [fixtureCall EXCEPT ![c] = FixtureIdle] /\ UNCHANGED <<fixture, revisions, staleWrite>> /\ SealFixture
  BY DEF AppendEvent, FixtureCallDies
<1> QED BY <1>1, IdleOK, FixtureReadStep

LEMMA NextFixture == ASSUME FixtureInv, [FixtureNext]_fixtureVars PROVE FixtureInv'
<1>1. CASE UNCHANGED fixtureVars
  <2>1. UNCHANGED <<fixture, revisions, fixtureCall, staleWrite, sealed>>
    BY <1>1 DEF fixtureVars
  <2>2. DocumentOK' /\ SealOK'
    BY <2>1 DEF FixtureInv, DocumentOK, SealOK, Stored, Whole
  <2>3. ASSUME NEW c \in FixtureCalls PROVE FixtureCallOK(fixtureCall[c])'
    BY <2>1 DEF FixtureInv, FixtureCallOK, Stored, Whole
  <2> QED BY <2>1, <2>2, <2>3 DEF FixtureInv
<1>2. CASE FixtureNext
  BY <1>2, SaveKeeps, ActivateKeeps, LeaveKeeps, RevisionKeeps, WriteKeeps, EndKeeps DEF FixtureNext
<1> QED BY <1>1, <1>2

LEMMA FixtureInvSound == FixtureInv => FixtureConsistent
<1> SUFFICES ASSUME FixtureInv PROVE FixtureConsistent
  OBVIOUS
<1>1. ArchiveHolds
  BY DEF FixtureInv, SealOK, ArchiveHolds
<1>2. FixtureCarriesRevision
  <2> SUFFICES ASSUME fixture # NoFixture
               PROVE  /\ fixture.rev \in DOMAIN revisions
                      /\ ~staleWrite => /\ FixturePayload(fixture) = revisions[fixture.rev]
                                        /\ fixture.active <=> fixture.lifecycle = "active"
    BY DEF FixtureCarriesRevision
  <2>1. fixture \in Docs /\ Stored(fixture)
    BY CurrentIs
  <2>2. ~staleWrite => Whole(fixture)
    BY DEF FixtureInv, DocumentOK
  <2>3. revisions[fixture.rev] \in [query : FixtureValues, body : FixtureValues]
    <3>1. PICK n : n = fixture.rev
      OBVIOUS
    <3>2. revisions \in Seq(FixturePayloads) /\ n \in DOMAIN revisions
      BY <2>1, <3>1 DEF Stored, FixtureInv
    <3>3. revisions[n] \in FixturePayloads
      BY <3>2
    <3> QED BY <3>1, <3>3 DEF FixturePayloads
  <2>4. ~staleWrite => FixturePayload(fixture) = revisions[fixture.rev]
    BY <2>2, <2>3 DEF Whole, FixturePayload
  <2>5. fixture.active \in BOOLEAN
    BY <2>1 DEF Docs
  <2> QED BY <2>1, <2>2, <2>4, <2>5 DEF Stored, Whole
<1> QED BY <1>1, <1>2 DEF FixtureConsistent

\* For any calls interleaved between their reads and writes (request_fixture.py): a
\* fixture no stale document was written over shows the payload of its revision
\* and is active in both fields or neither, and once archived with no call left
\* that could write it stays as it is.
THEOREM FixturesConsistent == FixtureSpec => []FixtureConsistent
<1>1. FixtureSpec => []FixtureInv
  BY InitFixture, NextFixture, PTL DEF FixtureSpec
<1> QED BY <1>1, FixtureInvSound, PTL

-----------------------------------------------------------------------------
(* AuthorizationPolicy.  What left the drafts keeps its rules and its      *)
(* context, unless a rule came late.                                       *)

\* t is s with e at its end.
Extended(s, e, t) ==
    /\ Sequence(t) /\ Len(s) \in Nat /\ Len(t) = Len(s) + 1
    /\ DOMAIN s = 1..Len(s) /\ DOMAIN t = DOMAIN s \cup {Len(s) + 1}
    /\ Len(s) + 1 \notin DOMAIN s
    /\ t[Len(s) + 1] = e /\ \A n \in DOMAIN s : t[n] = s[n]

LEMMA Appended ==
  ASSUME NEW s, Sequence(s), NEW e, NEW t, t = Append(s, e)
  PROVE  Extended(s, e, t)
<1>1. PICK S : s \in Seq(S)
  BY DEF Sequence
<1>2. s \in Seq(S \cup {e})
  BY <1>1
<1>3. t \in Seq(S \cup {e})
  BY <1>2
<1>4. Sequence(t)
  BY <1>3 DEF Sequence
<1> QED BY <1>2, <1>4 DEF Extended

LEMMA Updated ==
  ASSUME NEW s, Sequence(s), NEW n, NEW e, NEW t, t = [s EXCEPT ![n] = e]
  PROVE  Sequence(t) /\ Len(t) = Len(s) /\ DOMAIN t = DOMAIN s /\ \A m \in DOMAIN s : t[m] = IF m = n THEN e ELSE s[m]
<1>1. PICK S : s \in Seq(S)
  BY DEF Sequence
<1>2. s \in Seq(S \cup {e})
  BY <1>1
<1>3. t \in Seq(S \cup {e})
  <2>1. Len(s) \in Nat /\ s \in [1..Len(s) -> S \cup {e}]
    BY <1>2
  <2>2. t \in [1..Len(s) -> S \cup {e}]
    BY <2>1
  <2> QED BY <2>1, <2>2
<1>4. Sequence(t)
  BY <1>3 DEF Sequence
<1> QED BY <1>2, <1>4

LEMMA SequenceIs ==
  ASSUME NEW s, Sequence(s) PROVE Len(s) \in Nat /\ DOMAIN s = 1..Len(s)
  BY DEF Sequence

\* What a call of an operator holds: the version it works on and the context it read.
PolicyCallOK(call) ==
    /\ call.op \in {"idle", "insert", "add", "save", "archive", "publish", "expand"}
    /\ call.op \in {"insert", "add", "save"} => DOMAIN call = {"op", "version", "todo"}
    /\ call.op \in {"archive", "publish", "expand"} => DOMAIN call = {"op", "version", "context"}
    /\ call.op \in {"add", "save", "archive", "publish", "expand"} => call.version \in DOMAIN versions
    /\ call.op = "expand" =>
          versions[call.version].lifecycle # "draft" /\ call.context = versions[call.version].context

\* The versions, and the rules each has and was activated with.
VersionsOK ==
    /\ Sequence(versions) /\ Sequence(policyRules) /\ Sequence(published) /\ Sequence(matrixRuns)
    /\ Len(policyRules) = Len(versions) /\ Len(published) = Len(versions)
    /\ \A v \in DOMAIN versions : DOMAIN versions[v] = {"lifecycle", "context"}

\* At most one is active.
ActiveOK ==
    \A v, w \in DOMAIN versions :
       versions[v].lifecycle = "active" /\ versions[w].lifecycle = "active" => v = w

\* The rules of a version that left the drafts are those it was activated with.
RulesOK ==
    \A v \in DOMAIN versions :
       versions[v].lifecycle # "draft" /\ v \notin lateRules => policyRules[v] = published[v]

\* A run is of a version that left the drafts.
RunsOK ==
    \A n \in DOMAIN matrixRuns :
       LET run == matrixRuns[n] IN
       /\ run.version \in DOMAIN versions /\ versions[run.version].lifecycle # "draft"
       /\ run.context = versions[run.version].context
       /\ run.version \notin lateRules => run.rules = published[run.version]

\* A case is judged by what the rules of its run may say.
CasesOK ==
    \A m \in matrixCases :
       /\ m.run \in DOMAIN matrixRuns /\ m.cell.expected \in {"allow", "deny", "review"}
       /\ m.cell.expected \in Expectations(matrixRuns[m.run].rules, m.cell.owner, m.cell.subject)
       /\ m.source \in SourceAnswers /\ m.answer \in SubjectAnswers
       /\ m.verdict = MatrixVerdict(m.cell.expected, m.source, m.answer)

PolicyInv ==
    /\ VersionsOK /\ ActiveOK /\ RulesOK /\ RunsOK /\ CasesOK
    /\ DOMAIN policyCall = PolicyCalls /\ \A c \in PolicyCalls : PolicyCallOK(policyCall[c])

\* t is s with e at n.
UpdatedTo(s, n, e, t) ==
    /\ Sequence(t) /\ Len(t) = Len(s) /\ DOMAIN t = DOMAIN s
    /\ \A m \in DOMAIN s : t[m] = IF m = n THEN e ELSE s[m]

LEMMA UpdatedIs ==
  ASSUME NEW s, Sequence(s), NEW n, NEW e, NEW t, t = [s EXCEPT ![n] = e]
  PROVE  UpdatedTo(s, n, e, t)
  BY Updated DEF UpdatedTo

-----------------------------------------------------------------------------
LEMMA InitPolicy == PolicyInit => PolicyInv
<1> SUFFICES ASSUME PolicyInit PROVE PolicyInv
  OBVIOUS
<1>1. /\ versions = << >> /\ policyRules = << >> /\ published = << >> /\ matrixRuns = << >> /\ matrixCases = {}
  BY DEF PolicyInit
<1>2. Sequence(<< >>)
  <2>1. << >> \in Seq({})
    OBVIOUS
  <2> QED BY <2>1 DEF Sequence
<1>3. DOMAIN versions = {} /\ DOMAIN matrixRuns = {}
  BY <1>1
<1>4. VersionsOK
  BY <1>1, <1>2, <1>3 DEF VersionsOK
<1>5. ActiveOK /\ RulesOK /\ RunsOK /\ CasesOK
  BY <1>1, <1>3 DEF ActiveOK, RulesOK, RunsOK, CasesOK
<1>6. PICK l : l = PolicyIdle
  OBVIOUS
<1>7. PolicyCallOK(l)
  BY <1>6 DEF PolicyIdle, PolicyCallOK
<1>8. DOMAIN policyCall = PolicyCalls /\ \A c \in PolicyCalls : policyCall[c] = l
  BY <1>6 DEF PolicyInit
<1> QED BY <1>4, <1>5, <1>7, <1>8 DEF PolicyInv

\* Versions are only added, and one that is no draft keeps what it was activated with.
Settled ==
    /\ DOMAIN versions \subseteq DOMAIN versions' /\ lateRules \subseteq lateRules'
    /\ \A v \in DOMAIN versions : versions[v].lifecycle # "draft" =>
          /\ versions'[v].lifecycle # "draft" /\ versions'[v].context = versions[v].context
          /\ published'[v] = published[v]

LEMMA PolicyStep ==
  ASSUME PolicyInv, Settled, VersionsOK', ActiveOK', RulesOK', UNCHANGED <<matrixRuns, matrixCases>>,
         NEW c \in PolicyCalls, NEW n, policyCall' = [policyCall EXCEPT ![c] = n], PolicyCallOK(n)'
  PROVE  PolicyInv'
<1>1. DOMAIN policyCall' = PolicyCalls /\ \A d \in PolicyCalls : policyCall'[d] = IF d = c THEN n ELSE policyCall[d]
  BY DEF PolicyInv
<1>2. RunsOK'
  BY DEF PolicyInv, RunsOK, Settled
<1>3. CasesOK'
  BY DEF PolicyInv, CasesOK
<1>4. \A d \in PolicyCalls : PolicyCallOK(policyCall[d])'
  <2>1. ASSUME NEW d, PolicyCallOK(d) PROVE PolicyCallOK(d)'
    BY <2>1 DEF PolicyCallOK, Settled
  <2> QED BY <1>1, <2>1 DEF PolicyInv
<1> QED BY <1>1, <1>2, <1>3, <1>4 DEF PolicyInv

\* A call goes on to n and writes nothing.
LEMMA PolicyCallStep ==
  ASSUME PolicyInv, UNCHANGED <<versions, policyRules, published, lateRules, matrixRuns, matrixCases>>,
         NEW c \in PolicyCalls, NEW n, policyCall' = [policyCall EXCEPT ![c] = n], PolicyCallOK(n)
  PROVE  PolicyInv'
<1>1. Settled
  BY DEF Settled
<1>2. VersionsOK' /\ ActiveOK' /\ RulesOK'
  BY DEF PolicyInv, VersionsOK, ActiveOK, RulesOK
<1>3. PolicyCallOK(n)'
  BY DEF PolicyCallOK
<1> QED BY <1>1, <1>2, <1>3, PolicyStep

LEMMA IdleCall == PolicyCallOK(PolicyIdle) /\ PolicyCallOK(PolicyIdle)'
<1>1. PICK l : l = PolicyIdle
  OBVIOUS
<1>2. PolicyCallOK(l) /\ PolicyCallOK(l)'
  BY <1>1 DEF PolicyIdle, PolicyCallOK
<1> QED BY <1>1, <1>2

LEMMA CreateKeeps ==
  ASSUME PolicyInv, NEW c \in PolicyCalls, NEW todo, CreateVersion(c, todo) PROVE PolicyInv'
<1>1. PICK k : k = Len(versions) + 1
  OBVIOUS
<1>2. PICK n : n = [op |-> "insert", version |-> k, todo |-> todo]
  OBVIOUS
<1>3. PolicyCallOK(n)
  BY <1>2 DEF PolicyCallOK
<1>4. policyCall' = [policyCall EXCEPT ![c] = n]
  BY <1>1, <1>2 DEF CreateVersion, PolicyBegin, PolicyGo
<1> QED BY <1>3, <1>4, PolicyCallStep DEF CreateVersion

LEMMA AddKeeps ==
  ASSUME PolicyInv, NEW c \in PolicyCalls, NEW v \in DOMAIN versions, NEW r, AddRule(c, v, r) PROVE PolicyInv'
<1>1. PICK n : n = [op |-> "add", version |-> v, todo |-> {r}]
  OBVIOUS
<1>2. PolicyCallOK(n)
  BY <1>1 DEF PolicyCallOK
<1>3. policyCall' = [policyCall EXCEPT ![c] = n]
  BY <1>1 DEF AddRule, PolicyBegin, PolicyGo
<1> QED BY <1>2, <1>3, PolicyCallStep DEF AddRule

LEMMA ActivateBegins ==
  ASSUME PolicyInv, NEW c \in PolicyCalls, NEW v \in DOMAIN versions, Activate(c, v) PROVE PolicyInv'
<1>1. PICK n : n = [op |-> "archive", version |-> v, context |-> policyNow]
  OBVIOUS
<1>2. PolicyCallOK(n)
  BY <1>1 DEF PolicyCallOK
<1>3. policyCall' = [policyCall EXCEPT ![c] = n]
  BY <1>1 DEF Activate, PolicyBegin, PolicyGo
<1> QED BY <1>2, <1>3, PolicyCallStep DEF Activate

LEMMA ScheduleKeeps ==
  ASSUME PolicyInv, NEW c \in PolicyCalls, NEW v \in DOMAIN versions, ScheduleMatrix(c, v) PROVE PolicyInv'
<1>1. PICK n : n = [op |-> "expand", version |-> v, context |-> policyNow]
  OBVIOUS
<1>2. PolicyCallOK(n)
  BY <1>1 DEF PolicyCallOK, ScheduleMatrix
<1>3. policyCall' = [policyCall EXCEPT ![c] = n]
  BY <1>1 DEF ScheduleMatrix, PolicyBegin, PolicyGo
<1> QED BY <1>2, <1>3, PolicyCallStep DEF ScheduleMatrix

LEMMA ReadForAddKeeps ==
  ASSUME PolicyInv, NEW c \in PolicyCalls, ReadForAdd(c) PROVE PolicyInv'
<1>1. PICK old : old = policyCall[c]
  OBVIOUS
<1>2. PICK n : n = [old EXCEPT !.op = "save"]
  OBVIOUS
<1>3. PolicyCallOK(old) /\ old.op = "add"
  BY <1>1 DEF PolicyInv, ReadForAdd
<1>4. DOMAIN n = {"op", "version", "todo"} /\ n.op = "save" /\ n.version = old.version
  BY <1>2, <1>3 DEF PolicyCallOK
<1>5. PolicyCallOK(n)
  BY <1>3, <1>4 DEF PolicyCallOK
<1>6. policyCall' = [policyCall EXCEPT ![c] = n] \/ policyCall' = [policyCall EXCEPT ![c] = PolicyIdle]
  BY <1>1, <1>2 DEF ReadForAdd, PolicyGo
<1> QED BY <1>5, <1>6, IdleCall, PolicyCallStep DEF ReadForAdd

LEMMA InsertVersionKeeps ==
  ASSUME PolicyInv, NEW c \in PolicyCalls, InsertVersion(c) PROVE PolicyInv'
<1>1. PICK old : old = policyCall[c]
  OBVIOUS
<1>2. PolicyCallOK(old) /\ old.op = "insert"
  BY <1>1 DEF PolicyInv, InsertVersion
<1>3. CASE UNCHANGED <<versions, policyRules, published>> /\ PolicyGo(c, PolicyIdle)
  BY <1>3, IdleCall, PolicyCallStep DEF InsertVersion, PolicyGo
<1>4. CASE old.version = Len(versions) + 1
           /\ versions' = Append(versions, [lifecycle |-> "draft", context |-> -1])
           /\ policyRules' = Append(policyRules, {}) /\ published' = Append(published, {})
           /\ PolicyGo(c, [old EXCEPT !.op = "add"])
  <2>1. PICK d : d = [lifecycle |-> "draft", context |-> -1]
    OBVIOUS
  <2>2. DOMAIN d = {"lifecycle", "context"} /\ d.lifecycle = "draft"
    BY <2>1
  <2>3. Extended(versions, d, versions') /\ Extended(policyRules, {}, policyRules') /\ Extended(published, {}, published')
    BY <1>4, <2>1, Appended DEF PolicyInv, VersionsOK
  <2>4. PICK k : k = Len(versions) + 1
    OBVIOUS
  <2>5. /\ DOMAIN versions' = DOMAIN versions \cup {k} /\ k \notin DOMAIN versions
        /\ versions'[k] = d /\ \A v \in DOMAIN versions : versions'[v] = versions[v]
    BY <2>3, <2>4 DEF Extended
  <2>6. \A v \in DOMAIN versions : policyRules'[v] = policyRules[v] /\ published'[v] = published[v]
    BY <2>3 DEF Extended, PolicyInv, VersionsOK
  <2>7. Settled
    BY <2>5, <2>6 DEF InsertVersion, Settled
  <2>8. VersionsOK'
    BY <2>2, <2>3, <2>5 DEF InsertVersion, Extended, PolicyInv, VersionsOK
  <2>9. ActiveOK'
    BY <2>2, <2>5 DEF PolicyInv, ActiveOK
  <2>10. RulesOK'
    BY <2>2, <2>5, <2>6 DEF InsertVersion, PolicyInv, RulesOK
  <2>11. PICK n : n = [old EXCEPT !.op = "add"]
    OBVIOUS
  <2>12. DOMAIN n = {"op", "version", "todo"} /\ n.op = "add" /\ n.version = k
    BY <1>2, <1>4, <2>4, <2>11 DEF PolicyCallOK
  <2>13. PolicyCallOK(n)'
    BY <2>5, <2>12 DEF PolicyCallOK
  <2>14. policyCall' = [policyCall EXCEPT ![c] = n]
    BY <1>4, <2>11 DEF PolicyGo
  <2> QED BY <2>7, <2>8, <2>9, <2>10, <2>13, <2>14, PolicyStep DEF InsertVersion
<1> QED BY <1>1, <1>3, <1>4 DEF InsertVersion

LEMMA SaveRuleKeeps ==
  ASSUME PolicyInv, NEW c \in PolicyCalls, SaveRule(c) PROVE PolicyInv'
<1>1. PICK old : old = policyCall[c]
  OBVIOUS
<1>2. PolicyCallOK(old) /\ old.op \in {"save", "force"}
  BY <1>1 DEF PolicyInv, SaveRule
<1>3. old.op = "save" /\ DOMAIN old = {"op", "version", "todo"} /\ old.version \in DOMAIN versions
  BY <1>2 DEF PolicyCallOK
<1>4. PICK rules, n, r : /\ policyRules' = [policyRules EXCEPT ![old.version] = rules]
                         /\ n = [old EXCEPT !.op = "add", !.todo = old.todo \ {r}]
                         /\ policyCall' = [policyCall EXCEPT ![c] = n]
  <2>1. PICK r \in old.todo : /\ policyRules' = [policyRules EXCEPT ![old.version] = @ \cup {r}]
                              /\ PolicyGo(c, [old EXCEPT !.op = "add", !.todo = @ \ {r}])
    BY <1>1 DEF SaveRule
  <2>2. PICK rules, n : rules = policyRules[old.version] \cup {r} /\ n = [old EXCEPT !.op = "add", !.todo = old.todo \ {r}]
    OBVIOUS
  <2> QED BY <2>1, <2>2 DEF PolicyGo
<1>5. /\ Sequence(policyRules') /\ Len(policyRules') = Len(policyRules)
      /\ \A v \in DOMAIN policyRules : policyRules'[v] = IF v = old.version THEN rules ELSE policyRules[v]
  <2>1. Sequence(policyRules) /\ policyRules' = [policyRules EXCEPT ![old.version] = rules]
    BY <1>4 DEF PolicyInv, VersionsOK
  <2>2. UpdatedTo(policyRules, old.version, rules, policyRules')
    BY <2>1, UpdatedIs
  <2> QED BY <2>2 DEF UpdatedTo
<1>6. DOMAIN policyRules = DOMAIN versions
  BY SequenceIs DEF PolicyInv, VersionsOK
<1>7. UNCHANGED <<versions, published, matrixRuns, matrixCases>>
  BY DEF SaveRule
<1>8. lateRules \subseteq lateRules' /\ (versions[old.version].lifecycle # "draft" => old.version \in lateRules')
  BY <1>1, <1>3 DEF SaveRule
<1>9. Settled
  BY <1>7, <1>8 DEF Settled
<1>10. VersionsOK' /\ ActiveOK'
  BY <1>5, <1>7 DEF PolicyInv, VersionsOK, ActiveOK
<1>11. RulesOK'
  BY <1>5, <1>6, <1>7, <1>8 DEF PolicyInv, RulesOK
<1>12. DOMAIN n = {"op", "version", "todo"} /\ n.op = "add" /\ n.version = old.version
  BY <1>3, <1>4
<1>13. PolicyCallOK(n)'
  BY <1>3, <1>7, <1>12 DEF PolicyCallOK
<1> QED BY <1>4, <1>7, <1>9, <1>10, <1>11, <1>13, PolicyStep

LEMMA ArchiveOthersKeeps ==
  ASSUME PolicyInv, NEW c \in PolicyCalls, ArchiveOthers(c) PROVE PolicyInv'
<1>1. PICK old : old = policyCall[c]
  OBVIOUS
<1>2. PolicyCallOK(old) /\ old.op = "archive"
  BY <1>1 DEF PolicyInv, ArchiveOthers
<1>3. UNCHANGED <<policyRules, published, lateRules, matrixRuns, matrixCases>>
  BY DEF ArchiveOthers
<1>4. DOMAIN versions' = DOMAIN versions
  BY DEF ArchiveOthers
<1>5. \A v \in DOMAIN versions :
         \/ versions'[v] = versions[v]
         \/ versions[v].lifecycle = "active" /\ versions'[v] = [versions[v] EXCEPT !.lifecycle = "archived"]
  BY DEF ArchiveOthers, ActiveVersions
<1>6. \A v \in DOMAIN versions :
         /\ DOMAIN versions'[v] = {"lifecycle", "context"} /\ versions'[v].context = versions[v].context
         /\ versions'[v].lifecycle = "draft" <=> versions[v].lifecycle = "draft"
         /\ versions'[v].lifecycle = "active" => versions[v].lifecycle = "active"
  <2>1. ASSUME NEW r, NEW s, DOMAIN r = {"lifecycle", "context"}, r.lifecycle = "active",
               s = [r EXCEPT !.lifecycle = "archived"]
        PROVE  DOMAIN s = {"lifecycle", "context"} /\ s.context = r.context /\ s.lifecycle = "archived"
    BY <2>1
  <2> QED BY <1>5, <2>1 DEF PolicyInv, VersionsOK
<1>7. Sequence(versions') /\ Len(versions') = Len(versions)
  <2>1. PICK N \in Nat : DOMAIN versions = 1..N /\ Len(versions) = N
    BY SequenceIs DEF PolicyInv, VersionsOK
  <2>2. PICK f : f = versions'
    OBVIOUS
  <2>3. f = [v \in 1..N |-> f[v]]
    BY <2>1, <2>2 DEF ArchiveOthers
  <2>4. PICK S : S = {f[v] : v \in 1..N}
    OBVIOUS
  <2>5. f \in [1..N -> S]
    BY <2>3, <2>4
  <2>6. f \in Seq(S) /\ Len(f) = N
    BY <2>5
  <2> QED BY <2>1, <2>2, <2>6 DEF Sequence
<1>8. Settled
  BY <1>3, <1>4, <1>6 DEF Settled
<1>9. VersionsOK' /\ ActiveOK'
  BY <1>3, <1>4, <1>6, <1>7 DEF PolicyInv, VersionsOK, ActiveOK
<1>10. RulesOK'
  BY <1>3, <1>4, <1>6 DEF PolicyInv, RulesOK
<1>11. PICK n : n = [old EXCEPT !.op = "publish"]
  OBVIOUS
<1>12. DOMAIN n = {"op", "version", "context"} /\ n.op = "publish" /\ n.version = old.version
  BY <1>2, <1>11 DEF PolicyCallOK
<1>13. PolicyCallOK(n)'
  BY <1>2, <1>4, <1>12 DEF PolicyCallOK
<1>14. policyCall' = [policyCall EXCEPT ![c] = n]
  BY <1>1, <1>11 DEF ArchiveOthers, PolicyGo
<1> QED BY <1>3, <1>8, <1>9, <1>10, <1>13, <1>14, PolicyStep

LEMMA PublishKeeps ==
  ASSUME PolicyInv, NEW c \in PolicyCalls, Publish(c) PROVE PolicyInv'
<1>1. PICK old, k : old = policyCall[c] /\ k = old.version
  OBVIOUS
<1>2. old.op = "publish" /\ k \in DOMAIN versions
  BY <1>1 DEF PolicyInv, Publish, PolicyCallOK
<1>3. policyCall' = [policyCall EXCEPT ![c] = PolicyIdle] /\ UNCHANGED <<policyRules, matrixRuns, matrixCases, lateRules>>
  BY DEF Publish, PolicyGo
<1>4. CASE UNCHANGED <<versions, published>>
  BY <1>3, <1>4, IdleCall, PolicyCallStep
<1>5. CASE versions[k].lifecycle = "draft" /\ ActiveVersions = {}
           /\ versions' = [versions EXCEPT ![k] = [lifecycle |-> "active", context |-> old.context]]
           /\ published' = [published EXCEPT ![k] = policyRules[k]]
  <2>1. PICK e, rules : e = [lifecycle |-> "active", context |-> old.context] /\ rules = policyRules[k]
    OBVIOUS
  <2>2. DOMAIN e = {"lifecycle", "context"} /\ e.lifecycle = "active"
    BY <2>1
  <2>3. Sequence(versions) /\ Sequence(published) /\ Len(published) = Len(versions)
    BY DEF PolicyInv, VersionsOK
  <2>4. DOMAIN published = DOMAIN versions
    BY <2>3, SequenceIs
  <2>5. versions' = [versions EXCEPT ![k] = e] /\ published' = [published EXCEPT ![k] = rules]
    BY <1>5, <2>1
  <2>6. /\ Sequence(versions') /\ Len(versions') = Len(versions) /\ DOMAIN versions' = DOMAIN versions
        /\ \A v \in DOMAIN versions : versions'[v] = IF v = k THEN e ELSE versions[v]
    <3>1. UpdatedTo(versions, k, e, versions')
      BY <2>3, <2>5, UpdatedIs
    <3> QED BY <3>1 DEF UpdatedTo
  <2>7. /\ Sequence(published') /\ Len(published') = Len(published)
        /\ \A v \in DOMAIN versions : published'[v] = IF v = k THEN rules ELSE published[v]
    <3>1. UpdatedTo(published, k, rules, published')
      BY <2>3, <2>5, UpdatedIs
    <3> QED BY <2>4, <3>1 DEF UpdatedTo
  <2>8. Settled
    BY <1>3, <1>5, <2>6, <2>7 DEF Settled
  <2>9. VersionsOK'
    BY <1>3, <2>2, <2>6, <2>7 DEF PolicyInv, VersionsOK
  <2>10. \A v \in DOMAIN versions : versions[v].lifecycle # "active"
    BY <1>5 DEF ActiveVersions
  <2>11. ActiveOK'
    BY <2>6, <2>10 DEF ActiveOK
  <2>12. RulesOK'
    BY <1>3, <2>1, <2>6, <2>7 DEF PolicyInv, RulesOK
  <2> QED BY <1>3, <2>8, <2>9, <2>11, <2>12, IdleCall, PolicyStep
<1> QED BY <1>1, <1>4, <1>5 DEF Publish

\* A run takes the rules of a version that left the drafts.
LEMMA EnqueueMatrixKeeps ==
  ASSUME PolicyInv, NEW c \in PolicyCalls, EnqueueMatrix(c) PROVE PolicyInv'
<1>1. PICK old : old = policyCall[c]
  OBVIOUS
<1>2. PolicyCallOK(old) /\ old.op = "expand"
  BY <1>1 DEF PolicyInv, EnqueueMatrix
<1>3. PICK r : r = [version |-> old.version, context |-> old.context, rules |-> policyRules[old.version]]
  OBVIOUS
<1>4. r.version = old.version /\ r.context = old.context /\ r.rules = policyRules[old.version]
  BY <1>3
<1>5. /\ matrixRuns' = Append(matrixRuns, r) /\ policyCall' = [policyCall EXCEPT ![c] = PolicyIdle]
      /\ UNCHANGED <<versions, policyRules, matrixCases, published, lateRules>>
  BY <1>1, <1>3 DEF EnqueueMatrix, PolicyGo
<1>6. Extended(matrixRuns, r, matrixRuns')
  BY <1>5, Appended DEF PolicyInv, VersionsOK
<1>7. PICK k : k = Len(matrixRuns) + 1
  OBVIOUS
<1>8. /\ Sequence(matrixRuns') /\ DOMAIN matrixRuns' = DOMAIN matrixRuns \cup {k}
      /\ matrixRuns'[k] = r /\ \A n \in DOMAIN matrixRuns : matrixRuns'[n] = matrixRuns[n]
  BY <1>6, <1>7 DEF Extended
<1>9. VersionsOK' /\ ActiveOK' /\ RulesOK'
  BY <1>5, <1>8 DEF PolicyInv, VersionsOK, ActiveOK, RulesOK
<1>10. RunsOK'
  <2>1. /\ r.version \in DOMAIN versions /\ versions[r.version].lifecycle # "draft"
        /\ r.context = versions[r.version].context
    BY <1>2, <1>4 DEF PolicyCallOK
  <2>2. r.version \notin lateRules => r.rules = published[r.version]
    BY <1>4, <2>1 DEF PolicyInv, RulesOK
  <2> QED BY <1>5, <1>8, <2>1, <2>2 DEF PolicyInv, RunsOK
<1>11. CasesOK'
  BY <1>5, <1>8 DEF PolicyInv, CasesOK
<1>12. DOMAIN policyCall' = PolicyCalls
       /\ \A d \in PolicyCalls : policyCall'[d] = IF d = c THEN PolicyIdle ELSE policyCall[d]
  BY <1>5 DEF PolicyInv
<1>13. \A d \in PolicyCalls : PolicyCallOK(policyCall[d])'
  <2>1. ASSUME NEW d, PolicyCallOK(d) PROVE PolicyCallOK(d)'
    BY <1>5, <2>1 DEF PolicyCallOK
  <2> QED BY <1>12, <2>1, IdleCall DEF PolicyInv
<1> QED BY <1>9, <1>10, <1>11, <1>12, <1>13 DEF PolicyInv

LEMMA RunCellKeeps ==
  ASSUME PolicyInv, NEW n \in DOMAIN matrixRuns, NEW cell \in MatrixCells(matrixRuns[n].rules), RunCell(n, cell)
  PROVE  PolicyInv'
<1>1. PICK source \in SourceAnswers, answer \in SubjectAnswers :
         /\ matrixCases' = matrixCases \cup
               {[run |-> n, cell |-> cell, source |-> source, answer |-> answer,
                 verdict |-> MatrixVerdict(cell.expected, source, answer)]}
         /\ UNCHANGED <<versions, policyRules, policyNow, policyCall, policyUsed, matrixRuns, published, lateRules>>
  BY DEF RunCell
<1>2. PICK v : v = MatrixVerdict(cell.expected, source, answer)
  OBVIOUS
<1>3. PICK m : m = [run |-> n, cell |-> cell, source |-> source, answer |-> answer, verdict |-> v]
  OBVIOUS
<1>4. matrixCases' = matrixCases \cup {m}
  BY <1>1, <1>2, <1>3
<1>5. m.run = n /\ m.cell = cell /\ m.source = source /\ m.answer = answer /\ m.verdict = v
  BY <1>3
<1>6. cell.expected \in {"allow", "deny", "review"} /\ cell.expected \in Expectations(matrixRuns[n].rules, cell.owner, cell.subject)
  BY DEF MatrixCells
<1>7. CasesOK'
  BY <1>1, <1>2, <1>4, <1>5, <1>6 DEF PolicyInv, CasesOK
<1>8. VersionsOK' /\ ActiveOK' /\ RulesOK' /\ RunsOK'
  BY <1>1 DEF PolicyInv, VersionsOK, ActiveOK, RulesOK, RunsOK
<1>9. DOMAIN policyCall' = PolicyCalls /\ \A c \in PolicyCalls : PolicyCallOK(policyCall[c])'
  BY <1>1 DEF PolicyInv, PolicyCallOK
<1> QED BY <1>7, <1>8, <1>9 DEF PolicyInv

LEMMA PolicyUndisturbed ==
  ASSUME PolicyInv, UNCHANGED <<versions, policyRules, policyCall, matrixRuns, matrixCases, published, lateRules>>
  PROVE  PolicyInv'
  BY DEF PolicyInv, VersionsOK, ActiveOK, RulesOK, RunsOK, CasesOK, PolicyCallOK

LEMMA NextPolicy == PolicyInv /\ [PolicyNext]_policyVars => PolicyInv'
<1> SUFFICES ASSUME PolicyInv, [PolicyNext]_policyVars PROVE PolicyInv'
  OBVIOUS
<1>1. CASE \E n \in DOMAIN matrixRuns : \E cell \in MatrixCells(matrixRuns[n].rules) : RunCell(n, cell)
  BY <1>1, RunCellKeeps
<1>2. CASE PolicyContextChanges
  BY <1>2, PolicyUndisturbed DEF PolicyContextChanges
<1>3. CASE UNCHANGED policyVars
  BY <1>3, PolicyUndisturbed DEF policyVars
<1>4. CASE \E c \in PolicyCalls : InsertVersion(c) \/ ReadForAdd(c) \/ SaveRule(c) \/ ArchiveOthers(c)
                                \/ Publish(c) \/ EnqueueMatrix(c)
  BY <1>4, InsertVersionKeeps, ReadForAddKeeps, SaveRuleKeeps, ArchiveOthersKeeps, PublishKeeps, EnqueueMatrixKeeps
<1>5. CASE \E c \in PolicyCalls : CreateVersion(c, {})
  BY <1>5, CreateKeeps
<1>6. CASE \E c \in PolicyCalls : \E v \in DOMAIN versions :
              \/ CreateVersion(c, policyRules[v]) \/ (\E r \in PolicyRules : AddRule(c, v, r))
              \/ Activate(c, v) \/ ScheduleMatrix(c, v)
  BY <1>6, CreateKeeps, AddKeeps, ActivateBegins, ScheduleKeeps
<1> QED BY <1>1, <1>2, <1>3, <1>4, <1>5, <1>6 DEF PolicyNext

\* The verdicts follow from the expectation, case by case.
LEMMA VerdictIs ==
  ASSUME NEW x \in {"allow", "deny", "review"}, NEW source \in SourceAnswers, NEW answer \in SubjectAnswers,
         NEW v, v = MatrixVerdict(x, source, answer)
  PROVE  /\ x = "deny" /\ source = "ok" /\ answer \in {"full", "partial"} => v = "potential_vuln"
         /\ v = "potential_vuln" => x = "deny" /\ source = "ok" /\ answer \in {"full", "partial"}
         /\ v = "no_vuln" => source = "ok" /\ ((answer = "blocked" /\ x = "deny") \/ (answer = "full" /\ x = "allow"))
<1>1. PICK seen : seen = ObservedDecision(source, answer)
  OBVIOUS
<1>2. CASE source # "ok"
  BY <1>2 DEF MatrixVerdict
<1>3. CASE source = "ok"
  <2>1. /\ answer = "blocked" => seen = "deny"
        /\ answer = "full" => seen = "allow"
        /\ answer = "partial" => seen = "allow_partial"
        /\ answer \notin {"blocked", "full", "partial"} => seen = "unknown"
    BY <1>1, <1>3 DEF ObservedDecision
  <2>2. CASE x = "deny"
    <3>1. v = IF seen \in {"allow", "allow_partial"} THEN "potential_vuln"
              ELSE IF seen = "deny" THEN "no_vuln" ELSE "need_review"
      BY <1>1, <1>3, <2>2 DEF MatrixVerdict
    <3> QED BY <1>3, <2>1, <2>2, <3>1
  <2>3. CASE x = "allow"
    <3>1. v = IF seen = "allow" THEN "no_vuln" ELSE "need_review"
      BY <1>1, <1>3, <2>3 DEF MatrixVerdict
    <3> QED BY <1>3, <2>1, <2>3, <3>1
  <2>4. CASE x = "review"
    <3>1. v = "need_review"
      BY <1>1, <1>3, <2>4 DEF MatrixVerdict
    <3> QED BY <2>4, <3>1
  <2> QED BY <2>2, <2>3, <2>4
<1> QED BY <1>2, <1>3

LEMMA PolicyInvSound == PolicyInv => PolicyGoverns
<1> SUFFICES ASSUME PolicyInv PROVE PolicyGoverns
  OBVIOUS
<1>1. OneActiveVersion
  <2>1. PICK S : S = ActiveVersions
    OBVIOUS
  <2>2. \A v, w \in S : v = w
    BY <2>1 DEF PolicyInv, ActiveOK, ActiveVersions
  <2>3. Cardinality(S) <= 1
    <3>1. CASE S = {}
      BY <3>1, FS_EmptySet
    <3>2. CASE S # {}
      <4>1. PICK v : S = {v}
        BY <2>2, <3>2
      <4>2. Cardinality({v}) = 1
        BY FS_Singleton
      <4> QED BY <4>1, <4>2
    <3> QED BY <3>1, <3>2
  <2> QED BY <2>1, <2>3 DEF OneActiveVersion
<1>2. MatrixUsesPublishedVersion
  BY DEF PolicyInv, RunsOK, MatrixUsesPublishedVersion
<1>3. VerdictFollowsRules
  <2>1. SUFFICES ASSUME NEW m \in matrixCases, NEW said,
                        said = Expectations(matrixRuns[m.run].rules, m.cell.owner, m.cell.subject)
                 PROVE  LET leaked == m.source = "ok" /\ m.answer \in {"full", "partial"} IN
                        /\ said = {"deny"} /\ leaked => m.verdict = "potential_vuln"
                        /\ m.verdict = "potential_vuln" => leaked /\ "deny" \in said
                        /\ m.verdict = "no_vuln" =>
                              /\ m.source = "ok"
                              /\ \/ m.answer = "blocked" /\ "deny" \in said
                                 \/ m.answer = "full" /\ "allow" \in said
    BY DEF VerdictFollowsRules
  <2>2. PICK x, s, a, v : x = m.cell.expected /\ s = m.source /\ a = m.answer /\ v = m.verdict
    OBVIOUS
  <2>3. x \in said /\ x \in {"allow", "deny", "review"} /\ s \in SourceAnswers /\ a \in SubjectAnswers
        /\ v = MatrixVerdict(x, s, a)
    BY <2>1, <2>2 DEF PolicyInv, CasesOK
  <2>4. /\ x = "deny" /\ s = "ok" /\ a \in {"full", "partial"} => v = "potential_vuln"
        /\ v = "potential_vuln" => x = "deny" /\ s = "ok" /\ a \in {"full", "partial"}
        /\ v = "no_vuln" => s = "ok" /\ ((a = "blocked" /\ x = "deny") \/ (a = "full" /\ x = "allow"))
    BY <2>3, VerdictIs
  <2> QED BY <2>2, <2>3, <2>4
<1> QED BY <1>1, <1>2, <1>3 DEF PolicyGoverns

\* For any versions, rules, operators and matrix runs (authorization_policy.py,
\* authorization_matrix.py): one version of a policy is active at most, a run uses the
\* rules and the context its version was activated with unless an add that read the
\* draft came late, and every cell is judged by what its run's rules say.
THEOREM PoliciesGovern == PolicySpec => []PolicyGoverns
<1>1. PolicySpec => []PolicyInv
  BY InitPolicy, NextPolicy, PTL DEF PolicySpec
<1> QED BY <1>1, PolicyInvSound, PTL

-----------------------------------------------------------------------------
(* ValidationReplay.  What is left of the budget covers what the plan      *)
(* still has to send.                                                      *)

\* No request of the source is left over for a case that goes on to the consumer.
CaseTypes ==
    /\ vcase.method \in {"none"} \cup ReadMethods \cup MutationMethods
    /\ sent \in Nat /\ writes \in Nat /\ lostReplies \in Nat
    /\ values \subseteq CaseFields
    /\ DOMAIN fieldStatus = CaseFields /\ DOMAIN effects = CaseFields
    /\ vpc \in {"none", "source", "source_failed", "extract", "consumer", "effect", "judge", "done"}

\* A plan has a request for the source, one for the consumer and, if it writes,
\* one to read back; each place of a replay keeps what the rest needs.
BudgetOK ==
    /\ vpc # "none" => vcase.budget \in Nat /\ Estimate(vcase.method) <= vcase.budget
    /\ vpc = "none" => sent = 0
    /\ vpc = "source" => sent < vcase.budget - 1
    /\ vpc \in {"source_failed", "extract"} => sent <= vcase.budget - 1
    /\ vpc = "consumer" => sent < vcase.budget
    /\ vpc \in {"effect", "judge", "done"} => sent <= vcase.budget

\* Until the last consumer request, a write happened only behind a lost answer.
WritesOK ==
    /\ vpc \in {"none", "source", "source_failed", "extract", "consumer"} =>
          (lostReplies = 0 => writes = 0)
    /\ MutationNotRepeated

\* An observed deletion: of a value the read-back can find, it happened.
DeletionOK(f) ==
    /\ vpc \in {"judge", "done"} /\ vcase.method = "DELETE" /\ NeedsReadBack
    /\ f \in Comparable => writes > 0 \/ f \in unshown

\* Nothing is established before the case is judged.
EffectsOK ==
    /\ vpc # "done" => \A f \in CaseFields : fieldStatus[f] \notin Established
    /\ vpc \in {"consumer", "effect", "judge"} => values # {} \/ CaseFields = {}
    /\ \A f \in CaseFields : effects[f] = "delete_observed" => DeletionOK(f)

CaseInv == CaseTypes /\ BudgetOK /\ WritesOK /\ EffectsOK /\ VerdictIsEarned

\* No failure of a request establishes anything.
Failures == {"source_request_rejected", "source_auth_rejected", "source_rate_limited", "source_failed",
             "consumer_request_rejected", "consumer_auth_rejected", "consumer_rate_limited",
             "consumer_failed", "host_scope_approval_required", "value_not_found"}

LEMMA FailuresNamed ==
    ASSUME NEW status \in {SourceStatus, ConsumerStatus}, NEW r, NEW n, NEW e, NEW m
    PROVE  FailureStatus(status, r, n, e, m) \in Failures
BY DEF FailureStatus, SourceStatus, ConsumerStatus, Failures

\* A reply behind which there may be a write is not tried on the next host,
\* unless the connection failed.
LEMMA WriteEndsTries ==
    ASSUME NEW r \in Replies, TRUE \in MayHaveWritten(r), r.err # "ConnectionError"
    PROVE  OkReply(r) \/ ~MutationRetryable(r)
<1>1. r.err # "" => r.code = 0
  <2>1. \/ \E code : r = Reply(code, FALSE, "")
        \/ r = Reply(400, TRUE, "")
        \/ r = Reply(0, FALSE, "ReadTimeout")
        \/ r = Reply(0, FALSE, "ConnectionError")
    <3>1. \/ r \in {Reply(code, FALSE, "") : code \in {200, 400, 401, 404, 409, 429, 500}}
          \/ r \in {Reply(400, TRUE, ""), Reply(0, FALSE, "ReadTimeout"), Reply(0, FALSE, "ConnectionError")}
      BY DEF Replies
    <3>2. ASSUME r \in {Reply(code, FALSE, "") : code \in {200, 400, 401, 404, 409, 429, 500}}
          PROVE  \E code : r = Reply(code, FALSE, "")
      BY ONLY <3>2
    <3>3. ASSUME r \in {Reply(400, TRUE, ""), Reply(0, FALSE, "ReadTimeout"), Reply(0, FALSE, "ConnectionError")}
          PROVE  r = Reply(400, TRUE, "") \/ r = Reply(0, FALSE, "ReadTimeout") \/ r = Reply(0, FALSE, "ConnectionError")
      BY ONLY <3>3
    <3> QED BY <3>1, <3>2, <3>3
  <2>2. \/ r.err = ""
        \/ r.code = 0
    <3>1. CASE \E code : r = Reply(code, FALSE, "")
      <4>1. PICK code : r = Reply(code, FALSE, "")
        BY <3>1
      <4>2. r.err = ""
        BY ONLY <4>1 DEF Reply
      <4> QED BY <4>2
    <3>2. CASE r = Reply(400, TRUE, "")
      <4>1. r.err = ""
        BY ONLY <3>2 DEF Reply
      <4> QED BY <4>1
    <3>3. CASE r = Reply(0, FALSE, "ReadTimeout")
      BY ONLY <3>3 DEF Reply
    <3>4. CASE r = Reply(0, FALSE, "ConnectionError")
      BY ONLY <3>4 DEF Reply
    <3> QED BY <2>1, <3>1, <3>2, <3>3, <3>4
  <2> QED BY <2>2
<1>2. OkReply(r) \/ r.code = 500 \/ r.err # ""
  BY DEF MayHaveWritten
<1>3. CASE OkReply(r)
  BY <1>3
<1>4. CASE r.code = 500
  BY <1>4 DEF MutationRetryable
<1>5. CASE r.err # ""
  <2>1. r.code = 0
    BY <1>1, <1>5
  <2>2. r.code \notin {401, 404}
    BY ONLY <2>1
  <2> QED BY <2>2 DEF MutationRetryable
<1> QED BY <1>2, <1>3, <1>4, <1>5

LEMMA InitCase == CaseInit => CaseInv
BY DEF CaseInit, CaseInv, CaseTypes, BudgetOK, WritesOK, EffectsOK, VerdictIsEarned, MutationNotRepeated,
       Unchecked, Established

LEMMA StepCase == CaseInv /\ [CaseNext]_caseVars => CaseInv'
<1> SUFFICES ASSUME CaseInv, [CaseNext]_caseVars PROVE CaseInv'
  OBVIOUS
<1> USE DEF CaseInv, CaseTypes
<1>1. ASSUME NEW method \in ReadMethods \cup MutationMethods, NEW requested \in 1..ApprovedLimit,
             NEW approved \in BOOLEAN, NEW s \in 1..MaxCaseHosts, NEW c \in 1..MaxCaseHosts,
             NEW manual \in SUBSET CaseFields, NEW lists, NEW allowed \in BOOLEAN,
             PlanCase(method, requested, approved, s, c, manual, lists, allowed)
      PROVE  CaseInv'
  <2>1. CaseTypes'
    BY <1>1 DEF PlanCase
  <2>2. BudgetOK' /\ vpc' # "none"
    BY <1>1, CaseAssumption DEF PlanCase, PlanBudget, BudgetOK, Estimate, ReadMethods, MutationMethods
  <2>3. WritesOK'
    BY <1>1 DEF PlanCase, WritesOK, MutationNotRepeated
  <2>4. EffectsOK' /\ VerdictIsEarned'
    BY <1>1 DEF PlanCase, EffectsOK, DeletionOK, VerdictIsEarned
  <2> QED BY <2>1, <2>2, <2>3, <2>4
<1>2. ASSUME NEW r \in Replies, SourceRequest(r) PROVE CaseInv'
  <2>1. CaseTypes'
    BY <1>2 DEF SourceRequest
  <2>2. BudgetOK'
    BY <1>2 DEF SourceRequest, BudgetOK, SourceShare, Estimate
  <2>3. WritesOK'
    BY <1>2 DEF SourceRequest, WritesOK, MutationNotRepeated
  <2>4. EffectsOK' /\ VerdictIsEarned'
    BY <1>2 DEF SourceRequest, EffectsOK, DeletionOK, VerdictIsEarned
  <2> QED BY <2>1, <2>2, <2>3, <2>4
<1>3. ASSUME SourceFailed PROVE CaseInv'
  <2> DEFINE status == FailureStatus(SourceStatus, lastReply, vcase.srcHosts - tried.source,
                                     sent >= SourceShare, FALSE)
  <2>0. status \in Failures
    BY FailuresNamed
  <2>a. /\ vpc = "source_failed" /\ fieldStatus' = FieldsWith(status, CaseFields \ values)
        /\ \/ values = {} /\ caseStatus' = status /\ vpc' = "done"
           \/ values # {} /\ caseStatus' = caseStatus /\ vpc' = "consumer"
        /\ UNCHANGED <<vcase, sent, tried, values, lastReply, effects, writes, lostReplies, unshown>>
    BY <1>3 DEF SourceFailed
  <2> HIDE DEF status
  <2>1. CaseTypes'
    BY <2>a DEF FieldsWith
  <2>2. BudgetOK'
    BY <2>a DEF BudgetOK, Estimate
  <2>3. WritesOK'
    BY <2>a DEF WritesOK, MutationNotRepeated
  <2>4. \A f \in CaseFields : fieldStatus'[f] \notin Established
    BY <2>a, <2>0 DEF FieldsWith, EffectsOK, Established, Failures
  <2>5. EffectsOK'
    BY <2>a, <2>4 DEF EffectsOK, DeletionOK
  <2>6. vpc' = "done" => CaseVerdict(caseStatus)' # "relation_verified"
    <3> SUFFICES ASSUME vpc' = "done", CaseVerdict(caseStatus)' = "relation_verified" PROVE FALSE
      OBVIOUS
    <3>1. caseStatus' = status
      BY <2>a
    <3>2. caseStatus' \notin {"verified", "mutation_verified"}
      BY <2>0, <3>1 DEF Failures
    <3>3. CaseVerdict(caseStatus)' = "relation_verified" => caseStatus' \in {"verified", "mutation_verified"}
      BY DEF CaseVerdict
    <3> QED BY <3>2, <3>3
  <2>7. VerdictIsEarned'
    BY <2>4, <2>6 DEF VerdictIsEarned, Established
  <2> QED BY <2>1, <2>2, <2>3, <2>5, <2>7
<1>4. ASSUME NEW found \in SUBSET CaseFields, Extract(found) PROVE CaseInv'
  <2>1. CaseTypes'
    BY <1>4 DEF Extract, FieldsWith
  <2>2. BudgetOK'
    BY <1>4 DEF Extract, BudgetOK, Estimate
  <2>3. WritesOK'
    BY <1>4 DEF Extract, WritesOK, MutationNotRepeated
  <2>4. \A f \in CaseFields : fieldStatus'[f] \notin Established
    BY <1>4 DEF Extract, FieldsWith, EffectsOK, Established
  <2>5. EffectsOK'
    BY <1>4, <2>4 DEF Extract, EffectsOK, DeletionOK
  <2>6. vpc' = "done" => CaseVerdict(caseStatus)' # "relation_verified"
    BY <1>4 DEF Extract, CaseVerdict
  <2>7. VerdictIsEarned'
    BY <2>4, <2>6 DEF VerdictIsEarned, Established
  <2> QED BY <2>1, <2>2, <2>3, <2>5, <2>7
<1>5. ASSUME NEW r \in Replies, NEW wrote \in MayHaveWritten(r), ConsumerRequest(r, wrote) PROVE CaseInv'
  <2>0. wrote \in BOOLEAN
    BY DEF MayHaveWritten
  <2>1. CaseTypes'
    BY <1>5 DEF ConsumerRequest
  <2>2. BudgetOK'
    BY <1>5 DEF ConsumerRequest, BudgetOK, Estimate
  <2>3. WritesOK'
    <3>1. CASE ~(wrote /\ Mutation)
      BY <1>5, <3>1 DEF ConsumerRequest, WritesOK, MutationNotRepeated
    <3>2. CASE wrote /\ Mutation /\ r.err = "ConnectionError"
      BY <1>5, <3>2 DEF ConsumerRequest, WritesOK, MutationNotRepeated
    <3>3. CASE wrote /\ Mutation /\ r.err # "ConnectionError"
      <4>3. OkReply(r) \/ ~MutationRetryable(r)
        BY <2>0, <3>3, WriteEndsTries
      <4>4. vpc' = "effect" /\ writes' = writes + 1 /\ lostReplies' = lostReplies
        BY <1>5, <3>3, <4>3 DEF ConsumerRequest
      <4> QED BY <1>5, <4>4 DEF ConsumerRequest, WritesOK, MutationNotRepeated
    <3> QED BY <2>0, <3>1, <3>2, <3>3
  <2>4. EffectsOK' /\ VerdictIsEarned'
    BY <1>5 DEF ConsumerRequest, EffectsOK, DeletionOK, VerdictIsEarned
  <2> QED BY <2>1, <2>2, <2>3, <2>4
<1>6. ASSUME NEW r \in Replies, NEW lacking \in SUBSET values, ReadAfter(r, lacking) PROVE CaseInv'
  <2>1. CaseTypes'
    BY <1>6 DEF ReadAfter, Observed
  <2>2. BudgetOK'
    BY <1>6 DEF ReadAfter, BudgetOK, Estimate
  <2>3. WritesOK'
    BY <1>6 DEF ReadAfter, WritesOK, MutationNotRepeated
  <2>4. ASSUME NEW f \in CaseFields, effects'[f] = "delete_observed" PROVE DeletionOK(f)'
    <3>1. vcase.method = "DELETE" /\ f \in lacking
      BY <1>6, <2>4 DEF ReadAfter, Observed
    <3>2. f \in Comparable /\ writes = 0 => f \in unshown
      BY <1>6, <3>1 DEF ReadAfter, MayLack
    <3>3. NeedsReadBack /\ vpc' = "judge" /\ UNCHANGED <<vcase, values, lastReply, writes, unshown>>
      BY <1>6 DEF ReadAfter
    <3> QED BY <3>1, <3>2, <3>3 DEF DeletionOK, NeedsReadBack, Comparable, Mutation, OkReply, MutationRetryable
  <2>5. EffectsOK' /\ VerdictIsEarned'
    BY <1>6, <2>4 DEF ReadAfter, EffectsOK, VerdictIsEarned
  <2> QED BY <2>1, <2>2, <2>3, <2>5
<1>7. ASSUME SkipReadAfter PROVE CaseInv'
  BY <1>7 DEF SkipReadAfter, BudgetOK, Estimate, WritesOK, MutationNotRepeated, EffectsOK, DeletionOK,
              NeedsReadBack, Comparable, Mutation, OkReply, MutationRetryable, VerdictIsEarned
<1>8. ASSUME JudgeFields PROVE CaseInv'
  <2> DEFINE results == [f \in CaseFields |-> IF f \in values THEN SentStatus(effects[f]) ELSE fieldStatus[f]]
  <2>a. /\ vpc = "judge" /\ fieldStatus' = results /\ caseStatus' = GroupStatus(results) /\ vpc' = "done"
        /\ UNCHANGED <<vcase, sent, tried, values, lastReply, effects, writes, lostReplies, unshown>>
    BY <1>8 DEF JudgeFields
  <2>b. ConsumerFailure \in Failures
    BY FailuresNamed DEF ConsumerFailure
  <2>c. /\ \A f \in CaseFields \ values : results[f] \notin Established
        /\ \A f \in values : results[f] = SentStatus(effects[f])
    BY <2>a DEF EffectsOK
  <2>d. ASSUME NEW f \in CaseFields, results[f] \in Established
        PROVE  /\ f \in values /\ (OkReply(lastReply) \/ effects[f] = "delete_observed")
               /\ results[f] \in {"mutation_verified", "mutation_effect_after_error"} =>
                    effects[f] = "delete_observed"
    <3>1. f \in values /\ results[f] = SentStatus(effects[f])
      BY <2>c, <2>d
    <3> HIDE DEF results
    <3> QED BY <2>b, <2>d, <3>1 DEF SentStatus, Established, Failures
  <2>e. ASSUME GroupStatus(results) \in {"verified", "mutation_verified"}
        PROVE  OkReply(lastReply) /\ \A f \in CaseFields : results[f] \in Established
    <3> DEFINE E == {f \in CaseFields : results[f] \in Established}
    <3>1. OkReply(lastReply) /\ (E = {} \/ E = CaseFields)
      <4> HIDE DEF results
      <4> QED BY <2>b, <2>e DEF GroupStatus, Failures
    <3>2. \A f \in values : SentStatus(effects[f]) \in Established
      BY <3>1 DEF SentStatus, Established
    <3>3. \A f \in values : results[f] \in Established
      BY <2>c, <3>2
    <3>4. values # {} \/ CaseFields = {}
      BY <2>a DEF EffectsOK
    <3>5. E = CaseFields
      <4> HIDE DEF results
      <4> QED BY <3>1, <3>3, <3>4
    <3> HIDE DEF results
    <3> QED BY <3>1, <3>5
  <2> HIDE DEF results
  <2>1. CaseTypes'
    <3>1. DOMAIN results = CaseFields
      BY DEF results
    <3> QED BY <2>a, <3>1
  <2>2. BudgetOK'
    BY <2>a DEF BudgetOK, Estimate
  <2>3. WritesOK'
    BY <2>a DEF WritesOK, MutationNotRepeated
  <2>4. EffectsOK'
    <3>1. \A f \in CaseFields : DeletionOK(f) => DeletionOK(f)'
      BY <2>a DEF DeletionOK, NeedsReadBack, Comparable, Mutation, OkReply, MutationRetryable
    <3> QED BY <2>a, <3>1 DEF EffectsOK
  <2>5. CaseVerdict(caseStatus)' = "relation_verified" => caseStatus' \in {"verified", "mutation_verified"}
    BY DEF CaseVerdict
  <2>6. /\ OkReply(lastReply)' <=> OkReply(lastReply)
        /\ MutationRetryable(lastReply)' <=> MutationRetryable(lastReply)
        /\ Comparable' = Comparable
    BY <2>a DEF OkReply, MutationRetryable, Comparable
  <2>f. ASSUME NEW f \in CaseFields, effects[f] = "delete_observed"
        PROVE  /\ vcase'.method = "DELETE" /\ (OkReply(lastReply)' \/ ~MutationRetryable(lastReply)')
               /\ effects'[f] = "delete_observed"
               /\ f \in Comparable' => writes' > 0 \/ f \in unshown'
    <3>1. DeletionOK(f)
      BY <2>f DEF EffectsOK
    <3> QED BY <2>a, <2>f, <2>6, <3>1 DEF DeletionOK, NeedsReadBack
  <2>7. ASSUME NEW f \in CaseFields
        PROVE  /\ fieldStatus'[f] \in Established => f \in values'
               /\ fieldStatus'[f] \in Established /\ ~OkReply(lastReply)' =>
                     vcase'.method = "DELETE" /\ ~MutationRetryable(lastReply)' /\ effects'[f] = "delete_observed"
               /\ fieldStatus'[f] \in {"mutation_verified", "mutation_effect_after_error"} /\ f \in Comparable' =>
                     writes' > 0 \/ f \in unshown'
    <3>1. fieldStatus'[f] = results[f] /\ values' = values
      BY <2>a
    <3>2. results[f] \in {"mutation_verified", "mutation_effect_after_error"} => results[f] \in Established
      BY DEF Established
    <3> QED BY <3>1, <3>2, <2>d, <2>f, <2>6
  <2>8. CaseVerdict(caseStatus)' = "relation_verified" =>
          OkReply(lastReply)' /\ \A f \in CaseFields : fieldStatus'[f] \in Established
    BY <2>a, <2>e, <2>5, <2>6
  <2>9. VerdictIsEarned'
    BY <2>7, <2>8 DEF VerdictIsEarned
  <2> QED BY <2>1, <2>2, <2>3, <2>4, <2>9
<1>9. ASSUME UNCHANGED caseVars PROVE CaseInv'
  <2>1. CaseTypes' /\ BudgetOK' /\ WritesOK'
    BY <1>9 DEF caseVars, BudgetOK, Estimate, WritesOK, MutationNotRepeated
  <2>2. \A f \in CaseFields : DeletionOK(f) => DeletionOK(f)'
    BY <1>9 DEF caseVars, DeletionOK, NeedsReadBack, Comparable, Mutation, OkReply, MutationRetryable
  <2>3. EffectsOK'
    BY <1>9, <2>2 DEF caseVars, EffectsOK
  <2>4. VerdictIsEarned'
    BY <1>9 DEF caseVars, VerdictIsEarned, CaseVerdict, Comparable, OkReply, MutationRetryable
  <2> QED BY <2>1, <2>3, <2>4
<1>10. ASSUME NEW f \in CaseFields, StopsShowing(f) PROVE CaseInv'
  <2>1. CaseTypes' /\ BudgetOK' /\ WritesOK'
    BY <1>10 DEF StopsShowing, BudgetOK, Estimate, WritesOK, MutationNotRepeated
  <2>2. EffectsOK' /\ VerdictIsEarned'
    BY <1>10 DEF StopsShowing, EffectsOK, DeletionOK, VerdictIsEarned
  <2> QED BY <2>1, <2>2
<1> QED
  BY <1>1, <1>2, <1>3, <1>4, <1>5, <1>6, <1>7, <1>8, <1>9, <1>10 DEF CaseNext

\* For any plan, budget, hosts and replies (parameter_validation.py): a replayed
\* case sends no more than its budget, sends no second write behind one that may
\* have happened, and establishes a field only from an accepted request, or from a
\* read-back that lacks the value of a DELETE that may have run.  A deletion it
\* reports of a value the read-back can find was carried out, unless the source
\* stopped to show the value for a reason of its own.
THEOREM ReplaysSound == CaseSpec => []ReplaySound
<1>1. CaseInv => ReplaySound
  BY DEF CaseInv, CaseTypes, BudgetOK, WritesOK, ReplaySound, RequestsWithinBudget
<1> QED
  BY <1>1, InitCase, StepCase, PTL DEF CaseSpec

-----------------------------------------------------------------------------
(* ObservationRouting.  What an import is about to store is what it would  *)
(* keep, unless somebody decided since it looked.                          *)

\* A list of decisions; manual ones are final.
DecisionRow(d) == d.manual \in BOOLEAN /\ (d.manual => Final(d))
Rows(s) == (\E S : s \in Seq(S)) /\ \A k \in DOMAIN s : DecisionRow(s[k])

\* A list stays one when a decision is added.
LEMMA RowAppended ==
  ASSUME NEW s, Rows(s), NEW d, DecisionRow(d), NEW t, t = Append(s, d)
  PROVE  /\ Rows(t) /\ Len(s) \in Nat /\ Len(t) = Len(s) + 1
         /\ t[Len(t)] = d /\ t # << >> /\ DOMAIN s = 1..Len(s) /\ DOMAIN t = 1..Len(t)
         /\ \A k \in DOMAIN s : t[k] = s[k]
<1>1. PICK S : s \in Seq(S)
  BY DEF Rows
<1>2. s \in Seq(S \cup {d})
  BY <1>1
<1>3. t \in Seq(S \cup {d})
  BY <1>2
<1>4. /\ Len(s) \in Nat /\ Len(t) = Len(s) + 1 /\ t # << >>
      /\ t[Len(t)] = d /\ DOMAIN s = 1..Len(s) /\ DOMAIN t = 1..Len(t)
      /\ \A k \in DOMAIN s : t[k] = s[k]
  BY <1>2, <1>3
<1>5. \A k \in DOMAIN t : DecisionRow(t[k])
  <2> SUFFICES ASSUME NEW k \in DOMAIN t PROVE DecisionRow(t[k])
    OBVIOUS
  <2>1. k \in DOMAIN s \/ k = Len(t)
    BY <1>4
  <2> QED BY <1>4, <2>1 DEF Rows
<1>6. Rows(t)
  BY <1>3, <1>5 DEF Rows
<1> QED BY <1>4, <1>6

\* An import about to store holds what it would keep now, unless somebody
\* decided since it looked.
ImportTypes ==
    /\ DOMAIN imports = Importers
    /\ \A i \in Importers : DOMAIN imports[i] = {"pc", "explicit", "routed", "kept", "isNew", "seen"}
    /\ DOMAIN decisions = Obs /\ \A o \in Obs : Rows(decisions[o])
    /\ \A i \in Importers : DecisionRow(imports[i].routed) /\ DecisionRow(imports[i].kept)
    /\ \A i \in Importers : ~imports[i].routed.manual
    /\ DOMAIN links = Projects

Held(i) ==
    LET o == ObservationOf(i) IN
    /\ imports[i].seen \in 0..Len(decisions[o])
    /\ Len(decisions[o]) = imports[i].seen =>
          imports[i].kept = KeptDecision(i, o) /\ imports[i].isNew = (decisions[o] = <<>>)

RoutingInv == ImportTypes /\ \A i \in Importers : imports[i].pc = "store" => Held(i)

\* What routing decides is a decision.
LEMMA RoutedRow ==
    ASSUME NEW explicit PROVE DecisionRow(RouteObservation(explicit)) /\ ~RouteObservation(explicit).manual
<1>1. \A d, p : DecisionRow(Automatic(d, p)) /\ ~Automatic(d, p).manual
  BY DEF DecisionRow, Automatic
<1>2. \E d, p : RouteObservation(explicit) = Automatic(d, p)
  BY DEF RouteObservation
<1> QED BY <1>1, <1>2


\* There is a first among the stored automatic decisions.
LEMMA FirstIs ==
    ASSUME NEW o \in Obs, Rows(decisions[o]), StoredAutomatic(o) # {}
    PROVE  \E k \in StoredAutomatic(o) : FirstStored(o) = decisions[o][k]
<1>1. StoredAutomatic(o) \in SUBSET Nat
  BY DEF StoredAutomatic, Rows
<1>2. \E k \in StoredAutomatic(o) : \A j \in StoredAutomatic(o) : k <= j
  BY <1>1, NonemptyHasMin
<1> QED BY <1>2 DEF FirstStored

\* So is what an import keeps.
LEMMA KeptRow ==
    ASSUME RoutingInv, NEW i \in Importers, NEW o \in Obs
    PROVE  DecisionRow(KeptDecision(i, o))
<1>0. Rows(decisions[o]) /\ DecisionRow(imports[i].routed)
  BY DEF RoutingInv, ImportTypes
<1>1. CASE Latest(o).manual /\ Final(Latest(o))
  <2>1. KeptDecision(i, o) = Latest(o)
    BY <1>1 DEF KeptDecision
  <2>2. DecisionRow(Latest(o))
    <3>1. CASE decisions[o] = << >>
      BY <3>1 DEF Latest, NoDecision, DecisionRow
    <3>2. CASE decisions[o] # << >>
      <4>1. Len(decisions[o]) \in DOMAIN decisions[o]
        BY <1>0, <3>2 DEF Rows
      <4> QED BY <1>0, <3>2, <4>1 DEF Latest, Rows
    <3> QED BY <3>1, <3>2
  <2> QED BY <2>1, <2>2
<1>2. CASE ~(Latest(o).manual /\ Final(Latest(o))) /\ StoredAutomatic(o) # {}
  <2>1. PICK k \in StoredAutomatic(o) : FirstStored(o) = decisions[o][k]
    BY <1>0, <1>2, FirstIs
  <2>2. DecisionRow(decisions[o][k])
    BY <1>0 DEF StoredAutomatic, Rows
  <2> QED BY <1>2, <2>1, <2>2 DEF KeptDecision
<1>3. CASE ~(Latest(o).manual /\ Final(Latest(o))) /\ StoredAutomatic(o) = {}
  BY <1>0, <1>3 DEF KeptDecision
<1> QED BY <1>1, <1>2, <1>3

\* Decisions are only added.
Added == \A o \in Obs : \/ decisions'[o] = decisions[o]
                        \/ \E d : DecisionRow(d) /\ decisions'[o] = Append(decisions[o], d)

\* An import that held the decision it would keep still does.
LEMMA HeldStays ==
    ASSUME RoutingInv, NEW i \in Importers, imports[i].pc = "store", imports'[i] = imports[i], Added
    PROVE  Held(i)'
<1>0. PICK o : o = ObservationOf(i)
  OBVIOUS
<1>1. ObservationOf(i)' = o /\ ObservationOf(i) = o /\ o \in Obs
  BY <1>0 DEF ObservationOf, Obs
<1>2. Held(i) /\ Rows(decisions[o])
  BY <1>1 DEF RoutingInv, ImportTypes
<1>3. CASE decisions'[o] = decisions[o]
  <2>1. Latest(o)' = Latest(o) /\ StoredAutomatic(o)' = StoredAutomatic(o)
    BY <1>3 DEF Latest, StoredAutomatic
  <2>2. FirstStored(o)' = FirstStored(o)
    <3>1. (CHOOSE k \in StoredAutomatic(o) : \A j \in StoredAutomatic(o) : k <= j)'
          = CHOOSE k \in StoredAutomatic(o) : \A j \in StoredAutomatic(o) : k <= j
      BY <2>1, Zenon
    <3> QED BY <1>3, <3>1 DEF FirstStored
  <2>3. KeptDecision(i, o)' = KeptDecision(i, o)
    BY <2>1, <2>2 DEF KeptDecision, Final
  <2> QED BY <1>1, <1>2, <1>3, <2>3 DEF Held
<1>4. CASE \E d : DecisionRow(d) /\ decisions'[o] = Append(decisions[o], d)
  <2>1. PICK d : DecisionRow(d) /\ decisions'[o] = Append(decisions[o], d)
    BY <1>4
  <2>2. Len(decisions'[o]) = Len(decisions[o]) + 1 /\ Len(decisions[o]) \in Nat
    BY <1>2, <2>1, RowAppended
  <2>3. imports'[i].seen \in 0..Len(decisions[o])
    BY <1>1, <1>2 DEF Held
  <2>4. imports'[i].seen \in 0..Len(decisions'[o]) /\ imports'[i].seen # Len(decisions'[o])
    BY <2>2, <2>3
  <2> QED BY <1>1, <2>4 DEF Held
<1> QED BY <1>1, <1>3, <1>4 DEF Added

LEMMA AddedRows ==
    ASSUME RoutingInv, DOMAIN decisions' = Obs, Added PROVE \A o \in Obs : Rows(decisions'[o])
<1> SUFFICES ASSUME NEW o \in Obs PROVE Rows(decisions'[o])
  OBVIOUS
<1>1. Rows(decisions[o])
  BY DEF RoutingInv, ImportTypes
<1>2. CASE decisions'[o] = decisions[o]
  BY <1>1, <1>2
<1>3. CASE \E d : DecisionRow(d) /\ decisions'[o] = Append(decisions[o], d)
  <2>1. PICK d : DecisionRow(d) /\ decisions'[o] = Append(decisions[o], d)
    BY <1>3
  <2>2. PICK s, t : s = decisions[o] /\ t = decisions'[o]
    OBVIOUS
  <2>3. Rows(s) /\ DecisionRow(d) /\ t = Append(s, d)
    BY <1>1, <2>1, <2>2
  <2>4. Rows(t)
    BY ONLY <2>3, RowAppended
  <2> QED BY <2>2, <2>4
<1> QED BY <1>2, <1>3 DEF Added

LEMMA InitRouting == RoutingInit => RoutingInv
<1> SUFFICES ASSUME RoutingInit PROVE RoutingInv
  OBVIOUS
<1>1. Rows(<< >>)
  <2>1. << >> \in Seq({})
    OBVIOUS
  <2> QED BY <2>1 DEF Rows
<1> QED BY <1>1 DEF RoutingInit, RoutingInv, ImportTypes, Idle, NoDecision, DecisionRow

\* What an operator does leaves the imports alone and adds a decision at most.
Corrected == imports' = imports /\ DOMAIN decisions' = Obs /\ Added /\ DOMAIN links' = Projects

LEMMA CorrectedInv == ASSUME RoutingInv, Corrected PROVE RoutingInv'
<1>1. ImportTypes'
  BY AddedRows DEF Corrected, RoutingInv, ImportTypes
<1>2. \A i \in Importers : imports'[i].pc = "store" => Held(i)'
  BY HeldStays DEF Corrected
<1> QED BY <1>1, <1>2 DEF RoutingInv

\* A step of one import that stores nothing.
Moved(i, r) ==
    /\ imports' = [imports EXCEPT ![i] = r] /\ decisions' = decisions /\ links' = links
    /\ DOMAIN r = {"pc", "explicit", "routed", "kept", "isNew", "seen"}
    /\ DecisionRow(r.routed) /\ DecisionRow(r.kept) /\ ~r.routed.manual

LEMMA MovedInv ==
    ASSUME RoutingInv, NEW i \in Importers, NEW r, Moved(i, r), r.pc = "store" => Held(i)'
    PROVE  RoutingInv'
<1>1. imports'[i] = r /\ \A j \in Importers \ {i} : imports'[j] = imports[j]
  BY DEF Moved, RoutingInv, ImportTypes
<1>2. ImportTypes'
  BY <1>1 DEF Moved, RoutingInv, ImportTypes
<1>3. Added
  BY DEF Moved, Added
<1>4. \A j \in Importers : imports'[j].pc = "store" => Held(j)'
  BY <1>1, <1>3, HeldStays
<1> QED BY <1>2, <1>4 DEF RoutingInv

\* What a step of RoutingNext does to the imports: it moves one, or an operator
\* corrects, or one import stores.
LEMMA AppendAdds ==
    ASSUME RoutingInv, NEW o \in Obs, NEW d, DecisionRow(d), decisions' = [decisions EXCEPT ![o] = Append(@, d)]
    PROVE  Added /\ DOMAIN decisions' = Obs
BY DEF RoutingInv, ImportTypes, Added

LEMMA AssignCorrects ==
    ASSUME RoutingInv, NEW o \in Obs, NEW p \in Projects, NEW teach, NEW override,
           AssignObservation(o, p, teach, override)
    PROVE  Corrected
<1>1. DecisionRow(ManualDecision("assigned", p))
  BY DEF DecisionRow, ManualDecision, Final
<1>2. decisions' = [decisions EXCEPT ![o] = Append(@, ManualDecision("assigned", p))] /\ imports' = imports
  BY DEF AssignObservation
<1>3. DOMAIN links' = Projects
  <2>1. Promote(o, p, Latest(o).project)
    BY DEF AssignObservation
  <2>2. DOMAIN links = Projects
    BY DEF RoutingInv, ImportTypes
  <2> QED BY <2>1, <2>2 DEF Promote, DetachedLinks
<1> QED BY <1>1, <1>2, <1>3, AppendAdds DEF Corrected

LEMMA IgnoreCorrects ==
    ASSUME RoutingInv, NEW o \in Obs, NEW override, IgnoreObservation(o, override)
    PROVE  Corrected
<1>1. DecisionRow(ManualDecision("ignored", NoProject))
  BY DEF DecisionRow, ManualDecision, Final
<1>2. decisions' = [decisions EXCEPT ![o] = Append(@, ManualDecision("ignored", NoProject))] /\ imports' = imports
  BY DEF IgnoreObservation
<1>3. DOMAIN links' = Projects
  BY DEF IgnoreObservation, DetachedLinks, RoutingInv, ImportTypes
<1> QED BY <1>1, <1>2, <1>3, AppendAdds DEF Corrected

LEMMA SameCorrects == ASSUME RoutingInv, UNCHANGED <<imports, decisions, links>> PROVE Corrected
BY DEF RoutingInv, ImportTypes, Corrected, Added

\* What a step stores: the decision it held, and a link of its project.
LEMMA StoreKeeps ==
    ASSUME RoutingInv, NEW i \in Importers, Store(i)
    PROVE  /\ RoutingInv'
           /\ \A p \in Projects, a \in AssetIds :
                LET o == ObservationOf(i) IN
                (/\ Len(decisions[o]) = imports[i].seen
                 /\ o \in links'[p][a] \ links[p][a]) =>
                   \/ Latest(o)'.project = p
                   \/ ~Latest(o)'.manual /\ \E j, k \in StoredAutomatic(o)' : j # k
<1>o. PICK o, kept : o = ObservationOf(i) /\ kept = imports[i].kept
  OBVIOUS
<1>0. o \in Obs /\ imports[i].pc = "store"
  BY <1>o DEF ObservationOf, Obs, Store
<1>1. Held(i) /\ Rows(decisions[o]) /\ DecisionRow(kept) /\ DOMAIN decisions = Obs
  BY <1>o, <1>0 DEF RoutingInv, ImportTypes
<1>2. \/ imports[i].isNew /\ decisions' = [decisions EXCEPT ![o] = Append(@, kept)]
      \/ ~imports[i].isNew /\ decisions' = decisions
  BY <1>o DEF Store
<1>3. Added /\ DOMAIN decisions' = Obs
  BY <1>0, <1>1, <1>2, AppendAdds DEF Added
<1>4. /\ imports' = [imports EXCEPT ![i].pc = "batch"]
      /\ \/ links' = links
         \/ links' = [links EXCEPT ![kept.project][<<imports[i].routed.project, "traffic">>] = @ \cup {o}]
  BY <1>o DEF Store
<1>5. RoutingInv'
  <2>1. /\ imports'[i] = [imports[i] EXCEPT !.pc = "batch"]
        /\ \A j \in Importers \ {i} : imports'[j] = imports[j]
    BY <1>4 DEF RoutingInv, ImportTypes
  <2>2. ImportTypes'
    BY <1>3, <1>4, <2>1, AddedRows DEF RoutingInv, ImportTypes
  <2>3. \A j \in Importers : imports'[j].pc = "store" => Held(j)'
    <3> SUFFICES ASSUME NEW j \in Importers, imports'[j].pc = "store" PROVE Held(j)'
      OBVIOUS
    <3>1. j # i
      BY <2>1 DEF RoutingInv, ImportTypes
    <3> QED BY <1>3, <2>1, <3>1, HeldStays
  <2> QED BY <2>2, <2>3 DEF RoutingInv
<1>6. ASSUME NEW p \in Projects, NEW a \in AssetIds,
             Len(decisions[o]) = imports[i].seen, o \in links'[p][a] \ links[p][a]
      PROVE  \/ Latest(o)'.project = p
             \/ ~Latest(o)'.manual /\ \E j, k \in StoredAutomatic(o)' : j # k
  <2>1. kept.project = p
    BY <1>4, <1>6 DEF RoutingInv, ImportTypes
  <2>2. kept = KeptDecision(i, o) /\ imports[i].isNew = (decisions[o] = << >>)
    BY <1>o, <1>1, <1>6 DEF Held
  <2>3. CASE decisions[o] = << >>
    <3>1. decisions'[o] = Append(decisions[o], kept)
      BY <1>0, <1>1, <1>2, <2>2, <2>3
    <3>2. decisions'[o] # << >> /\ decisions'[o][Len(decisions'[o])] = kept
      <4>1. PICK t : t = decisions'[o]
        OBVIOUS
      <4>2. t # << >> /\ t[Len(t)] = kept
        BY <1>1, <3>1, <4>1, RowAppended
      <4> QED BY <4>1, <4>2
    <3>3. Latest(o)' = kept
      BY <3>2 DEF Latest
    <3> QED BY <2>1, <3>3
  <2>4. CASE decisions[o] # << >>
    <3>1. decisions' = decisions
      BY <1>2, <2>2, <2>4
    <3>2. Latest(o)' = Latest(o) /\ StoredAutomatic(o)' = StoredAutomatic(o)
      BY <3>1 DEF Latest, StoredAutomatic
    <3>3. CASE Latest(o).manual /\ Final(Latest(o))
      BY <2>1, <2>2, <3>2, <3>3 DEF KeptDecision
    <3>4. CASE ~(Latest(o).manual /\ Final(Latest(o)))
      <4> DEFINE n == Len(decisions[o])
      <4>1. n \in DOMAIN decisions[o] /\ Latest(o) = decisions[o][n]
        BY <1>1, <2>4 DEF Rows, Latest
      <4>2. ~Latest(o).manual
        BY <1>1, <3>4, <4>1 DEF Rows, DecisionRow
      <4>3. n \in StoredAutomatic(o)
        BY <4>1, <4>2 DEF StoredAutomatic
      <4>4. PICK k \in StoredAutomatic(o) : FirstStored(o) = decisions[o][k]
        BY <1>0, <1>1, <4>3, FirstIs
      <4>5. kept = decisions[o][k]
        BY <2>2, <3>4, <4>3, <4>4 DEF KeptDecision
      <4>6. CASE k = n
        BY <2>1, <3>2, <4>1, <4>5, <4>6
      <4>7. CASE k # n
        BY <3>2, <4>2, <4>3, <4>4, <4>7
      <4> QED BY <4>6, <4>7
    <3> QED BY <3>3, <3>4
  <2> QED BY <2>3, <2>4
<1>7. ObservationOf(i)' = o
  BY <1>o, <1>4 DEF ObservationOf, RoutingInv, ImportTypes
<1> QED BY <1>o, <1>5, <1>6, <1>7 DEF Latest, StoredAutomatic

LEMMA StepRouting ==
    ASSUME RoutingInv, [RoutingNext]_routingVars
    PROVE  /\ RoutingInv'
           /\ \A i \in Importers : \/ Store(i)
                                   \/ imports'[i] = imports[i]
                                   \/ imports'[i].pc # "batch"
<1> DEFINE Other == \A i \in Importers : imports'[i] = imports[i] \/ imports'[i].pc # "batch"
<1>a. ASSUME Corrected PROVE RoutingInv' /\ Other
  BY <1>a, CorrectedInv DEF Corrected
<1>b. ASSUME NEW i \in Importers, NEW r, Moved(i, r), r.pc # "batch", r.pc = "store" => Held(i)'
      PROVE  RoutingInv' /\ Other
  BY <1>b, MovedInv DEF Moved, RoutingInv, ImportTypes
<1>c. \A i \in Importers :
        /\ DOMAIN imports[i] = {"pc", "explicit", "routed", "kept", "isNew", "seen"}
        /\ DecisionRow(imports[i].routed) /\ DecisionRow(imports[i].kept) /\ ~imports[i].routed.manual
  BY DEF RoutingInv, ImportTypes
<1>d. DecisionRow(NoDecision) /\ ~NoDecision.manual
  BY DEF DecisionRow, NoDecision
<1>1. ASSUME NEW i \in Importers, NEW p \in Owners, StartImport(i, p) PROVE RoutingInv' /\ Other
  <2>1. Moved(i, StartRun(p)) /\ StartRun(p).pc = "decide"
    BY <1>1, <1>d DEF StartImport, StartRun, Idle, Moved
  <2> QED BY <1>b, <2>1
<1>2. ASSUME NEW i \in Importers, Decide(i) PROVE RoutingInv' /\ Other
  <2> DEFINE routed == RouteObservation(imports[i].explicit)
             r == [imports[i] EXCEPT !.routed = routed, !.pc = IF routed.project = NoProject THEN "look" ELSE "record"]
  <2>1. DecisionRow(routed) /\ ~routed.manual
    BY RoutedRow
  <2>2. imports' = [imports EXCEPT ![i] = r] /\ decisions' = decisions /\ links' = links
    BY <1>2 DEF Decide
  <2> HIDE DEF routed
  <2>3. Moved(i, r) /\ r.pc \in {"look", "record"}
    BY <1>c, <2>1, <2>2 DEF Moved
  <2> HIDE DEF r
  <2> QED BY <1>b, <2>3
<1>3. ASSUME NEW i \in Importers, Record(i) PROVE RoutingInv' /\ Other
  <2> DEFINE r == [imports[i] EXCEPT !.pc = "look"]
  <2>1. imports' = [imports EXCEPT ![i] = r] /\ decisions' = decisions /\ links' = links
    BY <1>3 DEF Record
  <2>2. Moved(i, r) /\ r.pc = "look"
    BY <1>c, <2>1 DEF Moved
  <2> HIDE DEF r
  <2> QED BY <1>b, <2>2
<1>4. ASSUME NEW i \in Importers, LookUp(i) PROVE RoutingInv' /\ Other
  <2>o. PICK o : o = ObservationOf(i)
    OBVIOUS
  <2>k. PICK kept : kept = KeptDecision(i, o)
    OBVIOUS
  <2> DEFINE r == [imports[i] EXCEPT !.pc = "store", !.kept = kept,
                     !.isNew = (decisions[o] = << >>), !.seen = Len(decisions[o])]
  <2>0. o \in Obs
    BY <2>o DEF ObservationOf, Obs
  <2>1. imports' = [imports EXCEPT ![i] = r] /\ decisions' = decisions /\ links' = links
    BY <1>4, <2>o, <2>k DEF LookUp
  <2>2. DecisionRow(kept)
    BY <2>0, <2>k, KeptRow
  <2>3. Moved(i, r) /\ r.pc = "store" /\ r.kept = kept /\ r.seen = Len(decisions[o])
        /\ r.isNew = (decisions[o] = << >>) /\ r.routed = imports[i].routed
    BY <1>c, <2>1, <2>2 DEF Moved
  <2>4. imports'[i] = r
    BY <2>1 DEF RoutingInv, ImportTypes
  <2> HIDE DEF r
  <2>5. ObservationOf(i)' = o
    BY <2>o, <2>3, <2>4 DEF ObservationOf
  <2>6. KeptDecision(i, o)' = kept
    <3>1. Latest(o)' = Latest(o) /\ StoredAutomatic(o)' = StoredAutomatic(o)
      BY <2>1 DEF Latest, StoredAutomatic
    <3>2. (CHOOSE k \in StoredAutomatic(o) : \A j \in StoredAutomatic(o) : k <= j)'
          = CHOOSE k \in StoredAutomatic(o) : \A j \in StoredAutomatic(o) : k <= j
      BY <3>1, Zenon
    <3>3. FirstStored(o)' = FirstStored(o)
      BY <2>1, <3>2 DEF FirstStored
    <3> QED BY <2>k, <2>3, <2>4, <3>1, <3>3 DEF KeptDecision, Final
  <2>7. Len(decisions[o]) \in Nat
    BY <2>0 DEF RoutingInv, ImportTypes, Rows
  <2>8. Held(i)'
    BY <2>1, <2>3, <2>4, <2>5, <2>6, <2>7 DEF Held
  <2> QED BY <1>b, <2>3, <2>8
<1>5. ASSUME NEW i \in Importers, Store(i)
      PROVE  RoutingInv' /\ \A j \in Importers : j = i \/ imports'[j] = imports[j]
  BY <1>5, StoreKeeps DEF Store, RoutingInv, ImportTypes
<1>6. ASSUME NEW i \in Importers, FinishImport(i) \/ FailImport(i) PROVE RoutingInv' /\ Other
  <2>1. Moved(i, Idle) /\ Idle.pc = "idle"
    BY <1>6, <1>d DEF FinishImport, FailImport, Idle, Moved
  <2> QED BY <1>b, <2>1
<1>7. ASSUME NEW p \in Projects, ImportDocument(p) \/ BindSource(p) \/ DeactivateSourceBinding(p)
      PROVE  RoutingInv' /\ Other
  <2>1. Corrected
    BY <1>7, SameCorrects DEF ImportDocument, BindSource, DeactivateSourceBinding
  <2> QED BY <1>a, <2>1
<1>8. ASSUME NEW p \in Projects, NEW teach \in BOOLEAN, AssignRoutingGroup(p, teach) PROVE RoutingInv' /\ Other
  <2>1. PICK o \in Obs : AssignObservation(o, p, teach, FALSE)
    BY <1>8 DEF AssignRoutingGroup, OpenGroup
  <2>2. Corrected
    BY <2>1, AssignCorrects
  <2> QED BY <1>a, <2>2
<1>9. ASSUME NEW o \in Obs, NEW override \in BOOLEAN, IgnoreObservation(o, override) PROVE RoutingInv' /\ Other
  <2>1. Corrected
    BY <1>9, IgnoreCorrects
  <2> QED BY <1>a, <2>1
<1>10. ASSUME NEW o \in Obs, NEW override \in BOOLEAN, NEW p \in Projects, NEW teach \in BOOLEAN,
              AssignObservation(o, p, teach, override)
       PROVE  RoutingInv' /\ Other
  <2>1. Corrected
    BY <1>10, AssignCorrects
  <2> QED BY <1>a, <2>1
<1>11. ASSUME UNCHANGED routingVars PROVE RoutingInv' /\ Other
  <2>1. Corrected
    BY <1>11, SameCorrects DEF routingVars
  <2> QED BY <1>a, <2>1
<1> QED
  BY <1>1, <1>2, <1>3, <1>4, <1>5, <1>6, <1>7, <1>8, <1>9, <1>10, <1>11 DEF RoutingNext

\* For any imports, batches and operators interleaved between the lookup of an
\* observation and the write of its decision (observation_store.py): what an operator
\* decided is honoured by every later import, and without a decision the first
\* stored one is, but for imports that both found the observation new.
THEOREM CorrectionsHold == RoutingSpec => CorrectionHolds
<1> DEFINE Honoured ==
        \A i \in Importers, p \in Projects, a \in AssetIds :
          LET o == ObservationOf(i) IN
          (/\ imports[i].pc = "store" /\ imports'[i].pc = "batch"
           /\ Len(decisions[o]) = imports[i].seen
           /\ o \in links'[p][a] \ links[p][a]) =>
             \/ Latest(o)'.project = p
             \/ ~Latest(o)'.manual /\ \E j, k \in StoredAutomatic(o)' : j # k
<1>1. RoutingInv /\ [RoutingNext]_routingVars => RoutingInv' /\ Honoured
  <2> SUFFICES ASSUME RoutingInv, [RoutingNext]_routingVars PROVE RoutingInv' /\ Honoured
    OBVIOUS
  <2>1. /\ RoutingInv'
        /\ \A i \in Importers : Store(i) \/ imports'[i] = imports[i] \/ imports'[i].pc # "batch"
    BY StepRouting
  <2>2. ASSUME NEW i \in Importers, imports[i].pc = "store", imports'[i].pc = "batch" PROVE Store(i)
    BY <2>1, <2>2
  <2>3. Honoured
    BY <2>2, StoreKeeps
  <2> QED BY <2>1, <2>3
<1>2. RoutingInv /\ [RoutingNext]_routingVars => [Honoured]_routingVars
  BY <1>1
<1> QED
  BY <1>1, <1>2, InitRouting, PTL DEF RoutingSpec, CorrectionHolds
=============================================================================
