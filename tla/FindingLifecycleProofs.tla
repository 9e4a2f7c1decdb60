----------------------- MODULE FindingLifecycleProofs -----------------------
\* FindingLifecycle, proved for any number of managers, findings, snapshots
\* and retests.
EXTENDS FindingLifecycle, FiniteSetTheorems, WellFoundedInduction, TLAPS

\* The fields of a transition under way and of a run of a retest.
TransKeys == {"pc", "f", "target", "evidence", "run", "code"}
RunKeys   == {"finding", "source", "snaps", "after", "status", "case"}

\* A finding was made from a result, and its results come from runs that exist.
FindingsOK ==
    /\ DOMAIN finding = Findings
    /\ \A f \in Findings :
          /\ DOMAIN finding[f] = {"status", "results"}
          /\ finding[f].status \in Statuses \cup {None}
          /\ finding[f].results \subseteq (1..LastRun) \X Snapshots
          /\ Created(f) => finding[f].results # {}

\* A snapshot is linked to no finding or to one that was created.
RelatedOK ==
    /\ related \in [Snapshots -> Findings \cup {None}]
    /\ \A s \in Snapshots : related[s] # None => Created(related[s])

\* A retest is of a created finding, replays some of its snapshots, and has an
\* outcome for each when it is done.
RunOK(r) ==
    /\ DOMAIN r = RunKeys
    /\ r.finding \in Findings /\ Created(r.finding)
    /\ r.snaps # {} /\ r.snaps \subseteq Snapshots
    /\ r.status = "done" => r.case \in [r.snaps -> Outcomes]

\* What a request that goes through with a transition can show for it.
Shown(l) ==
    /\ l.run \in RetestsOf(l.f)
    /\ l.target = VERIFIED_FIXED => AllPassed(l.run)
    /\ l.target = REOPENED => Reproduced(l.run)

\* The finding an actor works on exists.
Holds(l) == l.f \in Findings /\ Created(l.f)

\* What an actor has read and still relies on, by its step.
Fits(l) ==
    /\ l.pc \in Pcs
    /\ l.pc = "create" => l.snap \in Snapshots
    /\ l.pc = "relate" => Holds(l) /\ l.snap \in Snapshots
    /\ l.pc \in {"transition", "write", "event"} =>
          /\ DOMAIN l = TransKeys /\ Holds(l) /\ l.target \in Statuses
          /\ l.evidence \in BOOLEAN /\ (l.evidence = TRUE => Shown(l))
          /\ l.code \in BOOLEAN /\ (l.code = TRUE => l.run \in Retests)
    /\ l.pc = "write" /\ l.target \in {FIXED_PENDING_VERIFY, VERIFIED_FIXED, REOPENED} => l.evidence = TRUE
    /\ l.pc = "enqueue" => Holds(l) /\ l.snaps # {} /\ l.snaps \subseteq Snapshots
    /\ l.pc = "link" => Holds(l) /\ l.run \in RetestsOf(l.f)
    /\ l.pc = "evaluate" =>
          Holds(l) /\ l.run \in RetestsOf(l.f) /\ Retest(l.run).status = "done"

\* The status of a finding is backed by one of its retests.
Backed(f) ==
    /\ finding[f].status = VERIFIED_FIXED => \E n \in RetestsOf(f) : AllPassed(n)
    /\ finding[f].status = REOPENED => \E n \in RetestsOf(f) : Reproduced(n)
    /\ finding[f].status = FIXED_PENDING_VERIFY => RetestsOf(f) # {}

FindingInv ==
    /\ FindingsOK /\ RelatedOK
    /\ (\E S : runs \in Seq(S)) /\ \A n \in Retests : RunOK(Retest(n))
    /\ marks \subseteq Retests /\ crashes \in 0..MaxCrashes
    /\ DOMAIN loc = Actors /\ \A a \in Actors : Fits(loc[a])
    /\ \A f \in Findings : Backed(f)

-----------------------------------------------------------------------------
(* Numbers of runs.                                                        *)

\* The runs that found the snapshots are numbered first.
LEMMA OriginCount ==
  Cardinality(Origins) \in Nat /\ \A s \in Snapshots : Origin[s] \in 1..Cardinality(Origins)
<1>1. PICK n \in 0..MaxRuns : Origins = 1..n
  BY LifecycleAssumption
<1>2. Cardinality(1..n) = n
  BY FS_Interval
<1>3. Cardinality(Origins) = n
  BY <1>1, <1>2
<1>4. \A s \in Snapshots : Origin[s] \in Origins
  BY DEF Origins
<1> QED BY <1>1, <1>3, <1>4

\* A number of a retest is an index of runs.
LEMMA RetestIndex ==
  ASSUME Len(runs) \in Nat, NEW n
  PROVE  /\ LastRun \in Nat /\ 1..LastRun \subseteq Nat
         /\ n \in Retests => /\ n \in 1..LastRun /\ n \in Nat /\ n - Cardinality(Origins) \in 1..Len(runs)
         /\ n \in 1..Len(runs) => n + Cardinality(Origins) \in Retests /\ Retest(n + Cardinality(Origins)) = runs[n]
<1>1. PICK c \in Nat : c = Cardinality(Origins)
  BY OriginCount
<1>2. LastRun = c + Len(runs)
  BY <1>1 DEF LastRun
<1>3. n \in Retests => n \in (c + 1)..(c + Len(runs))
  BY <1>1, <1>2 DEF Retests
<1>4. n \in Nat => (n + c) - c = n
  BY <1>1
<1> QED BY <1>1, <1>2, <1>3, <1>4 DEF Retests, Retest

\* The largest member of a set of numbers.
LEMMA BoundedHasMax ==
  ASSUME NEW n \in Nat, NEW S \in SUBSET (0..n), S # {}
  PROVE  \E x \in S : \A y \in S : y <= x
<1> DEFINE T == {n - x : x \in S}
<1> DEFINE R == OpToRel(<, Nat)
<1>1. T \in SUBSET Nat /\ T # {}
  <2>1. \A x \in S : n - x \in Nat
    OBVIOUS
  <2> QED BY <2>1
<1>2. IsWellFoundedOn(R, Nat)
  BY NatLessThanWellFounded
<1>3. PICK t \in T : \A y \in T : <<y, t>> \notin R
  <2> HIDE DEF R, T
  <2> QED BY <1>1, <1>2, WFMin
<1>4. \A y \in T : t <= y
  <2>1. \A x, y \in Nat : <<y, x>> \notin R => x <= y
    BY DEF OpToRel
  <2> HIDE DEF R, T
  <2> QED BY <1>1, <1>3, <2>1
<1>5. PICK x \in S : t = n - x
  OBVIOUS
<1>6. ASSUME NEW y \in S PROVE y <= x
  <2>1. n - y \in T
    OBVIOUS
  <2>2. n - x <= n - y
    BY <1>4, <1>5, <2>1
  <2>3. n \in Int /\ x \in Int /\ y \in Int
    BY ONLY S \in SUBSET (0..n), x \in S, y \in S, n \in Nat
  <2> QED BY ONLY <2>2, <2>3
<1> QED BY <1>6


LEMMA MaxIs ==
  ASSUME NEW n \in Nat, NEW S \in SUBSET (0..n), S # {}
  PROVE  Max(S) \in S
<1>1. PICK x \in S : \A y \in S : y <= x
  BY BoundedHasMax
<1>2. \A y \in S : x >= y
  BY <1>1
<1> QED BY <1>2 DEF Max

-----------------------------------------------------------------------------
(* What every step keeps.                                                  *)

LEMMA InitFinding == Init => FindingInv
<1> SUFFICES ASSUME Init PROVE FindingInv
  OBVIOUS
<1>1. runs = << >> /\ Len(runs) = 0 /\ runs \in Seq({})
  BY DEF Init
<1>2. Retests = {}
  <2>1. \A n : n \notin Retests
    BY <1>1, RetestIndex
  <2> QED BY <2>1
<1>3. None \notin Statuses
  BY LifecycleAssumption
<1>4. FindingsOK /\ RelatedOK
  BY <1>3 DEF Init, FindingsOK, RelatedOK, Absent, Created
<1>5. crashes \in 0..MaxCrashes
  BY LifecycleAssumption DEF Init
<1>6. DOMAIN loc = Actors /\ \A a \in Actors : Fits(loc[a])
  <2>1. PICK l : l = Idle
    OBVIOUS
  <2>2. l.pc = "idle"
    BY <2>1 DEF Idle
  <2>3. Fits(l)
    BY <2>2 DEF Fits, Pcs
  <2>4. DOMAIN loc = Actors /\ \A a \in Actors : loc[a] = l
    BY <2>1 DEF Init
  <2> QED BY <2>3, <2>4
<1>7. \A f \in Findings : Backed(f)
  BY <1>3 DEF Init, Absent, Backed, Statuses, VERIFIED_FIXED, REOPENED, FIXED_PENDING_VERIFY
<1>8. marks = {}
  BY DEF Init
<1> QED BY <1>1, <1>2, <1>4, <1>5, <1>6, <1>7, <1>8 DEF FindingInv

\* Findings and retests stay, and a retest that is done stays as it is.
Grows ==
    /\ \A f \in Findings : Created(f) => Created(f)'
    /\ (\E S : runs' \in Seq(S)) /\ Len(runs') >= Len(runs)
    /\ \A n \in Retests : /\ Retest(n)'.finding = Retest(n).finding
                          /\ Retest(n).status = "done" => Retest(n)' = Retest(n)

LEMMA RetestsGrow ==
  ASSUME FindingInv, Grows
  PROVE  /\ Retests \subseteq Retests' /\ LastRun <= LastRun' /\ LastRun \in Nat /\ LastRun' \in Nat
         /\ \A f : RetestsOf(f) \subseteq RetestsOf(f)'
         /\ \A n \in Retests : (AllPassed(n) => AllPassed(n)') /\ (Reproduced(n) => Reproduced(n)')
<1>1. Len(runs) \in Nat /\ Len(runs') \in Nat /\ Len(runs') >= Len(runs)
  BY DEF FindingInv, Grows
<1>2. PICK c \in Nat : c = Cardinality(Origins)
  BY OriginCount
<1>3. Retests \subseteq Retests' /\ LastRun <= LastRun' /\ LastRun \in Nat /\ LastRun' \in Nat
  BY <1>1, <1>2 DEF Retests, LastRun
<1>4. \A f : RetestsOf(f) \subseteq RetestsOf(f)'
  BY <1>3 DEF RetestsOf, Grows
<1>5. ASSUME NEW n \in Retests PROVE (AllPassed(n) => AllPassed(n)') /\ (Reproduced(n) => Reproduced(n)')
  <2>1. Retest(n).status = "done" => Retest(n)' = Retest(n)
    BY DEF Grows
  <2> QED BY <2>1 DEF AllPassed, Reproduced
<1> QED BY <1>3, <1>4, <1>5

\* Then an actor's reads stay good ...
LEMMA FitsStays ==
  ASSUME FindingInv, Grows, NEW l, Fits(l)
  PROVE  Fits(l)'
<1>1. /\ Retests \subseteq Retests' /\ \A f : RetestsOf(f) \subseteq RetestsOf(f)'
      /\ \A n \in Retests : (AllPassed(n) => AllPassed(n)') /\ (Reproduced(n) => Reproduced(n)')
  BY RetestsGrow
<1>2. \A f : RetestsOf(f) \subseteq Retests
  BY DEF RetestsOf
<1>3. Holds(l) => Holds(l)'
  BY DEF Holds, Grows
<1>4. Shown(l) => Shown(l)'
  BY <1>1, <1>2 DEF Shown
<1>5. l.run \in RetestsOf(l.f) /\ Retest(l.run).status = "done" => Retest(l.run)'.status = "done"
  BY <1>2 DEF Grows
<1> QED BY <1>1, <1>3, <1>4, <1>5 DEF Fits

\* ... and so does what backs a status that stays.
LEMMA BackedStays ==
  ASSUME FindingInv, Grows, NEW f \in Findings, finding'[f].status = finding[f].status
  PROVE  Backed(f)'
<1>1. /\ RetestsOf(f) \subseteq RetestsOf(f)' /\ RetestsOf(f) \subseteq Retests
      /\ \A n \in Retests : (AllPassed(n) => AllPassed(n)') /\ (Reproduced(n) => Reproduced(n)')
  BY RetestsGrow DEF RetestsOf
<1>2. Backed(f)
  BY DEF FindingInv
<1> QED BY <1>1, <1>2 DEF Backed

LEMMA RelatedStays ==
  ASSUME FindingInv, Grows, related' \in [Snapshots -> Findings \cup {None}],
         \A s \in Snapshots : related'[s] = related[s] \/ (related'[s] \in Findings /\ Created(related'[s]))
  PROVE  RelatedOK'
<1>1. ASSUME NEW s \in Snapshots, related'[s] # None PROVE finding'[related'[s]].status # None
  <2>1. PICK f : f = related'[s]
    OBVIOUS
  <2>2. f \in Findings /\ Created(f)
    BY <1>1, <2>1 DEF FindingInv, RelatedOK
  <2>3. Created(f)'
    BY <2>2 DEF Grows
  <2> QED BY <2>1, <2>3 DEF Created
<1> QED BY <1>1 DEF RelatedOK, Created

\* A step of the actor a, to l.
LEMMA ActorStep ==
  ASSUME FindingInv, Grows, FindingsOK', RelatedOK', \A n \in Retests' : RunOK(Retest(n))',
         \A f \in Findings : finding'[f].status = finding[f].status \/ Backed(f)',
         marks' \subseteq Retests', crashes' \in 0..MaxCrashes,
         NEW a \in Actors, NEW l, Become(a, l) \/ (UNCHANGED loc /\ l = loc[a]), Fits(l)'
  PROVE  FindingInv'
<1>1. DOMAIN loc' = Actors /\ loc'[a] = l /\ \A b \in Actors \ {a} : loc'[b] = loc[b]
  BY DEF FindingInv, Become
<1>2. ASSUME NEW b \in Actors PROVE Fits(loc[b])'
  <2>1. PICK m : m = loc'[b]
    OBVIOUS
  <2>2. CASE b = a
    BY <1>1, <2>2 DEF Fits, Holds, Shown
  <2>3. CASE b # a
    <3>1. m = loc[b]
      BY <1>1, <2>1, <2>3
    <3>2. Fits(m)
      BY <3>1 DEF FindingInv
    <3>3. Fits(m)'
      BY <3>2, FitsStays
    <3> QED BY <2>1, <3>3
  <2> QED BY <2>2, <2>3
<1>3. \A f \in Findings : Backed(f)'
  BY BackedStays
<1> QED BY <1>1, <1>2, <1>3 DEF FindingInv, Grows

\* Nothing but findings, or nothing but actors, changes.
LEMMA RunsStay ==
  ASSUME FindingInv, UNCHANGED runs
  PROVE  /\ Retests' = Retests /\ LastRun' = LastRun /\ (\E S : runs' \in Seq(S)) /\ Len(runs') >= Len(runs)
         /\ \A n : Retest(n)' = Retest(n) /\ \A f : RetestsOf(f)' = RetestsOf(f)
         /\ (\A f \in Findings : Created(f) => Created(f)') =>
               Grows /\ \A n \in Retests' : RunOK(Retest(n))'
<1>1. /\ Retests' = Retests /\ LastRun' = LastRun /\ (\E S : runs' \in Seq(S))
      /\ \A n : Retest(n)' = Retest(n) /\ \A f : RetestsOf(f)' = RetestsOf(f)
  BY DEF FindingInv, Retests, LastRun, Retest, RetestsOf
<1>2. Len(runs') >= Len(runs)
  <2>1. Len(runs) \in Nat
    BY DEF FindingInv
  <2> QED BY <2>1
<1>3. ASSUME \A f \in Findings : Created(f) => Created(f)'
      PROVE  Grows /\ \A n \in Retests' : RunOK(Retest(n))'
  <2>1. Grows
    BY <1>1, <1>2, <1>3 DEF Grows
  <2>2. ASSUME NEW n \in Retests PROVE RunOK(Retest(n))'
    <3>1. PICK r : r = Retest(n)
      OBVIOUS
    <3>2. RunOK(r)
      BY <3>1 DEF FindingInv
    <3>3. RunOK(r)'
      BY <1>3, <3>2 DEF RunOK
    <3> QED BY <1>1, <3>1, <3>3 DEF RunOK, Created
  <2> QED BY <1>1, <2>1, <2>2
<1> QED BY <1>1, <1>2, <1>3

\* A step that changes no finding, no link and no run.
LEMMA ReadStep ==
  ASSUME FindingInv, UNCHANGED <<finding, related, runs>>, marks' \subseteq Retests, crashes' \in 0..MaxCrashes,
         NEW a \in Actors, NEW l, Become(a, l), Fits(l)
  PROVE  FindingInv'
<1>1. \A f \in Findings : Created(f) => Created(f)'
  BY DEF Created
<1>2. /\ Grows /\ (\A n \in Retests' : RunOK(Retest(n))') /\ Retests' = Retests /\ LastRun' = LastRun
  BY <1>1, RunsStay
<1>3. FindingsOK' /\ RelatedOK'
  BY <1>2 DEF FindingInv, FindingsOK, RelatedOK, Created
<1>4. Fits(l)'
  BY <1>2, FitsStays
<1>5. marks' \subseteq Retests'
  BY <1>2
<1> QED BY <1>2, <1>3, <1>4, <1>5, ActorStep

\* One finding is written: its results grow, its status is backed or as before.
LEMMA WriteStep ==
  ASSUME FindingInv, UNCHANGED runs, NEW f \in Findings, NEW s \in Statuses, NEW R, R # {},
         R \subseteq (1..LastRun) \X Snapshots,
         \A g \in Findings \ {f} : finding'[g] = finding[g], DOMAIN finding' = Findings,
         DOMAIN finding'[f] = {"status", "results"}, finding'[f].status = s, finding'[f].results = R
  PROVE  /\ Grows /\ FindingsOK' /\ \A n \in Retests' : RunOK(Retest(n))'
<1>1. None \notin Statuses
  BY LifecycleAssumption
<1>2. \A g \in Findings : Created(g) => Created(g)'
  BY <1>1 DEF Created
<1>3. /\ Grows /\ (\A n \in Retests' : RunOK(Retest(n))') /\ LastRun' = LastRun
  BY <1>2, RunsStay
<1>4. FindingsOK'
  <2> SUFFICES ASSUME NEW g \in Findings
               PROVE  /\ DOMAIN finding'[g] = {"status", "results"}
                      /\ finding'[g].status \in Statuses \cup {None}
                      /\ finding'[g].results \subseteq (1..LastRun) \X Snapshots
                      /\ finding'[g].status # None => finding'[g].results # {}
    BY <1>3 DEF FindingsOK, Created
  <2>1. CASE g = f
    BY <2>1
  <2>2. CASE g # f
    BY <2>2 DEF FindingInv, FindingsOK, Created
  <2> QED BY <2>1, <2>2
<1> QED BY <1>3, <1>4

-----------------------------------------------------------------------------
(* result_review.py                                                        *)

LEMMA ManagersAct == Managers \subseteq Actors /\ Maintenance \in Actors
  BY DEF Actors

LEMMA ConfirmKeeps ==
  ASSUME FindingInv, NEW m \in Managers, NEW s \in Snapshots, ConfirmResult(m, s)
  PROVE  FindingInv'
<1>1. PICK l : l = [pc |-> "create", snap |-> s]
  OBVIOUS
<1>2. Fits(l)
  BY <1>1 DEF Fits, Pcs
<1>3. /\ Become(m, l) /\ UNCHANGED <<finding, related, runs>> /\ marks' \subseteq Retests
      /\ crashes' \in 0..MaxCrashes
  BY <1>1 DEF ConfirmResult, FindingInv
<1> QED BY <1>2, <1>3, ReadStep, ManagersAct

LEMMA CreateKeeps == ASSUME FindingInv, NEW m \in Actors, CreateFinding(m) PROVE FindingInv'
<1>1. PICK s : s = loc[m].snap
  OBVIOUS
<1>2. s \in Snapshots /\ Origin[s] \in 1..LastRun
  <2>1. Fits(loc[m]) /\ loc[m].pc = "create"
    BY DEF FindingInv, CreateFinding
  <2>2. s \in Snapshots
    BY <1>1, <2>1 DEF Fits
  <2>3. Len(runs) \in Nat
    BY DEF FindingInv
  <2> QED BY <2>2, <2>3, OriginCount DEF LastRun
<1>3. PICK f \in Findings : ~Created(f)
          /\ finding' = [finding EXCEPT ![f] = [status |-> OPEN, results |-> {<<Origin[s], s>>}]]
          /\ Become(m, [pc |-> "relate", snap |-> s, f |-> f])
          /\ UNCHANGED <<related, runs, marks, crashes>>
  BY <1>1 DEF CreateFinding
<1>4. PICK new : new = [status |-> OPEN, results |-> {<<Origin[s], s>>}]
  OBVIOUS
<1>5. DOMAIN new = {"status", "results"} /\ new.status = OPEN /\ new.results = {<<Origin[s], s>>}
  BY <1>4
<1>6. DOMAIN finding = Findings
  BY DEF FindingInv, FindingsOK
<1>7. finding'[f] = new /\ DOMAIN finding' = Findings /\ \A g \in Findings \ {f} : finding'[g] = finding[g]
  BY <1>3, <1>4, <1>6
<1>8. OPEN \in Statuses
  BY DEF Statuses
<1>9. {<<Origin[s], s>>} \subseteq (1..LastRun) \X Snapshots /\ {<<Origin[s], s>>} # {}
  BY <1>2
<1>10. Grows /\ FindingsOK' /\ \A n \in Retests' : RunOK(Retest(n))'
  BY <1>3, <1>5, <1>7, <1>8, <1>9, WriteStep
<1>11. RelatedOK'
  <2>1. related' \in [Snapshots -> Findings \cup {None}] /\ \A t \in Snapshots : related'[t] = related[t]
    BY <1>3 DEF FindingInv, RelatedOK
  <2> QED BY <1>10, <2>1, RelatedStays
<1>12. Backed(f)'
  BY <1>5, <1>7 DEF Backed, OPEN, VERIFIED_FIXED, REOPENED, FIXED_PENDING_VERIFY
<1>13. \A g \in Findings : finding'[g].status = finding[g].status \/ Backed(g)'
  <2> SUFFICES ASSUME NEW g \in Findings, g # f PROVE finding'[g].status = finding[g].status
    BY <1>12
  <2> QED BY <1>7
<1>14. marks' \subseteq Retests' /\ crashes' \in 0..MaxCrashes
  BY <1>3, RunsStay DEF FindingInv
<1>15. PICK l : l = [pc |-> "relate", snap |-> s, f |-> f]
  OBVIOUS
<1>16. Fits(l)'
  <2>1. None \notin Statuses
    BY LifecycleAssumption
  <2>2. Holds(l)'
    BY <1>5, <1>7, <1>8, <1>15, <2>1 DEF Holds, Created
  <2> QED BY <1>2, <1>15, <2>2 DEF Fits, Pcs
<1> QED BY <1>3, <1>10, <1>11, <1>13, <1>14, <1>15, <1>16, ActorStep

LEMMA RelateKeeps == ASSUME FindingInv, NEW m \in Actors, RelateResult(m) PROVE FindingInv'
<1>1. PICK f, s : f = loc[m].f /\ s = loc[m].snap
  OBVIOUS
<1>2. /\ related' = [related EXCEPT ![s] = f] /\ Become(m, Idle)
      /\ UNCHANGED <<finding, runs, marks, crashes>> /\ loc[m].pc = "relate"
  BY <1>1 DEF RelateResult
<1>3. f \in Findings /\ Created(f) /\ s \in Snapshots
  BY <1>1, <1>2 DEF FindingInv, Fits, Holds
<1>4. /\ Grows /\ (\A n \in Retests' : RunOK(Retest(n))') /\ Retests' = Retests /\ LastRun' = LastRun
  BY <1>2, RunsStay DEF Created
<1>5. RelatedOK'
  <2>1. /\ related' \in [Snapshots -> Findings \cup {None}]
        /\ \A t \in Snapshots : related'[t] = related[t] \/ related'[t] = f
    BY <1>2, <1>3 DEF FindingInv, RelatedOK
  <2> QED BY <1>3, <1>4, <2>1, RelatedStays
<1>6. FindingsOK'
  BY <1>2, <1>4 DEF FindingInv, FindingsOK, Created
<1>7. PICK l : l = Idle
  OBVIOUS
<1>8. Fits(l)'
  BY <1>7 DEF Idle, Fits, Pcs
<1>9. /\ marks' \subseteq Retests' /\ crashes' \in 0..MaxCrashes
      /\ \A g \in Findings : finding'[g].status = finding[g].status
  BY <1>2, <1>4 DEF FindingInv
<1> QED BY <1>2, <1>4, <1>5, <1>6, <1>7, <1>8, <1>9, ActorStep

\* A finding gets another result.
LEMMA ResultsStep ==
  ASSUME FindingInv, UNCHANGED runs, NEW f \in Findings, Created(f),
         NEW R, R \subseteq (1..LastRun) \X Snapshots, finding' = [finding EXCEPT ![f].results = @ \cup R]
  PROVE  /\ Grows /\ FindingsOK' /\ (\A n \in Retests' : RunOK(Retest(n))')
         /\ \A g \in Findings : finding'[g].status = finding[g].status
<1>1. PICK old : old = finding[f]
  OBVIOUS
<1>2. /\ DOMAIN finding = Findings /\ DOMAIN old = {"status", "results"} /\ old.status \in Statuses
      /\ old.results \subseteq (1..LastRun) \X Snapshots /\ old.results # {}
  BY <1>1 DEF FindingInv, FindingsOK, Created
<1>3. PICK new : new = [old EXCEPT !.results = old.results \cup R]
  OBVIOUS
<1>4. /\ DOMAIN new = {"status", "results"} /\ new.status = old.status /\ new.results = old.results \cup R
  BY <1>2, <1>3
<1>5. finding'[f] = new /\ DOMAIN finding' = Findings /\ \A g \in Findings \ {f} : finding'[g] = finding[g]
  BY <1>1, <1>2, <1>3
<1>6. new.results \subseteq (1..LastRun) \X Snapshots /\ new.results # {}
  BY <1>2, <1>4
<1>7. Grows /\ FindingsOK' /\ (\A n \in Retests' : RunOK(Retest(n))')
  BY <1>2, <1>4, <1>5, <1>6, WriteStep
<1>8. \A g \in Findings : finding'[g].status = finding[g].status
  BY <1>1, <1>4, <1>5
<1> QED BY <1>7, <1>8

LEMMA AddResultKeeps ==
  ASSUME FindingInv, NEW m \in Managers, NEW f \in Findings, NEW s \in Snapshots, AddResultToFinding(m, f, s)
  PROVE  FindingInv'
<1>1. /\ Created(f) /\ finding' = [finding EXCEPT ![f].results = @ \cup {<<Origin[s], s>>}]
      /\ related' = [related EXCEPT ![s] = f] /\ UNCHANGED <<runs, marks, loc, crashes>>
  BY DEF AddResultToFinding
<1>2. {<<Origin[s], s>>} \subseteq (1..LastRun) \X Snapshots
  <2>1. Len(runs) \in Nat
    BY DEF FindingInv
  <2> QED BY <2>1, OriginCount DEF LastRun
<1>3. /\ Grows /\ FindingsOK' /\ (\A n \in Retests' : RunOK(Retest(n))')
      /\ \A g \in Findings : finding'[g].status = finding[g].status
  BY <1>1, <1>2, ResultsStep
<1>4. Retests' = Retests
  BY <1>1, RunsStay
<1>5. RelatedOK'
  <2>1. /\ related' \in [Snapshots -> Findings \cup {None}]
        /\ \A t \in Snapshots : related'[t] = related[t] \/ related'[t] = f
    BY <1>1 DEF FindingInv, RelatedOK
  <2> QED BY <1>1, <1>3, <2>1, RelatedStays
<1>6. PICK l : l = loc[m]
  OBVIOUS
<1>7. m \in Actors /\ DOMAIN loc = Actors /\ Fits(l)
  BY <1>6, ManagersAct DEF FindingInv
<1>8. UNCHANGED loc /\ l = loc[m]
  BY <1>1, <1>6
<1>9. Fits(l)'
  BY <1>3, <1>7, FitsStays
<1>10. marks' \subseteq Retests' /\ crashes' \in 0..MaxCrashes
  BY <1>1, <1>4 DEF FindingInv
<1> QED BY <1>3, <1>5, <1>7, <1>8, <1>9, <1>10, ActorStep

-----------------------------------------------------------------------------
(* transition_finding                                                      *)

LEMMA RequestKeeps ==
  ASSUME FindingInv, NEW m \in Managers, NEW f \in Findings, NEW t \in Statuses, RequestTransition(m, f, t)
  PROVE  FindingInv'
<1>1. PICK l : l = Transition(f, t, FALSE, None, FALSE)
  OBVIOUS
<1>2. /\ Created(f) /\ Become(m, l) /\ UNCHANGED <<finding, related, runs>> /\ marks' \subseteq Retests
      /\ crashes' \in 0..MaxCrashes
  BY <1>1 DEF RequestTransition, FindingInv
<1>3. /\ DOMAIN l = TransKeys /\ l.pc = "transition" /\ l.f = f /\ l.target = t /\ l.evidence = FALSE
      /\ l.code = FALSE
  BY <1>1 DEF Transition, TransKeys
<1>4. Fits(l)
  BY <1>2, <1>3 DEF Fits, Pcs, Holds
<1> QED BY <1>2, <1>4, ReadStep, ManagersAct

\* Only a transition with evidence gets to a status that needs it.
LEMMA ValidateKeeps == ASSUME FindingInv, NEW a \in Actors, ValidateTransition(a) PROVE FindingInv'
<1>1. PICK l : l = loc[a]
  OBVIOUS
<1>2. PICK w : w = [l EXCEPT !.pc = "write"]
  OBVIOUS
<1>3. PICK from : from = finding[l.f].status
  OBVIOUS
<1>4. PICK ok \in BOOLEAN :
        /\ ok => <<from, l.target>> \in VALID_TRANSITIONS /\ (NeedsEvidence(from, l.target) => l.evidence)
        /\ l.pc = "transition" /\ Become(a, IF ok THEN w ELSE Idle)
        /\ UNCHANGED <<finding, related, runs, marks, crashes>>
  BY <1>1, <1>2, <1>3 DEF ValidateTransition
<1>5. Fits(l) /\ marks' \subseteq Retests /\ crashes' \in 0..MaxCrashes
  BY <1>1, <1>4 DEF FindingInv
<1>6. CASE ok = TRUE
  <2>1. /\ DOMAIN l = TransKeys /\ Holds(l) /\ l.target \in Statuses /\ l.evidence \in BOOLEAN
        /\ (l.evidence = TRUE => Shown(l)) /\ l.code \in BOOLEAN /\ (l.code = TRUE => l.run \in Retests)
    BY <1>4, <1>5 DEF Fits
  <2>2. /\ DOMAIN w = TransKeys /\ w.pc = "write" /\ w.f = l.f /\ w.target = l.target
        /\ w.evidence = l.evidence /\ w.run = l.run /\ w.code = l.code
    BY <1>2, <2>1 DEF TransKeys
  <2>3. l.target \in {FIXED_PENDING_VERIFY, VERIFIED_FIXED, REOPENED} => l.evidence = TRUE
    <3>1. l.target \in {VERIFIED_FIXED, REOPENED} => from = FIXED_PENDING_VERIFY
      BY <1>4, <1>6 DEF VALID_TRANSITIONS, OPEN, FIXING, FIXED_PENDING_VERIFY, VERIFIED_FIXED, REOPENED,
         FALSE_POSITIVE, ACCEPTED_RISK
    <3>2. NeedsEvidence(from, l.target) => l.evidence = TRUE
      BY <1>4, <1>6, <2>1
    <3> QED BY <3>1, <3>2 DEF NeedsEvidence
  <2>4. Holds(w) /\ (w.evidence = TRUE => Shown(w))
    BY <2>1, <2>2 DEF Holds, Shown
  <2>5. Fits(w)
    BY <2>1, <2>2, <2>3, <2>4 DEF Fits, Pcs
  <2> QED BY <1>4, <1>5, <1>6, <2>5, ReadStep
<1>7. CASE ok = FALSE
  <2>1. PICK idle : idle = Idle
    OBVIOUS
  <2>2. Fits(idle)
    BY <2>1 DEF Idle, Fits, Pcs
  <2> QED BY <1>4, <1>5, <1>7, <2>1, <2>2, ReadStep
<1> QED BY <1>6, <1>7

LEMMA WriteStatusKeeps == ASSUME FindingInv, NEW a \in Actors, WriteStatus(a) PROVE FindingInv'
<1>1. PICK l : l = loc[a]
  OBVIOUS
<1>2. PICK w : w = [l EXCEPT !.pc = "event"]
  OBVIOUS
<1>3. PICK f, t : f = l.f /\ t = l.target
  OBVIOUS
<1>4. /\ l.pc = "write" /\ finding' = [finding EXCEPT ![f].status = t] /\ Become(a, w)
      /\ UNCHANGED <<related, runs, marks, crashes>>
  BY <1>1, <1>2, <1>3 DEF WriteStatus
<1>5. Fits(l)
  BY <1>1 DEF FindingInv
<1>6. /\ DOMAIN l = TransKeys /\ f \in Findings /\ Created(f) /\ t \in Statuses /\ l.evidence \in BOOLEAN
      /\ (l.evidence = TRUE => Shown(l)) /\ l.code \in BOOLEAN /\ (l.code = TRUE => l.run \in Retests)
      /\ t \in {FIXED_PENDING_VERIFY, VERIFIED_FIXED, REOPENED} => l.evidence = TRUE
  BY <1>3, <1>4, <1>5 DEF Fits, Holds
<1>7. PICK old : old = finding[f]
  OBVIOUS
<1>8. /\ DOMAIN finding = Findings /\ DOMAIN old = {"status", "results"}
      /\ old.results \subseteq (1..LastRun) \X Snapshots /\ old.results # {}
  BY <1>6, <1>7 DEF FindingInv, FindingsOK, Created
<1>9. PICK new : new = [old EXCEPT !.status = t]
  OBVIOUS
<1>10. /\ DOMAIN new = {"status", "results"} /\ new.status = t /\ new.results = old.results
  BY <1>8, <1>9
<1>11. finding'[f] = new /\ DOMAIN finding' = Findings /\ \A g \in Findings \ {f} : finding'[g] = finding[g]
  BY <1>4, <1>6, <1>7, <1>8, <1>9
<1>12. Grows /\ FindingsOK' /\ (\A n \in Retests' : RunOK(Retest(n))')
  BY <1>4, <1>6, <1>8, <1>10, <1>11, WriteStep
<1>13. RelatedOK'
  <2>1. related' \in [Snapshots -> Findings \cup {None}] /\ \A s \in Snapshots : related'[s] = related[s]
    BY <1>4 DEF FindingInv, RelatedOK
  <2> QED BY <1>12, <2>1, RelatedStays
<1>14. Backed(f)'
  <2>1. finding'[f].status = t
    BY <1>10, <1>11
  <2>2. CASE t \in {FIXED_PENDING_VERIFY, VERIFIED_FIXED, REOPENED}
    <3>1. PICK n : n = l.run
      OBVIOUS
    <3>2. /\ n \in RetestsOf(f) /\ (t = VERIFIED_FIXED => AllPassed(n)) /\ (t = REOPENED => Reproduced(n))
      BY <1>3, <1>6, <2>2, <3>1 DEF Shown
    <3>3. /\ n \in RetestsOf(f)' /\ (t = VERIFIED_FIXED => AllPassed(n)') /\ (t = REOPENED => Reproduced(n)')
      BY <1>12, <3>2, RetestsGrow DEF RetestsOf
    <3> QED BY <2>1, <3>3 DEF Backed
  <2>3. CASE t \notin {FIXED_PENDING_VERIFY, VERIFIED_FIXED, REOPENED}
    BY <2>1, <2>3 DEF Backed
  <2> QED BY <2>2, <2>3
<1>15. \A g \in Findings : finding'[g].status = finding[g].status \/ Backed(g)'
  <2> SUFFICES ASSUME NEW g \in Findings, g # f PROVE finding'[g].status = finding[g].status
    BY <1>14
  <2> QED BY <1>11
<1>16. Fits(w)'
  <2>1. /\ DOMAIN w = TransKeys /\ w.pc = "event" /\ w.f = f /\ w.target = t
        /\ w.evidence = l.evidence /\ w.run = l.run /\ w.code = l.code
    BY <1>2, <1>3, <1>6 DEF TransKeys
  <2>2. Holds(w) /\ (w.evidence = TRUE => Shown(w))
    BY <1>3, <1>6, <2>1 DEF Holds, Shown
  <2>3. Fits(w)
    BY <1>6, <2>1, <2>2 DEF Fits, Pcs
  <2> QED BY <1>12, <2>3, FitsStays
<1>17. marks' \subseteq Retests' /\ crashes' \in 0..MaxCrashes
  BY <1>4, RunsStay DEF FindingInv
<1> QED BY <1>4, <1>12, <1>13, <1>15, <1>16, <1>17, ActorStep

LEMMA WriteEventKeeps == ASSUME FindingInv, NEW a \in Actors, WriteEvent(a) PROVE FindingInv'
<1>1. PICK l : l = loc[a]
  OBVIOUS
<1>2. PICK idle : idle = Idle
  OBVIOUS
<1>3. /\ l.pc = "event" /\ marks' = IF l.code THEN marks \cup {l.run} ELSE marks
      /\ Become(a, idle) /\ UNCHANGED <<finding, related, runs, crashes>>
  BY <1>1, <1>2 DEF WriteEvent
<1>4. l.code \in BOOLEAN /\ (l.code = TRUE => l.run \in Retests)
  BY <1>1, <1>3 DEF FindingInv, Fits
<1>5. marks' \subseteq Retests /\ crashes' \in 0..MaxCrashes
  BY <1>3, <1>4 DEF FindingInv
<1>6. Fits(idle)
  BY <1>2 DEF Idle, Fits, Pcs
<1> QED BY <1>3, <1>5, <1>6, ReadStep

-----------------------------------------------------------------------------
(* Retests.                                                                *)

LEMMA ScheduleKeeps ==
  ASSUME FindingInv, NEW m \in Managers, NEW f \in Findings, ScheduleRetest(m, f)
  PROVE  FindingInv'
<1>1. PICK b, S : b = BaselineRun(f) /\ S = BaselineSnaps(f)
  OBVIOUS
<1>2. PICK l : l = [pc |-> "enqueue", f |-> f, source |-> b, snaps |-> S]
  OBVIOUS
<1>3. /\ Created(f) /\ Become(m, l) /\ UNCHANGED <<finding, related, runs>> /\ marks' \subseteq Retests
      /\ crashes' \in 0..MaxCrashes
  BY <1>1, <1>2 DEF ScheduleRetest, FindingInv
<1>4. S # {} /\ S \subseteq Snapshots
  <2>1. PICK R : R = finding[f].results
    OBVIOUS
  <2>2. R # {} /\ R \subseteq (1..LastRun) \X Snapshots
    BY <1>3, <2>1 DEF FindingInv, FindingsOK
  <2>3. LastRun \in Nat
    <3>1. Len(runs) \in Nat
      BY DEF FindingInv
    <3> QED BY <3>1, OriginCount DEF LastRun
  <2>4. PICK N : N = {r[1] : r \in R}
    OBVIOUS
  <2>5. N \in SUBSET (0..LastRun) /\ N # {}
    BY <2>2, <2>3, <2>4
  <2>6. Max(N) \in N
    BY <2>3, <2>5, MaxIs
  <2>7. b \in N
    BY <1>1, <2>1, <2>4, <2>6 DEF BaselineRun
  <2>8. PICK r \in R : r[1] = b
    BY <2>4, <2>7
  <2>9. r = <<b, r[2]>> /\ r[2] \in Snapshots
    BY <2>2, <2>8
  <2>10. S = {s \in Snapshots : <<b, s>> \in R}
    BY <1>1, <2>1 DEF BaselineSnaps
  <2> QED BY <2>8, <2>9, <2>10
<1>5. /\ l.pc = "enqueue" /\ l.f = f /\ l.snaps = S
  BY <1>2
<1>6. Fits(l)
  BY <1>3, <1>4, <1>5 DEF Fits, Pcs, Holds
<1> QED BY <1>3, <1>6, ReadStep, ManagersAct

LEMMA EnqueueKeeps == ASSUME FindingInv, NEW m \in Actors, EnqueueRetest(m) PROVE FindingInv'
<1>1. PICK l : l = loc[m]
  OBVIOUS
<1>2. l.pc = "enqueue" /\ Fits(l) /\ UNCHANGED <<finding, related, marks, crashes>>
  BY <1>1 DEF EnqueueRetest, FindingInv
<1>3. l.f \in Findings /\ Created(l.f) /\ l.snaps # {} /\ l.snaps \subseteq Snapshots
  BY <1>2 DEF Fits, Holds
<1>4. CASE Become(m, Idle) /\ UNCHANGED runs
  <2>1. PICK idle : idle = Idle
    OBVIOUS
  <2>2. Fits(idle)
    BY <2>1 DEF Idle, Fits, Pcs
  <2>3. marks' \subseteq Retests /\ crashes' \in 0..MaxCrashes
    BY <1>2 DEF FindingInv
  <2> QED BY <1>2, <1>4, <2>1, <2>2, <2>3, ReadStep
<1>5. CASE ~(Become(m, Idle) /\ UNCHANGED runs)
  <2>1. PICK new : new = [finding |-> l.f, source |-> l.source, snaps |-> l.snaps,
                          after |-> LatestTerminal(l.f), status |-> "active", case |-> << >>]
    OBVIOUS
  <2>2. runs' = Append(runs, new) /\ Become(m, [pc |-> "link", f |-> l.f, run |-> LastRun + 1])
    BY <1>1, <1>5, <2>1 DEF EnqueueRetest
  <2>3. DOMAIN new = RunKeys /\ new.finding = l.f /\ new.snaps = l.snaps /\ new.status = "active"
    BY <2>1 DEF RunKeys
  <2>4. PICK S : runs \in Seq(S)
    BY DEF FindingInv
  <2>5. PICK T : T = S \cup {new}
    OBVIOUS
  <2>6. runs \in Seq(T) /\ new \in T
    BY <2>4, <2>5
  <2>7. /\ Len(runs) \in Nat /\ runs' \in Seq(T) /\ Len(runs') = Len(runs) + 1 /\ runs'[Len(runs) + 1] = new
        /\ \A i \in 1..Len(runs) : runs'[i] = runs[i]
    BY <2>2, <2>6
  <2>8. PICK c \in Nat : c = Cardinality(Origins)
    BY OriginCount
  <2>9. /\ LastRun = c + Len(runs) /\ LastRun' = LastRun + 1 /\ Retests' = Retests \cup {LastRun + 1}
        /\ LastRun + 1 \notin Retests /\ LastRun \in Nat
    BY <2>7, <2>8 DEF LastRun, Retests
  <2>10. \A n \in Retests : Retest(n)' = Retest(n)
    <3>1. \A n \in Retests : n - c \in 1..Len(runs)
      BY <2>7, <2>8, RetestIndex
    <3> QED BY <2>7, <2>8, <3>1 DEF Retest
  <2>11. PICK k : k = LastRun + 1
    OBVIOUS
  <2>12. Retest(k)' = new /\ k \in Nat /\ k \in Retests' /\ k \notin Retests
    <3>1. k - c = Len(runs) + 1
      BY <2>7, <2>9, <2>11
    <3>2. Retest(k)' = runs'[k - c]
      BY <2>8 DEF Retest
    <3>3. Retest(k)' = new
      BY <2>7, <3>1, <3>2
    <3>4. k \in Nat /\ k \in Retests' /\ k \notin Retests
      BY <2>9, <2>11
    <3> QED BY <3>3, <3>4
  <2>13. \A f \in Findings : Created(f) => Created(f)'
    BY <1>2 DEF Created
  <2>14. Grows
    <3>1. (\E Z : runs' \in Seq(Z)) /\ Len(runs') >= Len(runs)
      BY <2>7
    <3> QED BY <2>10, <2>13, <3>1 DEF Grows
  <2>15. ASSUME NEW n \in Retests' PROVE RunOK(Retest(n))'
    <3>1. CASE n = k
      <4>1. l.f \in Findings /\ Created(l.f)'
        BY <1>3, <2>13
      <4>2. RunOK(new)'
        BY <1>3, <2>3, <4>1 DEF RunOK, Created
      <4> QED BY <2>12, <3>1, <4>2 DEF RunOK, Created
    <3>2. CASE n # k
      <4>1. n \in Retests
        BY <2>9, <2>11, <3>2
      <4>2. PICK r : r = Retest(n)
        OBVIOUS
      <4>3. RunOK(r)
        BY <4>1, <4>2 DEF FindingInv
      <4>4. RunOK(r)'
        BY <2>13, <4>3 DEF RunOK
      <4> QED BY <2>10, <4>1, <4>2, <4>4 DEF RunOK, Created
    <3> QED BY <3>1, <3>2
  <2>16. FindingsOK'
    <3>1. (1..LastRun) \subseteq (1..LastRun')
      BY <2>9
    <3> QED BY <1>2, <3>1 DEF FindingInv, FindingsOK, Created
  <2>17. RelatedOK'
    <3>1. related' \in [Snapshots -> Findings \cup {None}] /\ \A s \in Snapshots : related'[s] = related[s]
      BY <1>2 DEF FindingInv, RelatedOK
    <3> QED BY <2>14, <3>1, RelatedStays
  <2>18. marks' \subseteq Retests' /\ crashes' \in 0..MaxCrashes
    BY <1>2, <2>9 DEF FindingInv
  <2>19. \A f \in Findings : finding'[f].status = finding[f].status
    BY <1>2
  <2>20. PICK w : w = [pc |-> "link", f |-> l.f, run |-> k]
    OBVIOUS
  <2>21. w.pc = "link" /\ w.f = l.f /\ w.run = k
    BY <2>20
  <2>22. Fits(w)'
    <3>1. k \in RetestsOf(l.f)'
      BY <2>3, <2>12 DEF RetestsOf
    <3>2. Holds(w)'
      BY <1>3, <2>13, <2>21 DEF Holds
    <3> QED BY <2>21, <3>1, <3>2 DEF Fits, Pcs
  <2> QED BY <2>2, <2>11, <2>14, <2>15, <2>16, <2>17, <2>18, <2>19, <2>20, <2>22, ActorStep
<1> QED BY <1>4, <1>5

LEMMA LinkKeeps == ASSUME FindingInv, NEW m \in Actors, LinkFixVerification(m) PROVE FindingInv'
<1>1. PICK l : l = loc[m]
  OBVIOUS
<1>2. PICK w : w = Transition(l.f, FIXED_PENDING_VERIFY, TRUE, l.run, FALSE)
  OBVIOUS
<1>3. PICK idle : idle = Idle
  OBVIOUS
<1>4. /\ l.pc = "link" /\ (Become(m, w) \/ Become(m, idle)) /\ UNCHANGED <<finding, related, runs>>
      /\ marks' \subseteq Retests /\ crashes' \in 0..MaxCrashes
  BY <1>1, <1>2, <1>3 DEF LinkFixVerification, FindingInv
<1>5. Holds(l) /\ l.run \in RetestsOf(l.f)
  BY <1>1, <1>4 DEF FindingInv, Fits
<1>6. /\ DOMAIN w = TransKeys /\ w.pc = "transition" /\ w.f = l.f /\ w.target = FIXED_PENDING_VERIFY
      /\ w.evidence = TRUE /\ w.run = l.run /\ w.code = FALSE
  BY <1>2 DEF Transition, TransKeys
<1>7. Holds(w) /\ Shown(w) /\ w.target \in Statuses
  BY <1>5, <1>6 DEF Holds, Shown, Statuses, FIXED_PENDING_VERIFY, VERIFIED_FIXED, REOPENED
<1>8. Fits(w)
  BY <1>6, <1>7 DEF Fits, Pcs
<1>9. Fits(idle)
  BY <1>3 DEF Idle, Fits, Pcs
<1> QED BY <1>4, <1>8, <1>9, ReadStep

\* The scheduler touches one retest that is not done.
LEMMA RunStep ==
  ASSUME FindingInv, NEW n \in Retests, Retest(n).status # "done", NEW new, DOMAIN new = RunKeys,
         new.finding = Retest(n).finding, new.snaps = Retest(n).snaps,
         new.status = "done" => new.case \in [new.snaps -> Outcomes],
         runs' = [runs EXCEPT ![n - Cardinality(Origins)] = new],
         UNCHANGED <<finding, related, marks, loc, crashes>>
  PROVE  FindingInv'
<1>1. PICK c \in Nat : c = Cardinality(Origins)
  BY OriginCount
<1>2. PICK S : runs \in Seq(S)
  BY DEF FindingInv
<1>3. PICK i : i = n - c
  OBVIOUS
<1>4. Len(runs) \in Nat
  BY <1>2
<1>5. i \in 1..Len(runs) /\ n \in Nat
  BY <1>1, <1>3, <1>4, RetestIndex
<1>6. PICK T : T = S \cup {new}
  OBVIOUS
<1>7. runs \in Seq(T) /\ new \in T
  BY <1>2, <1>6
<1>8. /\ runs' \in Seq(T) /\ Len(runs') = Len(runs) /\ runs'[i] = new
      /\ \A j \in 1..Len(runs) : j # i => runs'[j] = runs[j]
  BY <1>1, <1>3, <1>5, <1>7
<1>9. LastRun' = LastRun /\ Retests' = Retests
  BY <1>8 DEF LastRun, Retests
<1>10. Retest(n)' = new
  BY <1>1, <1>3, <1>8 DEF Retest
<1>11. \A k \in Retests : k # n => Retest(k)' = Retest(k)
  <2> SUFFICES ASSUME NEW k \in Retests, k # n PROVE Retest(k)' = Retest(k)
    OBVIOUS
  <2>1. k - c \in 1..Len(runs) /\ k \in Nat
    BY <1>1, <1>4, RetestIndex
  <2>2. k - c # i
    BY <1>3, <1>5, <2>1
  <2> QED BY <1>1, <1>8, <2>1, <2>2 DEF Retest
<1>12. \A f \in Findings : Created(f) => Created(f)'
  BY DEF Created
<1>13. Grows
  <2>1. (\E Z : runs' \in Seq(Z)) /\ Len(runs') >= Len(runs)
    BY <1>4, <1>8
  <2>2. \A k \in Retests : Retest(k)'.finding = Retest(k).finding
    BY <1>10, <1>11
  <2>3. \A k \in Retests : Retest(k).status = "done" => Retest(k)' = Retest(k)
    BY <1>11
  <2> QED BY <1>12, <2>1, <2>2, <2>3 DEF Grows
<1>14. ASSUME NEW k \in Retests' PROVE RunOK(Retest(k))'
  <2>1. k \in Retests
    BY <1>9
  <2>2. PICK r : r = Retest(k)
    OBVIOUS
  <2>3. RunOK(r)
    BY <2>1, <2>2 DEF FindingInv
  <2>4. CASE k = n
    <3>1. RunOK(new)'
      BY <1>12, <2>2, <2>3, <2>4 DEF RunOK
    <3> QED BY <1>10, <2>4, <3>1 DEF RunOK, Created
  <2>5. CASE k # n
    <3>1. RunOK(r)'
      BY <1>12, <2>3 DEF RunOK
    <3> QED BY <1>11, <2>1, <2>2, <2>5, <3>1 DEF RunOK, Created
  <2> QED BY <2>4, <2>5
<1>15. FindingsOK' /\ RelatedOK'
  BY <1>9 DEF FindingInv, FindingsOK, RelatedOK, Created
<1>16. marks' \subseteq Retests' /\ crashes' \in 0..MaxCrashes
  BY <1>9 DEF FindingInv
<1>17. DOMAIN loc' = Actors /\ \A a \in Actors : Fits(loc[a])'
  <2>1. ASSUME NEW a \in Actors PROVE Fits(loc[a])'
    <3>1. PICK l : l = loc[a]
      OBVIOUS
    <3>2. Fits(l)
      BY <3>1 DEF FindingInv
    <3>3. Fits(l)'
      BY <1>13, <3>2, FitsStays
    <3> QED BY <3>1, <3>3 DEF Fits, Holds, Shown
  <2> QED BY <2>1 DEF FindingInv
<1>18. \A f \in Findings : Backed(f)'
  BY <1>13, BackedStays
<1>19. \E Z : runs' \in Seq(Z)
  BY <1>8
<1> QED BY <1>14, <1>15, <1>16, <1>17, <1>18, <1>19 DEF FindingInv

LEMMA RunEndsKeeps == ASSUME FindingInv, NEW n \in Retests, RunEnds(n) PROVE FindingInv'
<1>1. PICK r, i : r = Retest(n) /\ i = n - Cardinality(Origins) /\ r = runs[i]
  BY DEF Retest
<1>2. RunOK(r) /\ r.status \in {"active", "cancel_requested"} /\ UNCHANGED <<finding, related, marks, loc, crashes>>
  BY <1>1 DEF FindingInv, RunEnds
<1>3. PICK S : runs \in Seq(S)
  BY DEF FindingInv
<1>4. i \in DOMAIN runs
  BY <1>1, <1>3, RetestIndex
<1>5. CASE \E c \in [r.snaps -> Outcomes] : runs' = [runs EXCEPT ![i].status = "done", ![i].case = c]
  <2>1. PICK c \in [r.snaps -> Outcomes] : runs' = [runs EXCEPT ![i].status = "done", ![i].case = c]
    BY <1>5
  <2>2. PICK new : new = [r EXCEPT !.status = "done", !.case = c]
    OBVIOUS
  <2>3. DOMAIN new = RunKeys /\ new.finding = r.finding /\ new.snaps = r.snaps /\ new.case = c
    BY <1>2, <2>2 DEF RunOK, RunKeys
  <2>4. runs' = [runs EXCEPT ![i] = new]
    BY <1>1, <1>3, <1>4, <2>1, <2>2
  <2> QED BY <1>1, <1>2, <2>3, <2>4, RunStep
<1>6. CASE runs' = [runs EXCEPT ![i].status = "ended"]
  <2>1. PICK new : new = [r EXCEPT !.status = "ended"]
    OBVIOUS
  <2>2. DOMAIN new = RunKeys /\ new.finding = r.finding /\ new.snaps = r.snaps /\ new.status = "ended"
    BY <1>2, <2>1 DEF RunOK, RunKeys
  <2>3. runs' = [runs EXCEPT ![i] = new]
    BY <1>1, <1>6, <2>1
  <2> QED BY <1>1, <1>2, <2>2, <2>3, RunStep
<1> QED BY <1>1, <1>5, <1>6 DEF RunEnds

LEMMA CancelKeeps == ASSUME FindingInv, NEW n \in Retests, RunCancelRequested(n) PROVE FindingInv'
<1>1. PICK r, i : r = Retest(n) /\ i = n - Cardinality(Origins) /\ r = runs[i]
  BY DEF Retest
<1>2. /\ RunOK(r) /\ r.status = "active" /\ UNCHANGED <<finding, related, marks, loc, crashes>>
      /\ runs' = [runs EXCEPT ![i].status = "cancel_requested"]
  BY <1>1 DEF FindingInv, RunCancelRequested
<1>3. PICK new : new = [r EXCEPT !.status = "cancel_requested"]
  OBVIOUS
<1>4. DOMAIN new = RunKeys /\ new.finding = r.finding /\ new.snaps = r.snaps /\ new.status = "cancel_requested"
  BY <1>2, <1>3 DEF RunOK, RunKeys
<1>5. runs' = [runs EXCEPT ![i] = new]
  BY <1>1, <1>2, <1>3
<1> QED BY <1>1, <1>2, <1>4, <1>5, RunStep

-----------------------------------------------------------------------------
(* evaluate_finding_retest                                                 *)

LEMMA EvaluateKeeps ==
  ASSUME FindingInv, NEW a \in Actors, NEW n \in Retests, MayEvaluate(a, n), BeginEvaluation(a, n),
         UNCHANGED <<finding, related, runs, marks, crashes>>
  PROVE  FindingInv'
<1>1. PICK f, s : f = Retest(n).finding /\ s = finding[f].status
  OBVIOUS
<1>2. PICK l : l = [pc |-> "evaluate", f |-> f, run |-> n, status |-> s]
  OBVIOUS
<1>3. Become(a, l) /\ marks' \subseteq Retests /\ crashes' \in 0..MaxCrashes
  BY <1>1, <1>2 DEF BeginEvaluation, FindingInv
<1>4. f \in Findings /\ Created(f) /\ n \in RetestsOf(f) /\ Retest(n).status = "done"
  BY <1>1 DEF FindingInv, RunOK, RetestsOf, MayEvaluate
<1>5. l.pc = "evaluate" /\ l.f = f /\ l.run = n
  BY <1>2
<1>6. Fits(l)
  BY <1>4, <1>5 DEF Fits, Pcs, Holds
<1> QED BY <1>3, <1>6, ReadStep

\* What the classification says of a finished retest is true of it.
LEMMA DecisionIsShown ==
  ASSUME FindingInv, NEW n \in Retests, Retest(n).status = "done"
  PROVE  /\ ClassifyFindingRetest(Retest(n)) = "verified_fixed" => AllPassed(n)
         /\ ClassifyFindingRetest(Retest(n)) = "reopened" => Reproduced(n)
         /\ ClassifyFindingRetest(Retest(n)) \in {"verified_fixed", "reopened", "pending"}
<1>1. PICK r : r = Retest(n)
  OBVIOUS
<1>2. RunOK(r) /\ r.status = "done" /\ r.case \in [r.snaps -> Outcomes]
  BY <1>1 DEF FindingInv, RunOK
<1>3. PICK cs : cs = {r.case[s] : s \in r.snaps}
  OBVIOUS
<1>4. PICK complete \in BOOLEAN : complete <=> (r.snaps # {} /\ \A c \in cs : c[1] = "done" /\ c[2] # None)
  OBVIOUS
<1>5. PICK d : d = ClassifyFindingRetest(r)
  OBVIOUS
<1>6. d = IF \E c \in cs : c[2] = "candidate" THEN "reopened"
          ELSE IF complete /\ \A c \in cs : c[2] = "pass" THEN "verified_fixed" ELSE "pending"
  BY <1>3, <1>4, <1>5 DEF ClassifyFindingRetest
<1>7. d = "verified_fixed" => AllPassed(n)
  <2> SUFFICES ASSUME d = "verified_fixed", NEW s \in r.snaps PROVE r.case[s] = <<"done", "pass">>
    BY <1>1, <1>2 DEF AllPassed
  <2>1. complete /\ \A c \in cs : c[2] = "pass"
    BY <1>6
  <2>2. r.case[s] \in cs /\ r.case[s] \in Outcomes
    BY <1>2, <1>3
  <2>3. r.case[s][1] = "done" /\ r.case[s][2] = "pass"
    BY <1>4, <2>1, <2>2
  <2> QED BY <2>2, <2>3 DEF Outcomes
<1>8. d = "reopened" => Reproduced(n)
  <2> SUFFICES ASSUME d = "reopened" PROVE \E s \in r.snaps : r.case[s][2] = "candidate"
    BY <1>1, <1>2 DEF Reproduced
  <2> QED BY <1>3, <1>6
<1> QED BY <1>1, <1>5, <1>6, <1>7, <1>8

LEMMA ApplyKeeps == ASSUME FindingInv, NEW a \in Actors, ApplyEvaluation(a) PROVE FindingInv'
<1>1. PICK l : l = loc[a]
  OBVIOUS
<1>2. PICK f, n, d : f = l.f /\ n = l.run /\ d = ClassifyFindingRetest(Retest(n))
  OBVIOUS
<1>3. PICK idle : idle = Idle
  OBVIOUS
<1>4. PICK w : w = Transition(f, d, TRUE, n, TRUE)
  OBVIOUS
<1>5. PICK R : R = ResultsOf(n)
  OBVIOUS
<1>6. /\ l.pc = "evaluate" /\ finding' = [finding EXCEPT ![f].results = @ \cup R]
      /\ \/ d # "pending" /\ Become(a, w) /\ UNCHANGED marks
         \/ marks' = marks \cup {n} /\ Become(a, idle)
         \/ UNCHANGED marks /\ Become(a, idle)
      /\ UNCHANGED <<related, runs, crashes>>
  BY <1>1, <1>2, <1>3, <1>4, <1>5 DEF ApplyEvaluation
<1>7. f \in Findings /\ Created(f) /\ n \in RetestsOf(f) /\ n \in Retests /\ Retest(n).status = "done"
  BY <1>1, <1>2, <1>6 DEF FindingInv, Fits, Holds, RetestsOf
<1>8. R \subseteq (1..LastRun) \X Snapshots
  <2>1. n \in 1..LastRun
    <3>1. Len(runs) \in Nat
      BY DEF FindingInv
    <3> QED BY <1>7, <3>1, RetestIndex
  <2>2. Retest(n).snaps \subseteq Snapshots
    BY <1>7 DEF FindingInv, RunOK
  <2> QED BY <1>5, <2>1, <2>2 DEF ResultsOf
<1>9. /\ Grows /\ FindingsOK' /\ (\A k \in Retests' : RunOK(Retest(k))')
      /\ \A g \in Findings : finding'[g].status = finding[g].status
  BY <1>6, <1>7, <1>8, ResultsStep
<1>10. RelatedOK'
  <2>1. related' \in [Snapshots -> Findings \cup {None}] /\ \A s \in Snapshots : related'[s] = related[s]
    BY <1>6 DEF FindingInv, RelatedOK
  <2> QED BY <1>9, <2>1, RelatedStays
<1>11. marks' \subseteq Retests' /\ crashes' \in 0..MaxCrashes
  <2>1. Retests' = Retests
    BY <1>6, RunsStay
  <2> QED BY <1>6, <1>7, <2>1 DEF FindingInv
<1>12. Fits(idle)'
  BY <1>3 DEF Idle, Fits, Pcs
<1>13. d # "pending" => Fits(w)'
  <2> SUFFICES ASSUME d # "pending" PROVE Fits(w)'
    OBVIOUS
  <2>1. /\ DOMAIN w = TransKeys /\ w.pc = "transition" /\ w.f = f /\ w.target = d
        /\ w.evidence = TRUE /\ w.run = n /\ w.code = TRUE
    BY <1>4 DEF Transition, TransKeys
  <2>2. /\ d = "verified_fixed" => AllPassed(n)
        /\ d = "reopened" => Reproduced(n)
        /\ d \in {"verified_fixed", "reopened"}
    BY <1>2, <1>7, DecisionIsShown
  <2>3. Holds(w) /\ Shown(w) /\ w.target \in Statuses
    BY <1>7, <2>1, <2>2 DEF Holds, Shown, Statuses, VERIFIED_FIXED, REOPENED
  <2>4. Fits(w)
    BY <1>7, <2>1, <2>3 DEF Fits, Pcs
  <2> QED BY <1>9, <2>4, FitsStays
<1> QED BY <1>6, <1>9, <1>10, <1>11, <1>12, <1>13, ActorStep

LEMMA CrashKeeps == ASSUME FindingInv, NEW a \in Actors, Crash(a) PROVE FindingInv'
<1>1. PICK idle : idle = Idle
  OBVIOUS
<1>2. Fits(idle)
  BY <1>1 DEF Idle, Fits, Pcs
<1>3. crashes' \in 0..MaxCrashes
  <2>1. crashes \in 0..MaxCrashes /\ MaxCrashes \in Nat
    BY LifecycleAssumption DEF FindingInv
  <2> QED BY <2>1 DEF Crash
<1>4. Become(a, idle) /\ UNCHANGED <<finding, related, runs>> /\ marks' \subseteq Retests
  BY <1>1 DEF Crash, FindingInv
<1> QED BY <1>2, <1>3, <1>4, ReadStep

-----------------------------------------------------------------------------
LEMMA NextFinding == ASSUME FindingInv, [Next]_vars PROVE FindingInv'
<1>1. CASE UNCHANGED vars
  <2>1. UNCHANGED <<finding, related, runs, marks, loc, crashes>>
    BY <1>1 DEF vars
  <2>2. PICK l : l = loc[Maintenance]
    OBVIOUS
  <2>3. Maintenance \in Actors /\ Fits(l)
    BY <2>2, ManagersAct DEF FindingInv
  <2>4. /\ Grows /\ (\A n \in Retests' : RunOK(Retest(n))') /\ Retests' = Retests /\ LastRun' = LastRun
    BY <2>1, RunsStay DEF Created
  <2>5. FindingsOK' /\ RelatedOK'
    BY <2>1, <2>4 DEF FindingInv, FindingsOK, RelatedOK, Created
  <2>6. Fits(l)'
    BY <2>3, <2>4, FitsStays
  <2>7. marks' \subseteq Retests' /\ crashes' \in 0..MaxCrashes
    BY <2>1, <2>4 DEF FindingInv
  <2>8. \A f \in Findings : finding'[f].status = finding[f].status
    BY <2>1
  <2> QED BY <2>1, <2>2, <2>3, <2>4, <2>5, <2>6, <2>7, <2>8, ActorStep
<1>2. CASE Next
  <2>1. ASSUME NEW m \in Managers, NEW s \in Snapshots, ConfirmResult(m, s) PROVE FindingInv'
    BY <2>1, ConfirmKeeps
  <2>2. ASSUME NEW m \in Managers, NEW f \in Findings,
               \/ ScheduleRetest(m, f)
               \/ \E s \in Snapshots : AddResultToFinding(m, f, s)
               \/ \E t \in Statuses : RequestTransition(m, f, t)
        PROVE FindingInv'
    BY <2>2, ScheduleKeeps, AddResultKeeps, RequestKeeps
  <2>3. ASSUME NEW m \in Managers, NEW n \in Retests, EvaluateRetest(m, n) PROVE FindingInv'
    BY <2>3, EvaluateKeeps, ManagersAct DEF EvaluateRetest
  <2>4. ASSUME NEW n \in Retests, EvaluateCompleted(n) PROVE FindingInv'
    BY <2>4, EvaluateKeeps, ManagersAct DEF EvaluateCompleted
  <2>5. ASSUME NEW n \in Retests, RunEnds(n) \/ RunCancelRequested(n) PROVE FindingInv'
    BY <2>5, RunEndsKeeps, CancelKeeps
  <2>6. ASSUME NEW a \in Actors, Step(a) PROVE FindingInv'
    BY <2>6, CreateKeeps, RelateKeeps, ValidateKeeps, WriteStatusKeeps, WriteEventKeeps, EnqueueKeeps,
       LinkKeeps, ApplyKeeps DEF Step
  <2>7. ASSUME NEW a \in Actors, Crash(a) PROVE FindingInv'
    BY <2>7, CrashKeeps
  <2> QED BY <1>2, <2>1, <2>2, <2>3, <2>4, <2>5, <2>6, <2>7 DEF Next
<1> QED BY <1>1, <1>2

LEMMA FindingInvSound == FindingInv => FindingSound
<1> SUFFICES ASSUME FindingInv PROVE FindingSound
  OBVIOUS
<1>1. \A f \in Findings : /\ finding[f].status \in Statuses \cup {None}
                          /\ finding[f].results \subseteq (1..LastRun) \X Snapshots
                          /\ Created(f) => finding[f].results # {}
  BY DEF FindingInv, FindingsOK
<1>2. \A n \in Retests : Created(Retest(n).finding) /\ Retest(n).snaps # {}
  BY DEF FindingInv, RunOK
<1>3. \A a \in Actors : loc[a].pc \in Pcs
  BY DEF FindingInv, Fits
<1>4. TypeOK
  BY <1>1, <1>2, <1>3 DEF FindingInv, RelatedOK, TypeOK
<1>5. EvidenceBehindStatus
  BY DEF FindingInv, Backed, EvidenceBehindStatus
<1> QED BY <1>4, <1>5 DEF FindingSound

\* For any managers, findings, snapshots and retests interleaved, with actors that
\* die between their writes (result_review.py, vulnerability_lifecycle.py): a finding that
\* says verified_fixed has a finished retest of its own in which every replay passed,
\* one that says reopened a retest that reproduced it, and one that says
\* fixed_pending_verify a retest at all.
THEOREM FindingsAreSound == Spec => []FindingSound
<1>1. Spec => []FindingInv
  BY InitFinding, NextFinding, PTL DEF Spec
<1> QED BY <1>1, FindingInvSound, PTL
=============================================================================
