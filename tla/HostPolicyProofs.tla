-------------------------- MODULE HostPolicyProofs --------------------------
\* The host policy coordinator, proved for any number of threads, hosts,
\* requests and dispatches and any thresholds.
EXTENDS HostPolicyCoordinator, FiniteSetTheorems, WellFoundedInduction, TLAPS

-----------------------------------------------------------------------------
(* Consecutive results.                                                    *)

\* The lengths of the tails of s that hold nothing but k.
Tails(s, k) == {i \in 0..Len(s) : \A j \in (Len(s) - i + 1)..Len(s) : s[j] = k}

\* A set of numbers up to a bound has a greatest.
LEMMA BoundedHasMax ==
  ASSUME NEW n \in Nat, NEW S \in SUBSET (0..n), S # {}
  PROVE  \E x \in S : \A y \in S : y <= x
<1> DEFINE T == {n - x : x \in S}
<1> DEFINE R == OpToRel(<, Nat)
<1>1. T \in SUBSET Nat /\ T # {}
  <2>1. \A x \in S : n - x \in Nat
    OBVIOUS
  <2> QED BY <2>1
<1>2. IsWellFoundedOn(R, Nat)
  BY NatLessThanWellFounded
<1>3. PICK t \in T : \A y \in T : <<y, t>> \notin R
  <2> HIDE DEF R, T
  <2> QED BY <1>1, <1>2, WFMin
<1>4. \A y \in T : t <= y
  <2>1. \A x, y \in Nat : <<y, x>> \notin R => x <= y
    BY DEF OpToRel
  <2> HIDE DEF R, T
  <2> QED BY <1>1, <1>3, <2>1
<1>5. PICK x \in S : t = n - x
  OBVIOUS
<1>6. ASSUME NEW y \in S PROVE y <= x
  <2>1. n - y \in T
    OBVIOUS
  <2>2. n - x <= n - y
    BY <1>4, <1>5, <2>1
  <2>3. n \in Int /\ x \in Int /\ y \in Int
    BY ONLY S \in SUBSET (0..n), x \in S, y \in S, n \in Nat
  <2> QED BY ONLY <2>2, <2>3
<1> QED BY <1>6

\* TrailingRun is the longest of them ...
LEMMA TrailingIs ==
  ASSUME NEW s, NEW k, NEW i \in Tails(s, k), Len(s) \in Nat, \A j \in Tails(s, k) : j <= i
  PROVE  TrailingRun(s, k) = i
<1>1. TrailingRun(s, k) = CHOOSE i0 \in Tails(s, k) : \A j \in Tails(s, k) : j <= i0
  BY DEF TrailingRun, Tails
<1>2. Tails(s, k) \subseteq Nat
  BY DEF Tails
<1>3. ASSUME NEW m \in Tails(s, k), \A j \in Tails(s, k) : j <= m PROVE m = i
  BY <1>2, <1>3
<1> QED BY <1>1, <1>3

\* ... and there is one.
LEMMA TrailingMax ==
  ASSUME NEW s, NEW k, Len(s) \in Nat
  PROVE  /\ TrailingRun(s, k) \in Tails(s, k) /\ TrailingRun(s, k) \in Nat
         /\ \A j \in Tails(s, k) : j <= TrailingRun(s, k)
<1>1. Tails(s, k) \in SUBSET (0..Len(s)) /\ 0 \in Tails(s, k)
  BY DEF Tails
<1>2. PICK x \in Tails(s, k) : \A y \in Tails(s, k) : y <= x
  BY <1>1, BoundedHasMax
<1>3. TrailingRun(s, k) = x
  BY <1>2, TrailingIs
<1> QED BY <1>1, <1>2, <1>3

\* One more result of the kind makes the run one longer, another ends it.
LEMMA TrailingAppend ==
  ASSUME NEW s \in Seq(Results), NEW k, NEW r \in Results
  PROVE  TrailingRun(Append(s, r), k) = IF k = r THEN TrailingRun(s, k) + 1 ELSE 0
<1> DEFINE n == Len(s)
<1> DEFINE u == Append(s, r)
<1>1. n \in Nat /\ Len(u) = n + 1 /\ u[n + 1] = r /\ \A j \in 1..n : u[j] = s[j]
  OBVIOUS
<1> HIDE DEF u
<1>2. CASE k = r
  <2>1. ASSUME NEW i \in Tails(s, k) PROVE i + 1 \in Tails(u, k)
    <3>1. i \in 0..n /\ \A j \in (n - i + 1)..n : s[j] = k
      BY DEF Tails
    <3>2. ASSUME NEW j \in (n + 1 - (i + 1) + 1)..(n + 1) PROVE u[j] = k
      <4>1. CASE j = n + 1
        BY <1>1, <1>2, <4>1
      <4>2. CASE j # n + 1
        BY <1>1, <3>1, <4>2
      <4> QED BY <4>1, <4>2
    <3> QED BY <1>1, <3>1, <3>2 DEF Tails
  <2>2. ASSUME NEW i \in Tails(u, k), i # 0 PROVE i - 1 \in Tails(s, k)
    <3>1. i \in 0..(n + 1) /\ \A j \in (n + 1 - i + 1)..(n + 1) : u[j] = k
      BY <1>1 DEF Tails
    <3>2. ASSUME NEW j \in (n - (i - 1) + 1)..n PROVE s[j] = k
      <4>1. j \in 1..n /\ j \in (n + 1 - i + 1)..(n + 1)
        BY <1>1, <2>2, <3>1
      <4> QED BY <1>1, <3>1, <4>1
    <3> QED BY <1>1, <2>2, <3>1, <3>2 DEF Tails
  <2>3. PICK m : m = TrailingRun(s, k)
    OBVIOUS
  <2>4. m \in Nat /\ m \in Tails(s, k) /\ \A j \in Tails(s, k) : j <= m
    BY <1>1, <2>3, TrailingMax
  <2>5. ASSUME NEW i \in Tails(u, k) PROVE i <= m + 1
    <3>1. i \in Nat
      BY <1>1 DEF Tails
    <3> QED BY <2>2, <2>4, <3>1
  <2>6. TrailingRun(u, k) = m + 1
    BY <1>1, <2>1, <2>4, <2>5, TrailingIs
  <2> QED BY <1>2, <2>3, <2>6 DEF u
<1>3. CASE k # r
  <2>1. 0 \in Tails(u, k)
    BY <1>1 DEF Tails
  <2>2. ASSUME NEW i \in Tails(u, k) PROVE i <= 0
    <3>1. i \in 0..(n + 1) /\ \A j \in (n + 1 - i + 1)..(n + 1) : u[j] = k
      BY <1>1 DEF Tails
    <3>2. ~ (n + 1 \in (n + 1 - i + 1)..(n + 1))
      BY <1>1, <1>3, <3>1
    <3> QED BY <1>1, <3>1, <3>2
  <2>3. TrailingRun(u, k) = 0
    BY <1>1, <2>1, <2>2, TrailingIs
  <2> QED BY <1>3, <2>3 DEF u
<1> QED BY <1>2, <1>3

LEMMA TrailingNone == \A k : TrailingRun(<< >>, k) = 0
<1> SUFFICES ASSUME NEW k PROVE TrailingRun(<< >>, k) = 0
  OBVIOUS
<1>1. PICK s : s = << >>
  OBVIOUS
<1>2. Len(s) = 0
  BY <1>1
<1>3. Tails(s, k) = {0}
  BY <1>2 DEF Tails
<1>4. TrailingRun(s, k) = 0
  BY <1>2, <1>3, TrailingIs
<1> QED BY <1>1, <1>4
-----------------------------------------------------------------------------
(* The parts of the invariant.                                             *)

\* A thread keeps its answer until it records it, and only checkpoint scope
\* releases first.
AnswerOK == \A t \in Threads :
    /\ state[t] \in {"answered", "released"} => result[t] \in Results
    /\ state[t] = "released" => scope = "checkpoint"

HolderStates == {"holding", "pacing", "granted", "answered", "recorded"}

Granted(h) == {t \in Threads : HostOf[t] = h /\ state[t] = "granted"}
LateBound  == IF scope = "request" THEN PerHostWorkers - 1 ELSE PerHostWorkers

\* What a stopped host has been sent and may still be sent.
LateOK == \A h \in Hosts :
    IF stopReason[h] = "" THEN late[h] = 0
    ELSE late[h] + Cardinality(Granted(h)) <= LateBound

\* The counters of one host agree with its history ...
CountsMatch(counts, stop, results) == \A k \in FailureKinds :
    /\ counts[k] = TrailingRun(results, k)
    /\ stop = k <=> (Threshold[k] > 0 /\ TrailingRun(results, k) >= Threshold[k])

\* ... those of a host_state with theirs.
StateMatches(hosts) == \A h \in Hosts : CountsMatch(hosts[h].streak, hosts[h].stopReason, hosts[h].log)
AllMatch == /\ \A h \in Hosts : CountsMatch(streak[h], stopReason[h], log[h])
            /\ StateMatches(persisted)
            /\ stale # None => StateMatches(stale)

PolicyInv == TypeOK /\ AnswerOK /\ PermitsConserved /\ SlotsSpaced /\ LateOK /\ AllMatch

-----------------------------------------------------------------------------
LEMMA PolicyConstants ==
  /\ IsFiniteSet(Threads) /\ \A t \in Threads : HostOf[t] \in Hosts
  /\ PerHostWorkers \in Nat /\ PerHostWorkers > 0 /\ MinInterval \in Nat
  /\ \A k \in FailureKinds : Threshold[k] \in Nat
  /\ Answers \subseteq Results /\ None \notin Results
  BY PolicyAssumption DEF PolicyAssumption

LEMMA HolderSets ==
  \A h : /\ IsFiniteSet(Holders(h)) /\ IsFiniteSet(Granted(h)) /\ Granted(h) \subseteq Holders(h)
         /\ Cardinality(Granted(h)) \in Nat /\ Cardinality(Holders(h)) \in Nat
         /\ Cardinality(Granted(h)) <= Cardinality(Holders(h))
<1> SUFFICES ASSUME NEW h
             PROVE  /\ IsFiniteSet(Holders(h)) /\ IsFiniteSet(Granted(h)) /\ Granted(h) \subseteq Holders(h)
                    /\ Cardinality(Granted(h)) \in Nat /\ Cardinality(Holders(h)) \in Nat
                    /\ Cardinality(Granted(h)) <= Cardinality(Holders(h))
  OBVIOUS
<1>1. Holders(h) \subseteq Threads /\ Granted(h) \subseteq Holders(h)
  BY DEF Holders, Granted
<1>2. IsFiniteSet(Holders(h)) /\ IsFiniteSet(Granted(h))
  BY <1>1, PolicyConstants, FS_Subset
<1> QED BY <1>1, <1>2, FS_CardinalityType, FS_Subset

\* A thread moves.
LEMMA GoTo ==
  ASSUME TypeOK, NEW t \in Threads, NEW s \in ThreadStates, Goto(t, s)
  PROVE  /\ state' \in [Threads -> ThreadStates] /\ state'[t] = s
         /\ \A u \in Threads : u # t => state'[u] = state[u]
  BY DEF TypeOK, Goto

\* Nobody takes a permit or gives one back ...
LEMMA PermitsStay ==
  ASSUME PermitsConserved, UNCHANGED permits,
         \A u \in Threads : state'[u] \in HolderStates <=> state[u] \in HolderStates
  PROVE  PermitsConserved'
<1>1. \A h \in Hosts : Holders(h)' = Holders(h)
  BY DEF Holders, HolderStates
<1> QED BY <1>1 DEF PermitsConserved

\* ... or t takes one ...
LEMMA PermitTaken ==
  ASSUME TypeOK, PermitsConserved, NEW t \in Threads, NEW s \in HolderStates, Goto(t, s),
         state[t] \notin HolderStates, permits[HostOf[t]] > 0,
         permits' = [permits EXCEPT ![HostOf[t]] = @ - 1]
  PROVE  permits' \in [Hosts -> 0..PerHostWorkers] /\ PermitsConserved'
<1>1. PICK g \in Hosts : g = HostOf[t]
  BY PolicyConstants
<1>2. permits \in [Hosts -> 0..PerHostWorkers] /\ permits' = [permits EXCEPT ![g] = permits[g] - 1] /\ permits[g] > 0
  BY <1>1 DEF TypeOK
<1>3. s \in ThreadStates
  BY DEF HolderStates, ThreadStates
<1>4. permits' \in [Hosts -> 0..PerHostWorkers]
  BY ONLY <1>2, PolicyConstants
<1>5. ASSUME NEW h \in Hosts PROVE permits'[h] + Cardinality(Holders(h)') = PerHostWorkers
  <2>1. permits[h] + Cardinality(Holders(h)) = PerHostWorkers /\ permits[h] \in Nat
    BY <1>2 DEF PermitsConserved
  <2>2. CASE h = g
    <3>1. t \notin Holders(h) /\ Holders(h)' = Holders(h) \cup {t}
      BY <1>1, <1>3, <2>2, GoTo DEF Holders, HolderStates
    <3>2. Cardinality(Holders(h) \cup {t}) = Cardinality(Holders(h)) + 1
      BY <3>1, HolderSets, FS_AddElement
    <3>3. permits'[h] = permits[h] - 1
      BY <1>2, <2>2
    <3> QED BY <2>1, <3>1, <3>2, <3>3, HolderSets
  <2>3. CASE h # g
    <3>1. Holders(h)' = Holders(h)
      BY <1>1, <1>3, <2>3, GoTo DEF Holders
    <3>2. permits'[h] = permits[h]
      BY <1>2, <2>3
    <3> QED BY <2>1, <3>1, <3>2
  <2> QED BY <2>2, <2>3
<1> QED BY <1>4, <1>5 DEF PermitsConserved

\* ... or gives its own back.
LEMMA PermitReturned ==
  ASSUME TypeOK, PermitsConserved, NEW t \in Threads, NEW s \in ThreadStates \ HolderStates, Goto(t, s),
         state[t] \in HolderStates, GiveBack(HostOf[t])
  PROVE  permits' \in [Hosts -> 0..PerHostWorkers] /\ PermitsConserved'
<1>1. PICK g \in Hosts : g = HostOf[t]
  BY PolicyConstants
<1>2. permits \in [Hosts -> 0..PerHostWorkers] /\ permits' = [permits EXCEPT ![g] = permits[g] + 1]
  BY <1>1 DEF TypeOK, GiveBack
<1>3. \A h \in Hosts : permits[h] + Cardinality(Holders(h)) = PerHostWorkers /\ permits[h] \in Nat
  BY <1>2 DEF PermitsConserved
<1>4. t \in Holders(g)
  BY <1>1 DEF Holders, HolderStates
<1>5. Cardinality(Holders(g) \ {t}) = Cardinality(Holders(g)) - 1 /\ Cardinality(Holders(g) \ {t}) \in Nat
  BY <1>4, HolderSets, FS_RemoveElement, FS_Subset, FS_CardinalityType
<1>6. permits[g] < PerHostWorkers
  BY <1>3, <1>5, HolderSets, PolicyConstants
<1>7. permits' \in [Hosts -> 0..PerHostWorkers]
  BY ONLY <1>2, <1>6, PolicyConstants
<1>8. ASSUME NEW h \in Hosts PROVE permits'[h] + Cardinality(Holders(h)') = PerHostWorkers
  <2>2. CASE h = g
    <3>1. Holders(h)' = Holders(g) \ {t}
      BY <1>1, <2>2, GoTo DEF Holders, HolderStates
    <3>2. permits'[h] = permits[g] + 1
      BY <1>2, <2>2
    <3> QED BY <1>3, <1>5, <2>2, <3>1, <3>2, HolderSets
  <2>3. CASE h # g
    <3>1. Holders(h)' = Holders(h)
      BY <1>1, <2>3, GoTo DEF Holders
    <3>2. permits'[h] = permits[h]
      BY <1>2, <2>3
    <3> QED BY <1>3, <3>1, <3>2
  <2> QED BY <2>2, <2>3
<1> QED BY <1>7, <1>8 DEF PermitsConserved

\* Nobody starts to sleep, and who sleeps sleeps as long.
LEMMA SlotsStay ==
  ASSUME SlotsSpaced, UNCHANGED nextAllowed,
         \A u \in Threads : Sleeping(u)' => Sleeping(u) /\ delay'[u] = delay[u]
  PROVE  SlotsSpaced'
  BY DEF SlotsSpaced

\* Nothing is sent or stopped, and nobody is granted a stopped host.
LEMMA LateStays ==
  ASSUME TypeOK, LateOK, UNCHANGED <<scope, stopReason, late>>,
         \A u \in Threads : state'[u] = "granted" => state[u] = "granted" \/ stopReason[HostOf[u]] = ""
  PROVE  LateOK'
<1> SUFFICES ASSUME NEW h \in Hosts, stopReason[h] # ""
             PROVE  late[h] + Cardinality(Granted(h)') <= LateBound
  BY DEF LateOK, LateBound
<1>1. Granted(h)' \subseteq Granted(h)
  BY DEF Granted
<1>2. Cardinality(Granted(h)') \in Nat /\ Cardinality(Granted(h)') <= Cardinality(Granted(h))
  BY <1>1, HolderSets, FS_Subset, FS_CardinalityType
<1>3. late[h] \in Nat
  BY DEF TypeOK
<1>4. Cardinality(Granted(h)) \in Nat
  BY HolderSets
<1>5. LateBound \in Int
  <2>1. PerHostWorkers \in Nat
    BY PolicyConstants
  <2>2. PerHostWorkers - 1 \in Int /\ PerHostWorkers \in Int
    BY ONLY <2>1
  <2> QED BY <2>2 DEF LateBound
<1>6. late[h] + Cardinality(Granted(h)) <= LateBound
  BY DEF LateOK
<1> QED BY ONLY <1>2, <1>3, <1>4, <1>5, <1>6

LEMMA MatchStays ==
  ASSUME AllMatch, UNCHANGED <<streak, stopReason, log, persisted, stale>> PROVE AllMatch'
  BY DEF AllMatch, StateMatches, CountsMatch
-----------------------------------------------------------------------------
(* The steps of a thread.                                                  *)

\* A thread moves without recording an outcome.
LEMMA MoveKeeps ==
  ASSUME PolicyInv, NEW t \in Threads, NEW s \in ThreadStates, Goto(t, s),
         UNCHANGED <<scope, streak, stopReason, result, requests, rest, log, late>>,
         permits' \in [Hosts -> 0..PerHostWorkers], PermitsConserved',
         nextAllowed' \in [Hosts -> Nat], delay' \in [Threads -> Nat], SlotsSpaced',
         s = "granted" => stopReason[HostOf[t]] = "",
         s = "answered" => state[t] = "answered",
         s = "released" => state[t] = "answered" /\ scope = "checkpoint"
  PROVE  PolicyInv'
<1>1. /\ state' \in [Threads -> ThreadStates] /\ state'[t] = s
      /\ \A u \in Threads : u # t => state'[u] = state[u]
  BY GoTo DEF PolicyInv
<1>2. TypeOK'
  BY <1>1 DEF PolicyInv, TypeOK, rest, runVars
<1>3. AnswerOK'
  BY <1>1 DEF PolicyInv, AnswerOK
<1>4. LateOK'
  BY <1>1, LateStays DEF PolicyInv
<1>5. AllMatch'
  BY MatchStays DEF PolicyInv, rest, runVars
<1> QED BY <1>2, <1>3, <1>4, <1>5 DEF PolicyInv

LEMMA PlainMoves ==
  ASSUME PolicyInv, NEW t \in Threads, UNCHANGED scope,
         BeginAcquire(t) \/ AcquireAborted(t) \/ Grant(t)
  PROVE  PolicyInv'
<1>1. PICK s \in {"refused", "waiting", "granted"} :
        /\ Goto(t, s) /\ UNCHANGED <<coordVars, delay, result, requests, rest, log, late>>
        /\ state[t] \in HolderStates <=> s \in HolderStates
        /\ s = "granted" => stopReason[HostOf[t]] = "" /\ delay[t] = 0
  BY DEF BeginAcquire, AcquireAborted, Grant, HolderStates
<1>2. UNCHANGED <<permits, streak, stopReason, nextAllowed>>
  BY <1>1 DEF coordVars
<1>3. s \in ThreadStates
  BY DEF ThreadStates
<1>4. /\ state'[t] = s
      /\ \A u \in Threads : u # t => state'[u] = state[u]
  BY <1>1, <1>3, GoTo DEF PolicyInv
<1>5. PermitsConserved'
  BY <1>1, <1>2, <1>4, PermitsStay DEF PolicyInv
<1>6. SlotsSpaced'
  BY <1>1, <1>2, <1>4, SlotsStay DEF PolicyInv, Sleeping
<1>7. permits' \in [Hosts -> 0..PerHostWorkers] /\ nextAllowed' \in [Hosts -> Nat] /\ delay' \in [Threads -> Nat]
  BY <1>1, <1>2 DEF PolicyInv, TypeOK
<1> QED BY <1>1, <1>2, <1>3, <1>5, <1>6, <1>7, MoveKeeps

LEMMA TakeKeeps ==
  ASSUME PolicyInv, NEW t \in Threads, UNCHANGED scope, TakePermit(t)
  PROVE  PolicyInv'
<1>1. Goto(t, "holding") /\ "holding" \in ThreadStates /\ "holding" \in HolderStates
  BY DEF TakePermit, ThreadStates, HolderStates
<1>2. state'[t] = "holding" /\ \A u \in Threads : u # t => state'[u] = state[u]
  BY <1>1, GoTo DEF PolicyInv
<1>3. permits' \in [Hosts -> 0..PerHostWorkers] /\ PermitsConserved'
  BY <1>1, PermitTaken DEF PolicyInv, TakePermit, HolderStates
<1>4. SlotsSpaced'
  BY <1>2, SlotsStay DEF PolicyInv, Sleeping, TakePermit
<1>5. nextAllowed' \in [Hosts -> Nat] /\ delay' \in [Threads -> Nat]
  BY DEF PolicyInv, TypeOK, TakePermit
<1> QED BY <1>1, <1>3, <1>4, <1>5, MoveKeeps DEF TakePermit

\* Every step that gives the permit back, without recording.
LEMMA ReturnKeeps ==
  ASSUME PolicyInv, NEW t \in Threads, UNCHANGED scope,
         \/ RefuseStopped(t) \/ RefuseAfterPacing(t) \/ GiveUp(t)
         \/ ReleaseRecorded(t) \/ ReleaseAnswered(t)
  PROVE  PolicyInv'
<1>1. PICK s \in {"refused", "idle", "released"} :
        /\ Goto(t, s) /\ GiveBack(HostOf[t]) /\ state[t] \in HolderStates
        /\ UNCHANGED <<streak, stopReason, nextAllowed, result, requests, rest, log, late>>
        /\ delay' = delay \/ delay' = [delay EXCEPT ![t] = 0]
        /\ s = "released" => state[t] = "answered" /\ scope = "checkpoint"
  BY DEF RefuseStopped, RefuseAfterPacing, GiveUp, ReleaseRecorded, ReleaseAnswered, HolderStates
<1>2. s \in ThreadStates \ HolderStates
  BY DEF ThreadStates, HolderStates
<1>3. state'[t] = s /\ \A u \in Threads : u # t => state'[u] = state[u]
  BY <1>1, <1>2, GoTo DEF PolicyInv
<1>4. permits' \in [Hosts -> 0..PerHostWorkers] /\ PermitsConserved'
  BY <1>1, <1>2, PermitReturned DEF PolicyInv
<1>5. delay' \in [Threads -> Nat] /\ nextAllowed' \in [Hosts -> Nat]
  <2>1. delay \in [Threads -> Nat] /\ nextAllowed \in [Hosts -> Nat]
    BY DEF PolicyInv, TypeOK
  <2> QED BY <1>1, <2>1
<1>6. \A u \in Threads : u # t => delay'[u] = delay[u]
  BY <1>1 DEF PolicyInv, TypeOK
<1>7. SlotsSpaced'
  <2>1. \A u \in Threads : Sleeping(u)' => Sleeping(u) /\ delay'[u] = delay[u]
    BY <1>3, <1>6 DEF Sleeping
  <2> QED BY <1>1, <2>1, SlotsStay DEF PolicyInv
<1> QED BY <1>1, <1>2, <1>4, <1>5, <1>7, MoveKeeps

LEMMA ReserveKeeps ==
  ASSUME PolicyInv, NEW t \in Threads, UNCHANGED scope, ReserveStart(t)
  PROVE  PolicyInv'
<1>1. PICK h \in Hosts : h = HostOf[t]
  BY PolicyConstants
<1>2. /\ Goto(t, "pacing") /\ delay' = [delay EXCEPT ![t] = nextAllowed[h]]
      /\ nextAllowed' = [nextAllowed EXCEPT ![h] = nextAllowed[h] + MinInterval]
      /\ state[t] = "holding" /\ permits' = permits
      /\ UNCHANGED <<permits, streak, stopReason, result, requests, rest, log, late>>
  BY <1>1 DEF ReserveStart
<1>3. "pacing" \in ThreadStates
  BY DEF ThreadStates
<1>4. state'[t] = "pacing" /\ \A u \in Threads : u # t => state'[u] = state[u]
  BY <1>2, <1>3, GoTo DEF PolicyInv
<1>5. delay \in [Threads -> Nat] /\ nextAllowed \in [Hosts -> Nat] /\ MinInterval \in Nat
  BY PolicyConstants DEF PolicyInv, TypeOK
<1>6. delay' \in [Threads -> Nat] /\ nextAllowed' \in [Hosts -> Nat]
  BY <1>2, <1>5
<1>7. PermitsConserved'
  BY <1>2, <1>4, PermitsStay DEF PolicyInv, HolderStates
<1>8. permits' \in [Hosts -> 0..PerHostWorkers]
  BY <1>2 DEF PolicyInv, TypeOK
<1>9. /\ delay'[t] = nextAllowed[h] /\ \A u \in Threads : u # t => delay'[u] = delay[u]
      /\ nextAllowed'[h] = nextAllowed[h] + MinInterval
      /\ \A g \in Hosts : nextAllowed'[g] >= nextAllowed[g]
  BY <1>2, <1>5
<1>10. \A u \in Threads : u # t /\ Sleeping(u)' => Sleeping(u)
  BY <1>4, <1>9 DEF Sleeping
<1>11. \A u \in Threads : HostOf[u] \in Hosts
  BY PolicyConstants
<1>12. ASSUME NEW u \in Threads, Sleeping(u)'
       PROVE  nextAllowed'[HostOf[u]] >= delay'[u] + MinInterval
  <2>1. CASE u = t
    BY <1>1, <1>5, <1>9, <2>1
  <2>2. CASE u # t
    <3>1. nextAllowed[HostOf[u]] >= delay[u] + MinInterval
      BY <1>10, <1>12, <2>2 DEF PolicyInv, SlotsSpaced
    <3> QED BY <1>5, <1>6, <1>9, <1>11, <2>2, <3>1
  <2> QED BY <2>1, <2>2
<1>13. ASSUME NEW u \in Threads, Sleeping(u), HostOf[u] = h PROVE nextAllowed[h] >= delay[u] + MinInterval
  BY <1>13 DEF PolicyInv, SlotsSpaced
<1>14. ASSUME NEW u \in Threads, NEW v \in Threads \ {u}, Sleeping(u)', Sleeping(v)', HostOf[u] = HostOf[v]
       PROVE  delay'[u] >= delay'[v] + MinInterval \/ delay'[v] >= delay'[u] + MinInterval
  <2>1. CASE u = t
    BY <1>1, <1>9, <1>10, <1>13, <1>14, <2>1
  <2>2. CASE v = t
    BY <1>1, <1>9, <1>10, <1>13, <1>14, <2>2
  <2>3. CASE u # t /\ v # t
    <3>1. delay[u] >= delay[v] + MinInterval \/ delay[v] >= delay[u] + MinInterval
      BY <1>10, <1>14, <2>3 DEF PolicyInv, SlotsSpaced
    <3> QED BY <1>9, <2>3, <3>1
  <2> QED BY <2>1, <2>2, <2>3
<1>15. SlotsSpaced'
  BY <1>12, <1>14 DEF SlotsSpaced
<1> QED BY <1>2, <1>3, <1>6, <1>7, <1>8, <1>15, MoveKeeps
LEMMA RequestKeeps ==
  ASSUME PolicyInv, NEW t \in Threads, UNCHANGED scope, Request(t)
  PROVE  PolicyInv'
<1>1. PICK h \in Hosts : h = HostOf[t]
  BY PolicyConstants
<1>2. PICK a \in Answers : result' = [result EXCEPT ![t] = a]
  BY DEF Request
<1>3. /\ Goto(t, "answered") /\ "answered" \in ThreadStates /\ state[t] = "granted"
      /\ late' = [late EXCEPT ![h] = IF stopReason[h] = "" THEN late[h] ELSE late[h] + 1]
      /\ requests' = [requests EXCEPT ![t] = requests[t] + 1]
      /\ UNCHANGED <<permits, streak, stopReason, nextAllowed, delay, log>>
      /\ UNCHANGED <<abort, dispatches, persisted, stale, overwritten>>
  BY <1>1 DEF Request, ThreadStates, coordVars, rest, runVars
<1>4. /\ state' \in [Threads -> ThreadStates] /\ state'[t] = "answered"
      /\ \A u \in Threads : u # t => state'[u] = state[u]
  BY <1>3, GoTo DEF PolicyInv
<1>5. /\ late \in [Hosts -> Nat] /\ result \in [Threads -> Results \cup {None}] /\ requests \in [Threads -> Nat]
      /\ a \in Results
  BY PolicyConstants DEF PolicyInv, TypeOK
<1>6. late' \in [Hosts -> Nat]
  <2>1. PICK e : e = IF stopReason[h] = "" THEN late[h] ELSE late[h] + 1
    OBVIOUS
  <2>2. e \in Nat
    <3>1. late[h] \in Nat /\ late[h] + 1 \in Nat
      BY <1>5
    <3> QED BY <2>1, <3>1
  <2>3. late' = [late EXCEPT ![h] = e]
    BY <1>3, <2>1
  <2> QED BY ONLY <1>5, <2>2, <2>3
<1>7. requests' \in [Threads -> Nat]
  <2>1. requests[t] + 1 \in Nat
    BY <1>5
  <2>2. requests' = [requests EXCEPT ![t] = requests[t] + 1]
    BY <1>3
  <2> QED BY ONLY <1>5, <2>1, <2>2
<1>8. /\ result' \in [Threads -> Results \cup {None}]
      /\ result'[t] \in Results /\ \A u \in Threads : u # t => result'[u] = result[u]
  BY <1>2, <1>5
<1>9. TypeOK'
  BY <1>3, <1>4, <1>6, <1>7, <1>8 DEF PolicyInv, TypeOK
<1>10. AnswerOK'
  BY <1>4, <1>8 DEF PolicyInv, AnswerOK
<1>11. PermitsConserved'
  BY <1>3, <1>4, PermitsStay DEF PolicyInv, HolderStates
<1>12. SlotsSpaced'
  BY <1>3, <1>4, SlotsStay DEF PolicyInv, Sleeping
<1>13. AllMatch'
  BY <1>3, MatchStays DEF PolicyInv
<1>14. ASSUME NEW g \in Hosts
       PROVE  IF stopReason[g] = "" THEN late'[g] = 0 ELSE late'[g] + Cardinality(Granted(g)') <= LateBound
  <2>1. /\ stopReason[g] = "" => late[g] = 0
        /\ stopReason[g] # "" => late[g] + Cardinality(Granted(g)) <= LateBound
    BY DEF PolicyInv, LateOK
  <2>2. late'[g] = IF g = h /\ stopReason[h] # "" THEN late[g] + 1 ELSE late[g]
    BY <1>3, <1>5
  <2>3. CASE g = h
    <3>1. t \in Granted(g) /\ Granted(g)' = Granted(g) \ {t}
      BY <1>1, <1>3, <1>4, <2>3 DEF Granted
    <3>2. Cardinality(Granted(g) \ {t}) = Cardinality(Granted(g)) - 1
      BY <3>1, HolderSets, FS_RemoveElement
    <3>3. Cardinality(Granted(g)) \in Nat /\ late[g] \in Nat
      BY <1>5, HolderSets
    <3>4. Cardinality(Granted(g)') = Cardinality(Granted(g)) - 1
      BY <3>1, <3>2
    <3>5. CASE stopReason[g] = ""
      BY <2>1, <2>2, <2>3, <3>5
    <3>6. CASE stopReason[g] # ""
      <4>1. late'[g] = late[g] + 1
        BY <2>2, <2>3, <3>6
      <4>2. late'[g] + Cardinality(Granted(g)') = late[g] + Cardinality(Granted(g))
        BY ONLY <3>3, <3>4, <4>1
      <4> QED BY <2>1, <3>6, <4>2
    <3> QED BY <3>5, <3>6
  <2>4. CASE g # h
    <3>1. Granted(g)' = Granted(g)
      BY <1>1, <1>3, <1>4, <2>4 DEF Granted
    <3> QED BY <2>1, <2>2, <2>4, <3>1
  <2> QED BY <2>3, <2>4
<1>15. LateOK'
  BY <1>3, <1>14 DEF LateOK, LateBound
<1> QED BY <1>9, <1>10, <1>11, <1>12, <1>13, <1>15 DEF PolicyInv

\* What an outcome does to its host: the counters follow the history, and a stop
\* is for a run that has reached its threshold.
LEMMA OutcomeMatches ==
  ASSUME TypeOK, AllMatch, NEW h \in Hosts, NEW r \in Results, RecordOutcome(h, r)
  PROVE  /\ streak' \in [Hosts -> [FailureKinds -> Nat]]
         /\ stopReason' \in [Hosts -> FailureKinds \cup {""}]
         /\ log' \in [Hosts -> Seq(Results)]
         /\ \A g \in Hosts : CountsMatch(streak[g], stopReason[g], log[g])'
         /\ \A g \in Hosts : g # h \/ stopReason[h] # "" => stopReason'[g] = stopReason[g]
<1>0. /\ streak \in [Hosts -> [FailureKinds -> Nat]]
      /\ stopReason \in [Hosts -> FailureKinds \cup {""}]
      /\ log \in [Hosts -> Seq(Results)]
      /\ \A g \in Hosts : CountsMatch(streak[g], stopReason[g], log[g])
  BY DEF TypeOK, AllMatch
<1>1. CASE UNCHANGED <<streak, stopReason, log>>
  BY <1>0, <1>1
<1>2. CASE /\ stopReason[h] = ""
           /\ streak' = [streak EXCEPT ![h] = NewStreak(h, r)]
           /\ stopReason' = [stopReason EXCEPT ![h] =
                 IF r \in FailureKinds /\ Threshold[r] > 0 /\ NewStreak(h, r)[r] >= Threshold[r] THEN r ELSE ""]
           /\ log' = [log EXCEPT ![h] = Append(@, r)]
  <2>1. PICK ns : ns = NewStreak(h, r)
    OBVIOUS
  <2>2. PICK stop : stop = IF r \in FailureKinds /\ Threshold[r] > 0 /\ ns[r] >= Threshold[r] THEN r ELSE ""
    OBVIOUS
  <2>3. PICK lg : lg = log[h]
    OBVIOUS
  <2>4. lg \in Seq(Results) /\ Append(lg, r) \in Seq(Results)
    <3>1. lg \in Seq(Results)
      BY <1>0, <2>3
    <3> QED BY ONLY <3>1, r \in Results
  <2>5. ns \in [FailureKinds -> Nat] /\ \A k \in FailureKinds : ns[k] = IF k = r THEN streak[h][k] + 1 ELSE 0
    <3>1. ns = [k \in FailureKinds |-> IF k = r THEN streak[h][k] + 1 ELSE 0]
      BY <2>1 DEF NewStreak
    <3>2. \A k \in FailureKinds : streak[h][k] \in Nat
      BY <1>0
    <3>3. \A k \in FailureKinds : (IF k = r THEN streak[h][k] + 1 ELSE 0) \in Nat
      BY <3>2
    <3> QED BY ONLY <3>1, <3>3
  <2>6. stop \in FailureKinds \cup {""}
    BY <2>2
  <2>7. /\ streak' = [streak EXCEPT ![h] = ns] /\ stopReason' = [stopReason EXCEPT ![h] = stop]
        /\ log' = [log EXCEPT ![h] = Append(lg, r)]
    BY <1>2, <2>1, <2>2, <2>3
  <2>8. CountsMatch(ns, stop, Append(lg, r))
    <3>1. ASSUME NEW k \in FailureKinds
          PROVE  /\ ns[k] = TrailingRun(Append(lg, r), k)
                 /\ stop = k <=> (Threshold[k] > 0 /\ ns[k] >= Threshold[k])
      <4>1. TrailingRun(Append(lg, r), k) = IF k = r THEN TrailingRun(lg, k) + 1 ELSE 0
        BY <2>4, TrailingAppend
      <4>2. streak[h][k] = TrailingRun(lg, k)
        BY <1>0, <2>3 DEF CountsMatch
      <4>3. ns[k] = TrailingRun(Append(lg, r), k)
        BY <2>5, <4>1, <4>2
      <4>4. Threshold[k] \in Nat
        BY PolicyConstants
      <4>5. k # "" /\ k # "success"
        BY DEF FailureKinds
      <4>6. k # r => ns[k] = 0
        BY <2>5
      <4>7. stop = k <=> (Threshold[k] > 0 /\ ns[k] >= Threshold[k])
        <5>1. CASE k = r
          BY <2>2, <4>5, <5>1
        <5>2. CASE k # r
          <6>1. ~ (Threshold[k] > 0 /\ ns[k] >= Threshold[k])
            BY <4>4, <4>6, <5>2
          <6>2. stop # k
            BY <2>2, <4>5, <5>2
          <6> QED BY <6>1, <6>2
        <5> QED BY <5>1, <5>2
      <4> QED BY <4>3, <4>7
    <3> QED BY <3>1 DEF CountsMatch
  <2>9. \A g \in Hosts : CountsMatch(streak'[g], stopReason'[g], log'[g])
    <3>1. SUFFICES ASSUME NEW g \in Hosts PROVE CountsMatch(streak'[g], stopReason'[g], log'[g])
      OBVIOUS
    <3>2. CASE g = h
      <4>1. streak'[g] = ns /\ stopReason'[g] = stop /\ log'[g] = Append(lg, r)
        BY <1>0, <2>7, <3>2
      <4> QED BY <2>8, <4>1
    <3>3. CASE g # h
      <4>1. streak'[g] = streak[g] /\ stopReason'[g] = stopReason[g] /\ log'[g] = log[g]
        BY <1>0, <2>7, <3>3
      <4> QED BY <1>0, <4>1
    <3> QED BY <3>2, <3>3
  <2>10. streak' \in [Hosts -> [FailureKinds -> Nat]] /\ stopReason' \in [Hosts -> FailureKinds \cup {""}]
    BY <1>0, <2>5, <2>6, <2>7
  <2>11. log' \in [Hosts -> Seq(Results)]
    BY <1>0, <2>4, <2>7
  <2>12. \A g \in Hosts : g # h \/ stopReason[h] # "" => stopReason'[g] = stopReason[g]
    BY <1>0, <1>2, <2>7
  <2>13. \A g \in Hosts : CountsMatch(streak[g], stopReason[g], log[g])'
    BY <2>9 DEF CountsMatch
  <2> QED BY <2>10, <2>11, <2>12, <2>13
<1> QED BY <1>1, <1>2 DEF RecordOutcome
LEMMA HostStateMatches ==
  ASSUME TypeOK, AllMatch PROVE HostState \in HostStates /\ StateMatches(HostState)
<1>1. HostState \in HostStates
  BY DEF TypeOK, HostStates, HostState
<1>2. \A h \in Hosts : /\ HostState[h].streak = streak[h] /\ HostState[h].stopReason = stopReason[h]
                       /\ HostState[h].log = log[h]
  BY DEF HostState
<1> QED BY <1>1, <1>2 DEF AllMatch, StateMatches

\* An outcome in either scope: the recorder still holds its permit, or has
\* given it back.
LEMMA RecordKeeps ==
  ASSUME PolicyInv, NEW t \in Threads, UNCHANGED scope, RecordHolding(t) \/ RecordReleased(t)
  PROVE  PolicyInv'
<1>1. PICK h \in Hosts : h = HostOf[t]
  BY PolicyConstants
<1>2. PICK r : r = result[t]
  OBVIOUS
<1>3. PICK s \in {"recorded", "idle"} :
        /\ Goto(t, s) /\ RecordOutcome(h, r) /\ result' = [result EXCEPT ![t] = None]
        /\ state[t] \in {"answered", "released"}
        /\ s = "recorded" => state[t] = "answered" /\ scope = "request"
        /\ s = "idle" => state[t] = "released"
        /\ UNCHANGED <<permits, nextAllowed, delay, requests, rest, late>>
  BY <1>1, <1>2 DEF RecordHolding, RecordReleased
<1>4. s \in ThreadStates
  BY DEF ThreadStates
<1>5. /\ state' \in [Threads -> ThreadStates] /\ state'[t] = s
      /\ \A u \in Threads : u # t => state'[u] = state[u]
  BY <1>3, <1>4, GoTo DEF PolicyInv
<1>6. r \in Results
  BY <1>2, <1>3 DEF PolicyInv, AnswerOK
<1>7. /\ streak' \in [Hosts -> [FailureKinds -> Nat]]
      /\ stopReason' \in [Hosts -> FailureKinds \cup {""}]
      /\ log' \in [Hosts -> Seq(Results)]
      /\ \A g \in Hosts : CountsMatch(streak[g], stopReason[g], log[g])'
      /\ \A g \in Hosts : g # h \/ stopReason[h] # "" => stopReason'[g] = stopReason[g]
  BY <1>3, <1>6, OutcomeMatches DEF PolicyInv
<1>8. UNCHANGED <<permits, nextAllowed, delay, requests, abort, dispatches, persisted, stale, overwritten, late>>
  BY <1>3 DEF rest, runVars
<1>9. result' \in [Threads -> Results \cup {None}] /\ \A u \in Threads : u # t => result'[u] = result[u]
  BY <1>3 DEF PolicyInv, TypeOK
<1>10. TypeOK'
  BY <1>5, <1>7, <1>8, <1>9 DEF PolicyInv, TypeOK
<1>11. AnswerOK'
  BY <1>5, <1>9 DEF PolicyInv, AnswerOK
<1>12. PermitsConserved'
  BY <1>3, <1>5, <1>8, PermitsStay DEF PolicyInv, HolderStates
<1>13. SlotsSpaced'
  BY <1>5, <1>8, SlotsStay DEF PolicyInv, Sleeping
<1>14. AllMatch'
  <2>1. StateMatches(persisted)' /\ (stale' # None => StateMatches(stale)')
    BY <1>8 DEF PolicyInv, AllMatch, StateMatches, CountsMatch
  <2> QED BY <1>7, <2>1 DEF AllMatch
<1>15. ASSUME NEW g \in Hosts
       PROVE  IF stopReason'[g] = "" THEN late'[g] = 0 ELSE late'[g] + Cardinality(Granted(g)') <= LateBound
  <2>1. /\ stopReason[g] = "" => late[g] = 0
        /\ stopReason[g] # "" => late[g] + Cardinality(Granted(g)) <= LateBound
    BY DEF PolicyInv, LateOK
  <2>2. Granted(g)' = Granted(g) /\ late'[g] = late[g]
    BY <1>3, <1>5, <1>8 DEF Granted
  <2>3. CASE stopReason'[g] = stopReason[g]
    BY <2>1, <2>2, <2>3
  <2>4. CASE stopReason'[g] # stopReason[g]
    <3>1. g = h /\ stopReason[g] = ""
      BY <1>7, <2>4
    <3>2. permits[g] + Cardinality(Holders(g)) = PerHostWorkers /\ permits[g] \in Nat
      <4>1. permits \in [Hosts -> 0..PerHostWorkers]
        BY DEF PolicyInv, TypeOK
      <4>2. permits[g] \in Nat
        BY <4>1
      <4> QED BY <4>2 DEF PolicyInv, PermitsConserved
    <3>3. Cardinality(Granted(g)) <= LateBound
      <4>1. /\ Cardinality(Granted(g)) \in Nat /\ Cardinality(Holders(g)) \in Nat
            /\ Cardinality(Granted(g)) <= Cardinality(Holders(g))
        BY HolderSets
      <4>2. PerHostWorkers \in Nat
        BY PolicyConstants
      <4>3. Cardinality(Granted(g)) <= PerHostWorkers
        BY ONLY <3>2, <4>1, <4>2
      <4>4. CASE s = "recorded"
        <5>1. t \in Holders(g) /\ Granted(g) \subseteq Holders(g) \ {t}
          BY <1>1, <1>3, <3>1, <4>4 DEF Holders, Granted
        <5>2. IsFiniteSet(Holders(g) \ {t}) /\ Cardinality(Holders(g) \ {t}) = Cardinality(Holders(g)) - 1
          BY <5>1, HolderSets, FS_RemoveElement
        <5>3. Cardinality(Granted(g)) <= Cardinality(Holders(g)) - 1
          BY <5>1, <5>2, FS_Subset
        <5>4. Cardinality(Granted(g)) <= PerHostWorkers - 1
          BY ONLY <3>2, <4>1, <4>2, <5>3
        <5> QED BY <1>3, <4>4, <5>4 DEF LateBound
      <4>5. CASE s = "idle"
        <5>1. scope = "checkpoint"
          BY <1>3, <4>5 DEF PolicyInv, AnswerOK
        <5> QED BY <4>3, <5>1 DEF LateBound
      <4> QED BY <4>4, <4>5
    <3>4. late'[g] = 0
      BY <2>1, <2>2, <3>1
    <3>5. late'[g] + Cardinality(Granted(g)') = Cardinality(Granted(g))
      BY <2>2, <3>4, HolderSets
    <3> QED BY <2>4, <3>1, <3>3, <3>4, <3>5
  <2> QED BY <2>3, <2>4
<1>16. LateOK'
  BY <1>15 DEF LateOK, LateBound
<1> QED BY <1>10, <1>11, <1>12, <1>13, <1>14, <1>16 DEF PolicyInv

-----------------------------------------------------------------------------
(* The steps around the threads.                                           *)

LEMMA TickKeeps == ASSUME PolicyInv, UNCHANGED scope, Tick PROVE PolicyInv'
<1>1. /\ delay \in [Threads -> Nat] /\ nextAllowed \in [Hosts -> Nat] /\ MinInterval \in Nat
      /\ \A t \in Threads : HostOf[t] \in Hosts
  BY PolicyConstants DEF PolicyInv, TypeOK
<1>2. \A n \in Nat : Earlier(n) \in Nat /\ (n > 0 => Earlier(n) = n - 1) /\ (n = 0 => Earlier(n) = 0)
  BY DEF Earlier
<1>3. /\ \A t \in Threads : delay'[t] = Earlier(delay[t])
      /\ \A h \in Hosts : nextAllowed'[h] = Earlier(nextAllowed[h])
  BY DEF Tick
<1>4. delay' \in [Threads -> Nat] /\ nextAllowed' \in [Hosts -> Nat]
  BY <1>1, <1>2 DEF Tick
<1>5. /\ UNCHANGED <<permits, streak, stopReason, state, result, requests, log, late>>
      /\ UNCHANGED <<abort, dispatches, persisted, stale, overwritten>>
  BY DEF Tick, rest, runVars
<1>6. TypeOK'
  BY <1>4, <1>5 DEF PolicyInv, TypeOK
<1>7. AnswerOK' /\ AllMatch'
  BY <1>5, MatchStays DEF PolicyInv, AnswerOK
<1>8. PermitsConserved'
  BY <1>5, PermitsStay DEF PolicyInv
<1>9. LateOK'
  BY <1>5, LateStays DEF PolicyInv
<1>10. \A t \in Threads : Sleeping(t)' => Sleeping(t) /\ delay[t] > 1 /\ delay'[t] = delay[t] - 1
  BY <1>1, <1>2, <1>3, <1>5 DEF Sleeping
<1>11. ASSUME NEW t \in Threads, Sleeping(t)' PROVE nextAllowed'[HostOf[t]] >= delay'[t] + MinInterval
  <2>1. nextAllowed[HostOf[t]] >= delay[t] + MinInterval
    BY <1>10, <1>11 DEF PolicyInv, SlotsSpaced
  <2>2. nextAllowed'[HostOf[t]] = nextAllowed[HostOf[t]] - 1
    BY <1>1, <1>2, <1>3, <1>10, <1>11, <2>1
  <2> QED BY <1>1, <1>10, <1>11, <2>1, <2>2
<1>12. ASSUME NEW u \in Threads, NEW v \in Threads \ {u}, Sleeping(u)', Sleeping(v)', HostOf[u] = HostOf[v]
       PROVE  delay'[u] >= delay'[v] + MinInterval \/ delay'[v] >= delay'[u] + MinInterval
  <2>1. delay[u] >= delay[v] + MinInterval \/ delay[v] >= delay[u] + MinInterval
    BY <1>10, <1>12 DEF PolicyInv, SlotsSpaced
  <2> QED BY <1>1, <1>10, <1>12, <2>1
<1>13. SlotsSpaced'
  BY <1>11, <1>12 DEF SlotsSpaced
<1> QED BY <1>6, <1>7, <1>8, <1>9, <1>13 DEF PolicyInv

LEMMA RunKeeps ==
  ASSUME PolicyInv, UNCHANGED scope, Abort \/ Snapshot \/ StaleSnapshot \/ UNCHANGED vars
  PROVE  PolicyInv'
<1>1. UNCHANGED <<permits, streak, stopReason, nextAllowed, state, delay, result, requests, log, late>>
  BY DEF Abort, Snapshot, StaleSnapshot, vars, coordVars, threadVars
<1>2. PICK hs : hs = HostState
  OBVIOUS
<1>3. hs \in HostStates /\ StateMatches(hs)
  BY <1>2, HostStateMatches DEF PolicyInv
<1>4. /\ \/ UNCHANGED <<persisted, stale>>
         \/ persisted' = hs /\ stale' = stale
         \/ stale # None /\ persisted' = stale /\ stale' = None
      /\ dispatches' = dispatches /\ (abort' = abort \/ abort' = TRUE) /\ (overwritten' = overwritten \/ overwritten' = TRUE)
  BY <1>2 DEF Abort, Snapshot, StaleSnapshot, vars, runVars
<1>5. TypeOK'
  BY <1>1, <1>3, <1>4 DEF PolicyInv, TypeOK
<1>6. AllMatch'
  <2>1. \A h \in Hosts : CountsMatch(streak[h], stopReason[h], log[h])'
    BY <1>1 DEF PolicyInv, AllMatch, CountsMatch
  <2>2. PICK p, q : p = persisted' /\ q = stale'
    OBVIOUS
  <2>3. StateMatches(p) /\ (q # None => StateMatches(q))
    BY <1>3, <1>4, <2>2 DEF PolicyInv, AllMatch
  <2> QED BY <2>1, <2>2, <2>3 DEF AllMatch, StateMatches, CountsMatch
<1>7. AnswerOK' /\ PermitsConserved' /\ SlotsSpaced'
  BY <1>1, PermitsStay, SlotsStay DEF PolicyInv, AnswerOK, Sleeping
<1>8. LateOK'
  BY <1>1, LateStays DEF PolicyInv
<1> QED BY <1>5, <1>6, <1>7, <1>8 DEF PolicyInv
\* A new dispatch: fresh permits and slots, and the counters of host_state.
LEMMA RedispatchKeeps == ASSUME PolicyInv, UNCHANGED scope, Redispatch PROVE PolicyInv'
<1>1. /\ permits' = [h \in Hosts |-> PerHostWorkers] /\ nextAllowed' = [h \in Hosts |-> 0]
      /\ state' = [t \in Threads |-> "idle"] /\ delay' = [t \in Threads |-> 0]
      /\ result' = [t \in Threads |-> None] /\ late' = [h \in Hosts |-> 0]
      /\ requests' = requests /\ persisted' = persisted /\ overwritten' = overwritten
      /\ abort' = FALSE /\ dispatches' = dispatches + 1
  BY DEF Redispatch
<1>2. /\ streak' = [h \in Hosts |-> persisted[h].streak]
      /\ stopReason' = [h \in Hosts |-> persisted[h].stopReason]
      /\ log' = [h \in Hosts |-> persisted[h].log]
  BY DEF Redispatch, Reload
<1>3. \A h \in Hosts : /\ persisted[h].streak \in [FailureKinds -> Nat]
                       /\ persisted[h].stopReason \in FailureKinds \cup {""}
                       /\ persisted[h].log \in Seq(Results)
  BY DEF PolicyInv, TypeOK, HostStates
<1>4. /\ streak' \in [Hosts -> [FailureKinds -> Nat]]
      /\ stopReason' \in [Hosts -> FailureKinds \cup {""}]
  BY <1>2, <1>3
<1>5. log' \in [Hosts -> Seq(Results)]
  BY <1>2, <1>3
<1>6. PICK hs : hs = HostState
  OBVIOUS
<1>7. hs \in HostStates /\ StateMatches(hs) /\ (stale' = None \/ stale' = hs)
  BY <1>6, HostStateMatches DEF PolicyInv, Redispatch
<1>8. PerHostWorkers \in Nat
  BY PolicyConstants
<1>9. /\ permits' \in [Hosts -> 0..PerHostWorkers] /\ nextAllowed' \in [Hosts -> Nat]
      /\ delay' \in [Threads -> Nat] /\ late' \in [Hosts -> Nat]
  BY <1>1, <1>8
<1>10. state' \in [Threads -> ThreadStates] /\ result' \in [Threads -> Results \cup {None}]
  BY <1>1 DEF ThreadStates
<1>11. dispatches' \in Nat
  <2>1. dispatches \in Nat
    BY DEF PolicyInv, TypeOK
  <2> QED BY <1>1, <2>1
<1>12. TypeOK'
  BY <1>1, <1>4, <1>5, <1>7, <1>9, <1>10, <1>11 DEF PolicyInv, TypeOK
<1>13. AnswerOK'
  BY <1>1 DEF AnswerOK
<1>14. \A h : Holders(h)' = {} /\ Granted(h)' = {}
  BY <1>1 DEF Holders, Granted
<1>15. Cardinality({}) = 0
  BY FS_EmptySet
<1>16. PermitsConserved'
  BY <1>1, <1>8, <1>14, <1>15 DEF PermitsConserved
<1>17. SlotsSpaced'
  BY <1>1 DEF SlotsSpaced, Sleeping
<1>18. LateOK'
  <2>1. LateBound' = LateBound /\ 0 + 0 <= LateBound
    <3>1. PerHostWorkers > 0
      BY PolicyConstants
    <3>2. 0 <= PerHostWorkers - 1 /\ 0 <= PerHostWorkers
      BY ONLY <1>8, <3>1
    <3> QED BY <3>2 DEF LateBound
  <2>2. \A h \in Hosts : late'[h] = 0 /\ Cardinality(Granted(h)') = 0
    BY <1>1, <1>14, <1>15
  <2> QED BY <2>1, <2>2 DEF LateOK
<1>19. AllMatch'
  <2>1. \A h \in Hosts : CountsMatch(persisted[h].streak, persisted[h].stopReason, persisted[h].log)
    BY DEF PolicyInv, AllMatch, StateMatches
  <2>2. \A h \in Hosts : /\ streak'[h] = persisted[h].streak /\ stopReason'[h] = persisted[h].stopReason
                         /\ log'[h] = persisted[h].log
    BY <1>2
  <2>3. \A h \in Hosts : CountsMatch(streak[h], stopReason[h], log[h])'
    BY <2>1, <2>2 DEF CountsMatch
  <2>4. StateMatches(persisted)'
    BY <1>1, <2>1 DEF StateMatches, CountsMatch
  <2>5. stale' # None => StateMatches(stale)'
    BY <1>7 DEF StateMatches, CountsMatch
  <2> QED BY <2>3, <2>4, <2>5 DEF AllMatch
<1> QED BY <1>12, <1>13, <1>16, <1>17, <1>18, <1>19 DEF PolicyInv

LEMMA InitPolicy == Init => PolicyInv
<1> SUFFICES ASSUME Init PROVE PolicyInv
  OBVIOUS
<1>1. /\ permits = [h \in Hosts |-> PerHostWorkers] /\ nextAllowed = [h \in Hosts |-> 0]
      /\ state = [t \in Threads |-> "idle"] /\ delay = [t \in Threads |-> 0]
      /\ result = [t \in Threads |-> None] /\ late = [h \in Hosts |-> 0]
      /\ requests = [t \in Threads |-> 0]
      /\ streak = [h \in Hosts |-> Fresh] /\ stopReason = [h \in Hosts |-> ""] /\ log = [h \in Hosts |-> << >>]
      /\ persisted = [h \in Hosts |-> [streak |-> Fresh, stopReason |-> "", log |-> << >>]]
      /\ stale = None /\ overwritten = FALSE /\ abort = FALSE /\ dispatches = 0
      /\ scope \in {"request", "checkpoint"}
  BY DEF Init
<1>2. Fresh \in [FailureKinds -> Nat] /\ \A k \in FailureKinds : Fresh[k] = 0
  BY DEF Fresh
<1>3. << >> \in Seq(Results)
  OBVIOUS
<1>4. persisted \in HostStates
  BY <1>1, <1>2, <1>3 DEF HostStates
<1>5. PerHostWorkers \in Nat /\ PerHostWorkers > 0
  BY PolicyConstants
<1>6. /\ permits \in [Hosts -> 0..PerHostWorkers] /\ nextAllowed \in [Hosts -> Nat] /\ delay \in [Threads -> Nat]
      /\ late \in [Hosts -> Nat] /\ requests \in [Threads -> Nat]
  <2>1. PerHostWorkers \in 0..PerHostWorkers /\ 0 \in Nat
    BY <1>5
  <2> QED BY <1>1, <2>1
<1>7. /\ state \in [Threads -> ThreadStates] /\ result \in [Threads -> Results \cup {None}]
      /\ streak \in [Hosts -> [FailureKinds -> Nat]] /\ stopReason \in [Hosts -> FailureKinds \cup {""}]
  BY <1>1, <1>2 DEF ThreadStates
<1>8. log \in [Hosts -> Seq(Results)]
  BY <1>1, <1>3
<1>9. TypeOK
  BY <1>1, <1>4, <1>6, <1>7, <1>8 DEF TypeOK
<1>10. AnswerOK /\ SlotsSpaced
  BY <1>1 DEF AnswerOK, SlotsSpaced, Sleeping
<1>11. PermitsConserved
  <2>1. Cardinality({}) = 0
    BY FS_EmptySet
  <2>2. \A h : Holders(h) = {}
    BY <1>1 DEF Holders
  <2>3. \A h \in Hosts : permits[h] = PerHostWorkers /\ Cardinality(Holders(h)) = 0
    BY <1>1, <2>1, <2>2
  <2>4. PerHostWorkers + 0 = PerHostWorkers
    BY <1>5
  <2> QED BY <2>3, <2>4 DEF PermitsConserved
<1>12. LateOK
  BY <1>1 DEF LateOK
<1>13. CountsMatch(Fresh, "", << >>)
  <2>1. ASSUME NEW k \in FailureKinds
        PROVE  /\ Fresh[k] = TrailingRun(<< >>, k)
               /\ "" = k <=> (Threshold[k] > 0 /\ TrailingRun(<< >>, k) >= Threshold[k])
    <3>1. TrailingRun(<< >>, k) = 0
      BY TrailingNone
    <3>2. Threshold[k] \in Nat
      BY PolicyConstants
    <3>3. k # ""
      BY DEF FailureKinds
    <3>4. ~ (Threshold[k] > 0 /\ 0 >= Threshold[k])
      BY ONLY <3>2
    <3> QED BY <1>2, <3>1, <3>3, <3>4
  <2> QED BY <2>1 DEF CountsMatch
<1>14. AllMatch
  BY <1>1, <1>13 DEF AllMatch, StateMatches
<1> QED BY <1>9, <1>10, <1>11, <1>12, <1>14 DEF PolicyInv

LEMMA NextPolicy == PolicyInv /\ [Next]_vars => PolicyInv'
<1> SUFFICES ASSUME PolicyInv, [Next]_vars PROVE PolicyInv'
  OBVIOUS
<1>1. UNCHANGED scope
  BY DEF Next, vars
<1>2. ASSUME NEW t \in Threads, BeginAcquire(t) \/ ThreadStep(t) PROVE PolicyInv'
  BY <1>1, <1>2, PlainMoves, TakeKeeps, ReturnKeeps, ReserveKeeps, RequestKeeps, RecordKeeps DEF ThreadStep
<1>3. CASE Tick \/ Redispatch
  BY <1>1, <1>3, TickKeeps, RedispatchKeeps
<1>4. CASE Abort \/ Snapshot \/ StaleSnapshot \/ UNCHANGED vars
  BY <1>1, <1>4, RunKeeps
<1> QED BY <1>2, <1>3, <1>4 DEF Next

\* For any threads, hosts, thresholds and dispatches, in either scope: permits are
\* taken and returned exactly once, start slots lie min_interval_ms apart, a
\* stopped host gets no more requests than were granted already, and the counters
\* follow the host's history over every dispatch (HostPolicyCoordinator).
THEOREM CoordinatorIsSound == Spec => []CoordinatorSound
<1>1. PolicyInv => CoordinatorSound
  <2> SUFFICES ASSUME PolicyInv PROVE CoordinatorSound
    OBVIOUS
  <2>1. LateRequestsBounded
    <3> SUFFICES ASSUME NEW h \in Hosts PROVE late[h] <= LateBound
      BY DEF LateRequestsBounded, LateBound
    <3>1. late[h] \in Nat
      BY DEF PolicyInv, TypeOK
    <3>2. Cardinality(Granted(h)) \in Nat
      BY HolderSets
    <3>3. PerHostWorkers \in Nat /\ PerHostWorkers > 0
      BY PolicyConstants
    <3>4. LateBound \in Nat
      BY ONLY <3>3 DEF LateBound
    <3>5. late[h] = 0 \/ late[h] + Cardinality(Granted(h)) <= LateBound
      BY DEF PolicyInv, LateOK
    <3> QED BY ONLY <3>1, <3>2, <3>4, <3>5
  <2>2. StreaksMatchLog
    BY DEF PolicyInv, AllMatch, CountsMatch, StreaksMatchLog
  <2> QED BY <2>1, <2>2 DEF PolicyInv, CoordinatorSound
<1> QED BY <1>1, InitPolicy, NextPolicy, PTL DEF Spec

-----------------------------------------------------------------------------
(* Stops over the dispatches.                                              *)

\* Until a stale worker writes, the coordinator agrees with every stop that
\* host_state has.
StopsAgree ==
    overwritten = FALSE => \A h \in Hosts : persisted[h].stopReason # "" => stopReason[h] = persisted[h].stopReason

LEMMA NextStops == PolicyInv /\ StopsAgree /\ [Next]_vars => StopsAgree'
<1> SUFFICES ASSUME PolicyInv, StopsAgree, [Next]_vars, overwritten' = FALSE,
                    NEW h \in Hosts, persisted'[h].stopReason # ""
             PROVE  stopReason'[h] = persisted'[h].stopReason
  BY DEF StopsAgree
<1>0. overwritten = FALSE
  BY DEF Next, ThreadStep, BeginAcquire, AcquireAborted, TakePermit, RefuseStopped, ReserveStart,
         RefuseAfterPacing, Grant, GiveUp, Request, RecordHolding, ReleaseRecorded, ReleaseAnswered, RecordReleased,
         Tick, Abort, Snapshot, StaleSnapshot, Redispatch, vars, rest, runVars
<1>1. persisted[h].stopReason # "" => stopReason[h] = persisted[h].stopReason
  BY <1>0 DEF StopsAgree
<1>2. CASE UNCHANGED <<stopReason, persisted>>
  BY <1>1, <1>2
<1>3. ASSUME NEW t \in Threads, RecordHolding(t) \/ RecordReleased(t)
      PROVE  stopReason'[h] = persisted'[h].stopReason
  <2>1. PICK g \in Hosts : g = HostOf[t]
    BY PolicyConstants
  <2>2. PICK r : r = result[t]
    OBVIOUS
  <2>3. r \in Results /\ RecordOutcome(g, r) /\ persisted' = persisted
    BY <1>3, <2>1, <2>2 DEF RecordHolding, RecordReleased, PolicyInv, AnswerOK, rest, runVars
  <2>4. g # h \/ stopReason[g] # "" => stopReason'[h] = stopReason[h]
    BY <2>3, OutcomeMatches DEF PolicyInv
  <2> QED BY <1>1, <2>3, <2>4
<1>4. CASE Snapshot
  BY <1>4 DEF Snapshot, HostState, coordVars
<1>5. CASE Redispatch
  BY <1>5 DEF Redispatch, Reload
<1>6. CASE StaleSnapshot
  BY <1>6 DEF StaleSnapshot
<1>7. ASSUME NEW t \in Threads,
             \/ BeginAcquire(t) \/ AcquireAborted(t) \/ TakePermit(t) \/ RefuseStopped(t) \/ ReserveStart(t)
             \/ RefuseAfterPacing(t) \/ Grant(t) \/ GiveUp(t) \/ Request(t) \/ ReleaseRecorded(t) \/ ReleaseAnswered(t)
      PROVE  UNCHANGED <<stopReason, persisted>>
  BY <1>7 DEF BeginAcquire, AcquireAborted, TakePermit, RefuseStopped, ReserveStart, RefuseAfterPacing, Grant,
              GiveUp, Request, ReleaseRecorded, ReleaseAnswered, coordVars, rest, runVars
<1>8. CASE Tick \/ Abort \/ UNCHANGED vars
  BY <1>2, <1>8 DEF Tick, Abort, vars, coordVars, rest, runVars
<1> QED BY <1>2, <1>3, <1>4, <1>5, <1>6, <1>7, <1>8 DEF Next, ThreadStep

\* A stop in host_state outlives every later dispatch of the run, until a worker
\* that has lost its lease writes its own snapshot (_sync_counts).
THEOREM PersistedStops == Spec => PersistedStopStays
<1>1. Init => StopsAgree
  <2> SUFFICES ASSUME Init, NEW h \in Hosts PROVE persisted[h].stopReason = ""
    BY DEF StopsAgree
  <2>1. PICK fresh : /\ persisted = [g \in Hosts |-> fresh]
                     /\ fresh = [streak |-> Fresh, stopReason |-> "", log |-> << >>]
    BY DEF Init
  <2>2. persisted[h] = fresh /\ fresh.stopReason = ""
    BY <2>1
  <2> QED BY <2>2
<1>2. Spec => [](PolicyInv /\ StopsAgree)
  BY <1>1, InitPolicy, NextPolicy, NextStops, PTL DEF Spec
<1>3. PolicyInv /\ StopsAgree /\ [Next]_vars =>
        [~overwritten' => \A h \in Hosts : persisted[h].stopReason # "" =>
            persisted'[h].stopReason = persisted[h].stopReason]_vars
  <2> SUFFICES ASSUME PolicyInv, StopsAgree, Next, ~overwritten', NEW h \in Hosts, persisted[h].stopReason # ""
               PROVE  persisted'[h].stopReason = persisted[h].stopReason
    OBVIOUS
  <2>1. \/ persisted' = persisted /\ overwritten' = overwritten
        \/ Snapshot
        \/ StaleSnapshot
    BY DEF Next, ThreadStep, BeginAcquire, AcquireAborted, TakePermit, RefuseStopped, ReserveStart,
           RefuseAfterPacing, Grant, GiveUp, Request, RecordHolding, ReleaseRecorded, ReleaseAnswered, RecordReleased,
           Tick, Abort, Redispatch, rest, runVars
  <2>2. CASE Snapshot
    <3>1. overwritten = FALSE /\ persisted'[h].stopReason = stopReason[h]
      BY <2>2 DEF Snapshot, HostState, PolicyInv, TypeOK
    <3> QED BY <3>1 DEF StopsAgree
  <2>3. CASE StaleSnapshot
    BY <2>3 DEF StaleSnapshot
  <2> QED BY <2>1, <2>2, <2>3
<1> QED BY <1>2, <1>3, PTL DEF Spec, PersistedStopStays
=============================================================================
