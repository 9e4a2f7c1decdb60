-------------------------- MODULE CredentialProofs --------------------------
\* The services that hold credentials or act with them, proved for every
\* value of the constants: MfaBroker, AuthRepair, UnlockPlan, AiSession,
\* AccountContext, AuthRecipe and AgentAccess.
EXTENDS MfaBroker, AuthRepair, UnlockPlan, AiSession, AccountContext, AuthRecipe, AgentAccess,
        FiniteSetTheorems, TLAPS

-----------------------------------------------------------------------------
(* MfaBroker.  A transaction without a code has accepted none; in memory   *)
(* the waiter holds the accepted code until it looks, and once it is done  *)
(* its transaction can take no other.                                      *)

CodeOK(w) ==
    /\ mfaAccepted[w] = {} \/ \E c \in MfaCodes : mfaAccepted[w] = {c}
    /\ mfaOutcome[w] \in MfaCodes => mfaOutcome[w] \in mfaAccepted[w]
    /\ w \in MfaOpen => \/ mfaInbox[w].code = NoCode /\ mfaAccepted[w] = {}
                        \/ mfaInbox[w].code \in MfaCodes /\ mfaAccepted[w] = {mfaInbox[w].code}
    /\ mfaKind = "memory" => \/ mfaLocal[w] = NoCode /\ mfaAccepted[w] = {}
                             \/ mfaLocal[w] \in MfaCodes /\ mfaAccepted[w] = {mfaLocal[w]}

PlaceOK(w) ==
    /\ mfaWait[w].pc = "idle" => w \notin MfaOpen /\ mfaAccepted[w] = {}
    /\ mfaWait[w].pc \in {"idle", "check", "read"} => mfaOutcome[w] = NoCode
    /\ mfaWait[w].pc \in {"idle", "check", "read", "finally", "done"}
    /\ mfaKind = "memory" => mfaWait[w].pc \in {"idle", "check", "done"}
    /\ mfaKind = "memory" /\ mfaWait[w].pc = "done" => w \notin MfaOpen
    /\ mfaKind = "memory" /\ mfaAccepted[w] # {} => mfaOutcome[w] \in mfaAccepted[w] \cup {NoCode}

BrokerTypes ==
    /\ MfaOpen \subseteq Waiters
    /\ \A x \in MfaOpen : DOMAIN mfaInbox[x] = {"code", "expires"}
    /\ DOMAIN mfaWait = Waiters /\ \A w \in Waiters : DOMAIN mfaWait[w] = {"pc", "deadline"}
    /\ DOMAIN mfaOutcome = Waiters /\ DOMAIN mfaLocal = Waiters /\ DOMAIN mfaAccepted = Waiters
    /\ mfaKind \in {"memory", "redis"}

MfaInv == BrokerTypes /\ \A w \in Waiters : CodeOK(w) /\ PlaceOK(w)

LEMMA InitMfa == MfaInit => MfaInv
<1> SUFFICES ASSUME MfaInit PROVE MfaInv
  OBVIOUS
<1>1. BrokerTypes
  BY DEF MfaInit, BrokerTypes, MfaOpen
<1>2. ASSUME NEW w \in Waiters PROVE CodeOK(w) /\ PlaceOK(w)
  BY MfaAssumption DEF MfaAssumption, MfaInit, CodeOK, PlaceOK, MfaOpen
<1> QED BY <1>1, <1>2 DEF MfaInv

\* Taking transactions out of the inbox.
LEMMA InboxWithout ==
  ASSUME NEW S, NEW f, f = Without(S)
  PROVE  /\ DOMAIN f = MfaOpen \ S /\ DOMAIN f \subseteq MfaOpen
         /\ \A x \in MfaOpen \ S : f[x] = mfaInbox[x]
         /\ \A x \in DOMAIN f : f[x] = mfaInbox[x]
  BY DEF Without, MfaOpen

\* What the transactions of the inbox may become when no code is delivered: some leave,
\* and w may open one.
InboxKept(w) ==
    /\ DOMAIN mfaInbox' \subseteq MfaOpen \cup {w}
    /\ \A x \in MfaOpen \cap DOMAIN mfaInbox' : mfaInbox'[x] = mfaInbox[x]
    /\ w \in DOMAIN mfaInbox' /\ w \notin MfaOpen
          => mfaInbox'[w].code = NoCode /\ mfaAccepted[w] = {} /\ DOMAIN mfaInbox'[w] = {"code", "expires"}

\* The wait of w goes to p with the outcome o.
WaitGoes(w, p, o) ==
    /\ DOMAIN mfaWait' = Waiters /\ \A v \in Waiters : DOMAIN mfaWait'[v] = {"pc", "deadline"}
    /\ mfaWait'[w].pc = p /\ \A v \in Waiters \ {w} : mfaWait'[v].pc = mfaWait[v].pc
    /\ DOMAIN mfaOutcome' = Waiters /\ mfaOutcome'[w] = o
    /\ \A v \in Waiters \ {w} : mfaOutcome'[v] = mfaOutcome[v]

LEMMA WaitEnds ==
  ASSUME BrokerTypes, NEW w \in Waiters, NEW p, NEW o,
         mfaWait' = [mfaWait EXCEPT ![w].pc = p], mfaOutcome' = [mfaOutcome EXCEPT ![w] = o]
  PROVE  WaitGoes(w, p, o)
  BY DEF BrokerTypes, WaitGoes

LEMMA WaitTurns ==
  ASSUME BrokerTypes, NEW w \in Waiters, NEW p,
         mfaWait' = [mfaWait EXCEPT ![w].pc = p], mfaOutcome' = mfaOutcome
  PROVE  WaitGoes(w, p, mfaOutcome[w])
  BY DEF BrokerTypes, WaitGoes

\* The wait of w ends or moves, and no code is delivered.
LEMMA WaitMoves ==
  ASSUME MfaInv, NEW w \in Waiters, UNCHANGED <<mfaKind, mfaLocal, mfaAccepted>>,
         NEW p \in {"check", "read", "finally", "done"}, NEW o,
         WaitGoes(w, p, o), InboxKept(w),
         o \in MfaCodes => o \in mfaAccepted[w],
         p \in {"check", "read"} => o = NoCode,
         mfaKind = "memory" => p \in {"check", "done"},
         mfaKind = "memory" /\ p = "done" => w \notin DOMAIN mfaInbox',
         mfaKind = "memory" /\ mfaAccepted[w] # {} => o \in mfaAccepted[w] \cup {NoCode}
  PROVE  MfaInv'
<1>0. BrokerTypes
  BY DEF MfaInv
<1>1. BrokerTypes'
  BY <1>0 DEF BrokerTypes, MfaOpen, WaitGoes, InboxKept
<1>2. ASSUME NEW v \in Waiters PROVE CodeOK(v)' /\ PlaceOK(v)'
  <2>1. CodeOK(v) /\ PlaceOK(v)
    BY DEF MfaInv
  <2>2. v \in MfaOpen' => \/ v \in MfaOpen /\ mfaInbox'[v] = mfaInbox[v]
                          \/ v = w /\ mfaInbox'[w].code = NoCode /\ mfaAccepted[w] = {}
    BY DEF InboxKept, MfaOpen
  <2>3. CASE v = w
    <3>1. mfaWait'[v].pc = p /\ mfaOutcome'[v] = o
      BY <2>3 DEF WaitGoes
    <3>2. CodeOK(v)'
      BY <2>1, <2>2, <2>3, <3>1 DEF CodeOK
    <3>3. PlaceOK(v)'
      BY <2>1, <2>3, <3>1 DEF PlaceOK, MfaOpen
    <3> QED BY <3>2, <3>3
  <2>4. CASE v # w
    <3>1. mfaWait'[v].pc = mfaWait[v].pc /\ mfaOutcome'[v] = mfaOutcome[v]
      BY <2>4 DEF WaitGoes
    <3>2. v \in MfaOpen' => v \in MfaOpen /\ mfaInbox'[v] = mfaInbox[v]
      BY <2>2, <2>4
    <3>3. CodeOK(v)'
      BY <2>1, <3>1, <3>2 DEF CodeOK
    <3>4. PlaceOK(v)'
      BY <2>1, <3>1, <3>2 DEF PlaceOK
    <3> QED BY <3>3, <3>4
  <2> QED BY <2>3, <2>4
<1> QED BY <1>1, <1>2 DEF MfaInv

\* Transactions leave the inbox and nothing else happens.
LEMMA InboxShrinks ==
  ASSUME MfaInv, UNCHANGED <<mfaKind, mfaLocal, mfaWait, mfaOutcome, mfaAccepted>>,
         DOMAIN mfaInbox' \subseteq MfaOpen, \A x \in DOMAIN mfaInbox' : mfaInbox'[x] = mfaInbox[x]
  PROVE  MfaInv'
<1>1. BrokerTypes'
  BY DEF MfaInv, BrokerTypes, MfaOpen
<1>2. ASSUME NEW v \in Waiters PROVE CodeOK(v)' /\ PlaceOK(v)'
  <2>1. CodeOK(v) /\ PlaceOK(v)
    BY DEF MfaInv
  <2>2. v \in MfaOpen' => v \in MfaOpen /\ mfaInbox'[v] = mfaInbox[v]
    BY DEF MfaOpen
  <2>3. CodeOK(v)'
    BY <2>1, <2>2 DEF CodeOK
  <2>4. PlaceOK(v)'
    BY <2>1, <2>2 DEF PlaceOK
  <2> QED BY <2>3, <2>4
<1> QED BY <1>1, <1>2 DEF MfaInv

LEMMA OpenMfa == ASSUME MfaInv, NEW w \in Waiters, MfaOpenTransaction(w) PROVE MfaInv'
<1> USE MfaAssumption DEF MfaAssumption
<1>1. BrokerTypes /\ CodeOK(w) /\ PlaceOK(w)
  BY DEF MfaInv
<1>2. PICK kept : kept = IF mfaKind = "memory" THEN Without(MfaExpired) ELSE mfaInbox
  OBVIOUS
<1>3. PICK entry : entry = [code |-> NoCode,
                   expires |-> mfaNow + MfaTimeout + IF mfaKind = "redis" THEN RedisGrace ELSE 0]
  OBVIOUS
<1>4. DOMAIN kept \subseteq MfaOpen /\ \A x \in DOMAIN kept : kept[x] = mfaInbox[x]
  <2>1. CASE mfaKind = "memory"
    <3>1. PICK E : E = MfaExpired
      OBVIOUS
    <3>2. kept = Without(E)
      BY <1>2, <2>1, <3>1
    <3> QED BY ONLY <3>2, InboxWithout
  <2>2. CASE mfaKind # "memory"
    BY <1>2, <2>2 DEF MfaOpen
  <2> QED BY <2>1, <2>2
<1>5. mfaWait[w].pc = "idle" /\ w \notin MfaOpen /\ mfaAccepted[w] = {} /\ mfaOutcome[w] = NoCode
  BY <1>1 DEF MfaOpenTransaction, PlaceOK
<1>6. UNCHANGED <<mfaKind, mfaLocal, mfaAccepted>>
  BY DEF MfaOpenTransaction
<1>7. CASE /\ mfaInbox' = [x \in DOMAIN kept \cup {w} |-> IF x = w THEN entry ELSE kept[x]]
           /\ mfaWait' = [mfaWait EXCEPT ![w] = [pc |-> "check", deadline |-> mfaNow + MfaTimeout]]
           /\ UNCHANGED mfaOutcome
  <2>1. WaitGoes(w, "check", NoCode)
    BY <1>1, <1>5, <1>7 DEF WaitGoes, BrokerTypes
  <2>2. mfaInbox'[w] = entry /\ entry.code = NoCode /\ DOMAIN entry = {"code", "expires"}
    BY <1>3, <1>7
  <2>3. InboxKept(w)
    BY <1>4, <1>5, <1>7, <2>2 DEF InboxKept
  <2>4. NoCode \notin MfaCodes
    OBVIOUS
  <2> QED BY <1>5, <1>6, <2>1, <2>3, <2>4, WaitMoves
<1>8. CASE \/ mfaInbox' = kept /\ MfaEnd(w, "full")
           \/ mfaInbox' = mfaInbox /\ MfaEnd(w, "error")
  <2>1. PICK o \in {"full", "error"} : MfaEnd(w, o)
    BY <1>8
  <2>2. WaitGoes(w, "done", o)
    BY <1>1, <2>1, WaitEnds DEF MfaEnd
  <2>3. InboxKept(w) /\ w \notin DOMAIN mfaInbox'
    BY <1>4, <1>5, <1>8 DEF InboxKept, MfaOpen
  <2>4. o \notin MfaCodes
    OBVIOUS
  <2> QED BY <1>5, <1>6, <2>2, <2>3, <2>4, WaitMoves
<1> QED BY <1>2, <1>3, <1>7, <1>8 DEF MfaOpenTransaction

LEMMA MemoryMfa == ASSUME MfaInv, NEW w \in Waiters, MemoryWait(w) PROVE MfaInv'
<1> USE MfaAssumption DEF MfaAssumption
<1>0. BrokerTypes /\ CodeOK(w) /\ PlaceOK(w)
  BY DEF MfaInv
<1>1. UNCHANGED <<mfaKind, mfaLocal, mfaAccepted>> /\ mfaInbox' = Without({w}) /\ mfaKind = "memory"
  BY DEF MemoryWait
<1>2. PICK o : MfaEnd(w, o) /\ (\/ o = mfaLocal[w] /\ mfaLocal[w] # NoCode
                                \/ o = "timeout" /\ mfaLocal[w] = NoCode)
  BY DEF MemoryWait
<1>3. WaitGoes(w, "done", o)
  BY <1>0, <1>2, WaitEnds DEF MfaEnd
<1>4. DOMAIN mfaInbox' = MfaOpen \ {w} /\ \A x \in MfaOpen \ {w} : mfaInbox'[x] = mfaInbox[x]
  BY <1>1, InboxWithout
<1>5. InboxKept(w) /\ w \notin DOMAIN mfaInbox'
  BY <1>4 DEF InboxKept
<1>6. /\ o \in MfaCodes => o \in mfaAccepted[w]
      /\ mfaAccepted[w] # {} => o \in mfaAccepted[w]
  BY <1>0, <1>1, <1>2 DEF CodeOK
<1> QED BY <1>1, <1>3, <1>5, <1>6, WaitMoves

LEMMA RedisMfa ==
  ASSUME MfaInv, NEW w \in Waiters, RedisCheckTime(w) \/ RedisRead(w) \/ RedisFinally(w) PROVE MfaInv'
<1> USE MfaAssumption DEF MfaAssumption
<1>0. BrokerTypes /\ CodeOK(w) /\ PlaceOK(w)
  BY DEF MfaInv
<1>1. UNCHANGED <<mfaKind, mfaLocal, mfaAccepted>> /\ mfaKind = "redis" /\ mfaKind # "memory"
  BY DEF RedisCheckTime, RedisRead, RedisFinally
<1>2. InboxKept(w)
  <2>1. CASE mfaInbox' = mfaInbox
    BY <2>1 DEF InboxKept, MfaOpen
  <2>2. CASE mfaInbox' = Without({w})
    <3>1. DOMAIN mfaInbox' = MfaOpen \ {w} /\ \A x \in MfaOpen \ {w} : mfaInbox'[x] = mfaInbox[x]
      BY <2>2, InboxWithout
    <3> QED BY <3>1 DEF InboxKept
  <2> QED BY <2>1, <2>2 DEF RedisCheckTime, RedisRead, RedisFinally
<1>3. StoredCode(w) # NoCode => StoredCode(w) \in mfaAccepted[w]
  BY <1>0 DEF CodeOK, StoredCode
<1>4. \E p \in {"check", "read", "finally", "done"} : \E o :
         /\ WaitGoes(w, p, o)
         /\ o \in MfaCodes => o \in mfaAccepted[w]
         /\ p \in {"check", "read"} => o = NoCode
  <2>1. CASE RedisCheckTime(w)
    <3>1. mfaOutcome[w] = NoCode
      BY <1>0, <2>1 DEF RedisCheckTime, PlaceOK
    <3>2. CASE MfaGo(w, "read") /\ UNCHANGED mfaOutcome
      BY <1>0, <3>1, <3>2, WaitTurns DEF MfaGo
    <3>3. CASE /\ mfaWait' = [mfaWait EXCEPT ![w].pc = "finally"]
               /\ mfaOutcome' = [mfaOutcome EXCEPT ![w] = "timeout"]
      <4>1. WaitGoes(w, "finally", "timeout")
        BY <1>0, <3>3, WaitEnds
      <4>2. "timeout" \notin MfaCodes
        OBVIOUS
      <4> QED BY <4>1, <4>2
    <3> QED BY <2>1, <3>2, <3>3 DEF RedisCheckTime
  <2>2. CASE RedisRead(w)
    <3>1. mfaOutcome[w] = NoCode
      BY <1>0, <2>2 DEF RedisRead, PlaceOK
    <3>2. CASE MfaGo(w, "check") /\ UNCHANGED mfaOutcome
      BY <1>0, <3>1, <3>2, WaitTurns DEF MfaGo
    <3>3. CASE \E o : /\ mfaWait' = [mfaWait EXCEPT ![w].pc = "finally"]
                      /\ mfaOutcome' = [mfaOutcome EXCEPT ![w] = o]
                      /\ o = "error" \/ (o = StoredCode(w) /\ StoredCode(w) # NoCode)
      <4>1. PICK o : /\ mfaWait' = [mfaWait EXCEPT ![w].pc = "finally"]
                     /\ mfaOutcome' = [mfaOutcome EXCEPT ![w] = o]
                     /\ o = "error" \/ (o = StoredCode(w) /\ StoredCode(w) # NoCode)
        BY <3>3
      <4>2. WaitGoes(w, "finally", o)
        BY <1>0, <4>1, WaitEnds
      <4>3. o \in MfaCodes => o \in mfaAccepted[w]
        BY <1>3, <4>1
      <4> QED BY <4>2, <4>3
    <3> QED BY <2>2, <3>2, <3>3 DEF RedisRead
  <2>3. CASE RedisFinally(w)
    <3>1. WaitGoes(w, "done", mfaOutcome[w])
      BY <1>0, <2>3, WaitTurns DEF RedisFinally, MfaGo
    <3>2. mfaOutcome[w] \in MfaCodes => mfaOutcome[w] \in mfaAccepted[w]
      BY <1>0 DEF CodeOK
    <3> QED BY <3>1, <3>2
  <2> QED BY <2>1, <2>2, <2>3
<1>5. PICK p, o :
         /\ p \in {"check", "read", "finally", "done"}
         /\ WaitGoes(w, p, o)
         /\ o \in MfaCodes => o \in mfaAccepted[w]
         /\ p \in {"check", "read"} => o = NoCode
  BY <1>4
<1> QED BY <1>1, <1>2, <1>5, WaitMoves

LEMMA DeliverMfa ==
  ASSUME MfaInv, NEW w \in Waiters, NEW code \in MfaCodes, MfaDeliver(w, code) PROVE MfaInv'
<1> USE MfaAssumption DEF MfaAssumption
<1>0. BrokerTypes
  BY DEF MfaInv
<1>1. PICK live : live = Without(MfaExpired)
  OBVIOUS
<1>2. DOMAIN live \subseteq MfaOpen /\ \A x \in DOMAIN live : live[x] = mfaInbox[x]
  <2>1. PICK E : E = MfaExpired
    OBVIOUS
  <2>2. live = Without(E)
    BY <1>1, <2>1
  <2> QED BY ONLY <2>2, InboxWithout
<1>3. /\ w \in DOMAIN live /\ live[w].code = NoCode
      /\ mfaInbox' = [live EXCEPT ![w].code = code]
      /\ UNCHANGED <<mfaKind, mfaWait, mfaOutcome>>
  BY <1>1 DEF MfaDeliver
<1>4. w \in MfaOpen /\ mfaInbox[w].code = NoCode /\ CodeOK(w) /\ PlaceOK(w)
  BY <1>2, <1>3 DEF MfaInv
<1>5. mfaAccepted[w] = {} /\ mfaOutcome[w] \notin MfaCodes
  BY <1>4 DEF CodeOK
<1>6. DOMAIN mfaAccepted' = Waiters /\ mfaAccepted'[w] = {code}
      /\ \A v \in Waiters \ {w} : mfaAccepted'[v] = mfaAccepted[v]
  BY <1>0, <1>5 DEF MfaDeliver, BrokerTypes
<1>7. DOMAIN mfaLocal' = Waiters /\ (mfaKind = "memory" => mfaLocal'[w] = code)
      /\ \A v \in Waiters \ {w} : mfaLocal'[v] = mfaLocal[v]
  BY <1>0 DEF MfaDeliver, BrokerTypes
<1>8. DOMAIN live[w] = {"code", "expires"}
  BY <1>0, <1>2, <1>3 DEF BrokerTypes
<1>9. /\ DOMAIN mfaInbox' = DOMAIN live
      /\ mfaInbox'[w].code = code /\ DOMAIN mfaInbox'[w] = {"code", "expires"}
      /\ \A x \in DOMAIN live \ {w} : mfaInbox'[x] = mfaInbox[x]
  BY <1>2, <1>3, <1>8
<1>10. BrokerTypes'
  BY <1>0, <1>2, <1>3, <1>6, <1>7, <1>9 DEF BrokerTypes, MfaOpen
<1>11. CodeOK(w)'
  BY <1>3, <1>5, <1>6, <1>7, <1>9 DEF CodeOK
<1>12. PlaceOK(w)'
  <2>1. mfaWait[w].pc # "idle" /\ (mfaKind = "memory" => mfaWait[w].pc = "check")
    BY <1>4 DEF PlaceOK
  <2> QED BY <1>3, <1>4, <2>1 DEF PlaceOK
<1>13. ASSUME NEW v \in Waiters \ {w} PROVE CodeOK(v)' /\ PlaceOK(v)'
  <2>1. CodeOK(v) /\ PlaceOK(v)
    BY DEF MfaInv
  <2>2. v \in MfaOpen' => v \in MfaOpen /\ mfaInbox'[v] = mfaInbox[v]
    BY <1>2, <1>9 DEF MfaOpen
  <2>3. CodeOK(v)'
    BY <1>3, <1>6, <1>7, <2>1, <2>2 DEF CodeOK
  <2>4. PlaceOK(v)'
    BY <1>3, <1>6, <2>1, <2>2 DEF PlaceOK
  <2> QED BY <2>3, <2>4
<1> QED BY <1>10, <1>11, <1>12, <1>13 DEF MfaInv

LEMMA NextMfa == MfaInv /\ [MfaNext]_mfaVars => MfaInv'
<1> SUFFICES ASSUME MfaInv, [MfaNext]_mfaVars PROVE MfaInv'
  OBVIOUS
<1>1. ASSUME NEW w \in Waiters,
             \/ MfaOpenTransaction(w) \/ MemoryWait(w)
             \/ RedisCheckTime(w) \/ RedisRead(w) \/ RedisFinally(w)
             \/ \E code \in MfaCodes : MfaDeliver(w, code)
      PROVE  MfaInv'
  BY <1>1, OpenMfa, MemoryMfa, RedisMfa, DeliverMfa
<1>2. CASE MfaClear
  <2>1. PICK f : f = Without(MfaOpen)
    OBVIOUS
  <2>2. DOMAIN f = {}
    BY <2>1, InboxWithout
  <2> QED BY <1>2, <2>1, <2>2, InboxShrinks DEF MfaClear
<1>3. CASE MfaTick
  <2>1. DOMAIN mfaInbox' \subseteq MfaOpen /\ \A x \in DOMAIN mfaInbox' : mfaInbox'[x] = mfaInbox[x]
    BY <1>3 DEF MfaTick, MfaOpen
  <2> QED BY <1>3, <2>1, InboxShrinks DEF MfaTick
<1>4. CASE UNCHANGED mfaVars
  BY <1>4, InboxShrinks DEF mfaVars, MfaOpen
<1> QED BY <1>1, <1>2, <1>3, <1>4 DEF MfaNext

\* A code and the wait it is meant for meet exactly once, for any number of
\* waits, deliveries, clears and expiries of either broker (mfa_receiver.py):
\* a transaction takes one code, a wait returns no other, and a wait of the
\* in-memory broker whose transaction took a code does not time out.
THEOREM CodesMeet == MfaSpec => []CodeMeetsItsWait
<1>1. MfaInv => CodeMeetsItsWait
  <2> SUFFICES ASSUME MfaInv, NEW w \in Waiters
               PROVE  /\ Cardinality(mfaAccepted[w]) <= 1
                      /\ mfaOutcome[w] \in MfaCodes => mfaOutcome[w] \in mfaAccepted[w]
                      /\ mfaKind = "memory" /\ mfaAccepted[w] # {}
                            => mfaOutcome[w] \in mfaAccepted[w] \cup {NoCode}
    BY DEF CodeMeetsItsWait, OneCodePerWait, AcceptedCodeArrives
  <2>1. CodeOK(w) /\ PlaceOK(w)
    BY DEF MfaInv
  <2>2. Cardinality(mfaAccepted[w]) <= 1
    <3>1. Cardinality({}) = 0
      BY FS_EmptySet
    <3>2. \A c : Cardinality({c}) = 1
      BY FS_Singleton
    <3>3. PICK A : A = mfaAccepted[w]
      OBVIOUS
    <3>4. A = {} \/ \E c \in MfaCodes : A = {c}
      BY <2>1, <3>3 DEF CodeOK
    <3>5. Cardinality(A) = 0 \/ Cardinality(A) = 1
      BY ONLY <3>1, <3>2, <3>4, Zenon
    <3> QED BY ONLY <3>3, <3>5
  <2> QED BY <2>1, <2>2 DEF CodeOK, PlaceOK
<1> QED BY <1>1, InitMfa, NextMfa, PTL DEF MfaSpec

-----------------------------------------------------------------------------
(* AuthRepair.  A request under way knows a candidate that exists, for the *)
(* revision it was made for, and the attempt it logged in with; candidates *)
(* are newer than their base.                                              *)

\* A sequence, of whatever.
Sequence(s) == \E S : s \in Seq(S)

\* What a request keeps, and the places where it works for a candidate.
CallKeys == {"pc", "k", "rev", "rebind", "attempt", "moved", "old"}
Active == {"activate", "switch", "chain", "settle", "rebind", "run", "remap", "undo"}

\* What a request under way knows: the candidate it works for, and the attempt
\* it made or saw succeed.
CallOK(c) ==
    /\ repair[c].k # 0 => repair[c].k \in DOMAIN candidates /\ candidates[repair[c].k].rev = repair[c].rev
    /\ repair[c].pc \in Active => repair[c].k # 0
    /\ repair[c].pc \in {"login", "activate"} => repair[c].attempt \in DOMAIN attempts
    /\ repair[c].pc = "login" => attempts[repair[c].attempt].status = "running"
    /\ repair[c].pc = "switch" =>
          /\ repair[c].attempt \in DOMAIN attempts
          /\ attempts[repair[c].attempt] = [candidate |-> repair[c].k, rev |-> repair[c].rev, status |-> "succeeded"]
    /\ repair[c].rev \in 0..Len(chains)
    /\ repair[c].pc \in {"candidate", "import_live", "import_point"} => repair[c].rev # 0
    /\ repair[c].pc \in {"import", "import_live", "import_point"} => repair[c].k = 0
    /\ repair[c].moved \in 0..RunSize

\* Each login works on an attempt of its own.
LoginsDiffer ==
    \A c, d \in RepairCalls :
       c # d /\ repair[c].pc = "login" /\ repair[d].pc = "login" => repair[c].attempt # repair[d].attempt

\* A candidate is newer than its base, and nothing points beyond the chains.
Numbers ==
    /\ profile.current \in 1..Len(chains)
    /\ \A k \in DOMAIN candidates :
          /\ candidates[k].prev \in Nat /\ candidates[k].rev \in Nat
          /\ candidates[k].prev < candidates[k].rev /\ candidates[k].rev <= Len(chains)

-----------------------------------------------------------------------------

\* The snapshots the request c made, and the revision its candidate was made from.
Clones(c) == {CloneOf(i, repair[c].rev, c) : i \in Ordinals}
BaseOf(c) == candidates[repair[c].k].prev

\* The request that is moving the checkpoints, one by one.
Moving(c) == repair[c].pc = "remap" /\ repair[c].moved # RunSize
MovingOK(c) ==
    \A i \in Ordinals :
       /\ authRun.snaps[i] = CloneOf(i, repair[c].rev, c) /\ repair[c].old[i] # CloneOf(i, repair[c].rev, c)
       /\ ckpts[i].snap = IF i <= repair[c].moved THEN CloneOf(i, repair[c].rev, c) ELSE repair[c].old[i]

\* A request with its clones ready: the run has left its base for good, or is as
\* the request saw it.
ReadyOK(c) ==
    /\ repair[c].moved = 0
    /\ authRun.rev >= BaseOf(c)
    /\ Clones(c) \subseteq snapshots /\ \A i \in Ordinals : authRun.snaps[i] \notin Clones(c)
    /\ authRun.rev = BaseOf(c) =>
          \A i \in Ordinals : ckpts[i].snap = repair[c].old[i] /\ authRun.snaps[i] = repair[c].old[i]

\* The paused run as it is when only requests touch it.
RunTypes ==
    /\ DOMAIN authRun = {"status", "dep", "rev", "snaps"} /\ authRun.rev \in Nat
    /\ disturbed \in BOOLEAN
    /\ DOMAIN ckpts = Ordinals /\ \A i \in Ordinals : DOMAIN ckpts[i] = {"snap", "status", "tried"}

\* Of a run nobody disturbed: it stands still while a request works on it, its
\* snapshots exist and are of its revision, and its checkpoints follow them except
\* while one request moves them.
Bound ==
    /\ \A c \in RepairCalls : repair[c].pc # "undo"
    /\ Rebinding # {} => /\ authRun.status = "paused"
                         /\ \A i \in Ordinals : ckpts[i].status = "pending" /\ ckpts[i].tried = FALSE
    /\ \A i \in Ordinals : authRun.snaps[i] \in snapshots /\ authRun.snaps[i].rev = authRun.rev
    /\ (\A c \in RepairCalls : ~Moving(c)) => \A i \in Ordinals : ckpts[i].snap = authRun.snaps[i]
    /\ \A c \in RepairCalls : /\ Moving(c) => MovingOK(c)
                              /\ repair[c].pc = "run" => ReadyOK(c)

BindInv == RunTypes /\ (disturbed = FALSE => Bound)
CallsOK == (\A c \in RepairCalls : CallOK(c)) /\ LoginsDiffer /\ Numbers

RepairTypes ==
    /\ DOMAIN repair = RepairCalls /\ \A c \in RepairCalls : DOMAIN repair[c] = CallKeys
    /\ Sequence(candidates) /\ \A k \in DOMAIN candidates : DOMAIN candidates[k] = {"prev", "rev", "status"}
    /\ Sequence(attempts) /\ \A n \in DOMAIN attempts : DOMAIN attempts[n] = {"candidate", "rev", "status"}
    /\ DOMAIN profile = {"current", "active"}
    /\ Sequence(chains)

RepairInv == RepairTypes /\ CallsOK /\ LiveRevisionVerified

\* t is s with e at its end.
Extended(s, e, t) ==
    /\ Sequence(t) /\ Len(s) \in Nat /\ Len(t) = Len(s) + 1
    /\ DOMAIN s = 1..Len(s) /\ DOMAIN t = DOMAIN s \cup {Len(s) + 1}
    /\ Len(s) + 1 \notin DOMAIN s
    /\ t[Len(s) + 1] = e /\ \A n \in DOMAIN s : t[n] = s[n]

LEMMA Appended ==
  ASSUME NEW s, Sequence(s), NEW e, NEW t, t = Append(s, e)
  PROVE  Extended(s, e, t)
<1>1. PICK S : s \in Seq(S)
  BY DEF Sequence
<1>2. s \in Seq(S \cup {e})
  BY <1>1
<1>3. t \in Seq(S \cup {e})
  BY <1>2
<1>4. Sequence(t)
  BY <1>3 DEF Sequence
<1> QED BY <1>2, <1>4 DEF Extended

LEMMA Updated ==
  ASSUME NEW s, Sequence(s), NEW n, NEW e, NEW t, t = [s EXCEPT ![n] = e]
  PROVE  Sequence(t) /\ Len(t) = Len(s) /\ DOMAIN t = DOMAIN s /\ \A m \in DOMAIN s : t[m] = IF m = n THEN e ELSE s[m]
<1>1. PICK S : s \in Seq(S)
  BY DEF Sequence
<1>2. s \in Seq(S \cup {e})
  BY <1>1
<1>3. t \in Seq(S \cup {e})
  <2>1. Len(s) \in Nat /\ s \in [1..Len(s) -> S \cup {e}]
    BY <1>2
  <2>2. t \in [1..Len(s) -> S \cup {e}]
    BY <2>1
  <2> QED BY <2>1, <2>2
<1>4. Sequence(t)
  BY <1>3 DEF Sequence
<1> QED BY <1>2, <1>4

LEMMA SequenceIs ==
  ASSUME NEW s, Sequence(s) PROVE Len(s) \in Nat /\ DOMAIN s = 1..Len(s)
  BY DEF Sequence

LEMMA InitRepair == RepairInit => RepairInv
<1> SUFFICES ASSUME RepairInit PROVE RepairInv
  OBVIOUS
<1> USE DEF RepairInit
<1>1. Sequence(<< >>) /\ Sequence(<<"active">>)
  <2>1. << >> \in Seq({"active"}) /\ <<"active">> \in Seq({"active"})
    OBVIOUS
  <2> QED BY <2>1 DEF Sequence
<1>2. RepairTypes
  BY <1>1 DEF RepairTypes, RepairIdle, RepairCall, CallKeys
<1>3. ASSUME NEW c \in RepairCalls PROVE CallOK(c)
  BY RepairAssumption DEF RepairAssumption, CallOK, RepairIdle, RepairCall, Active
<1>4. LoginsDiffer
  BY DEF LoginsDiffer, RepairIdle, RepairCall
<1>5. Numbers
  BY DEF Numbers
<1> QED BY <1>2, <1>3, <1>4, <1>5 DEF RepairInv, CallsOK, LiveRevisionVerified

\* Candidates and chains are only added to, and a candidate keeps what it is for.
Grows ==
    /\ DOMAIN candidates \subseteq DOMAIN candidates'
    /\ \A k \in DOMAIN candidates : candidates'[k].rev = candidates[k].rev /\ candidates'[k].prev = candidates[k].prev
    /\ Len(chains) \in Nat /\ Len(chains') \in Nat /\ Len(chains) <= Len(chains')

\* Attempts are added, or the one c logs in with gets its outcome.
AttemptsKept(c) ==
    /\ DOMAIN attempts \subseteq DOMAIN attempts'
    /\ \A n \in DOMAIN attempts : \/ attempts'[n] = attempts[n]
                                  \/ repair[c].pc = "login" /\ n = repair[c].attempt

\* The pointer stays, or goes where it may.
PointerOK ==
    \/ profile'.current = profile.current /\ imported \subseteq imported'
    \/ LiveRevisionVerified'

\* A step of the request c.
LEMMA CallStep ==
  ASSUME RepairInv, NEW c \in RepairCalls, RepairTypes', Grows, AttemptsKept(c), PointerOK, Numbers', CallOK(c)',
         \A d \in RepairCalls \ {c} : repair'[d] = repair[d],
         repair'[c].pc = "login" => repair'[c].attempt \notin DOMAIN attempts
  PROVE  RepairInv'
<1> USE DEF RepairInv
<1>1. ASSUME NEW d \in RepairCalls \ {c} PROVE CallOK(d)'
  <2>1. CallOK(d) /\ CallOK(c) /\ repair'[d] = repair[d]
    BY DEF CallsOK
  <2>2. repair[d].pc \in {"login", "switch"} => attempts'[repair[d].attempt] = attempts[repair[d].attempt]
    <3>1. repair[d].pc = "login" /\ repair[c].pc = "login" => repair[d].attempt # repair[c].attempt
      BY DEF CallsOK, LoginsDiffer
    <3>2. repair[d].pc = "switch" /\ repair[c].pc = "login" => repair[d].attempt # repair[c].attempt
      BY <2>1 DEF CallOK
    <3>3. repair[d].pc \in {"login", "switch"} => repair[d].attempt \in DOMAIN attempts
      BY <2>1 DEF CallOK
    <3> QED BY <3>1, <3>2, <3>3 DEF AttemptsKept
  <2>3. DOMAIN attempts \subseteq DOMAIN attempts'
    BY DEF AttemptsKept
  <2>4. repair[d].rev \in 0..Len(chains')
    BY <2>1 DEF CallOK, Grows
  <2> QED BY <2>1, <2>2, <2>3, <2>4 DEF CallOK, Grows
<1>2. LoginsDiffer'
  <2> SUFFICES ASSUME NEW a \in RepairCalls, NEW b \in RepairCalls, a # b,
                      repair'[a].pc = "login", repair'[b].pc = "login"
               PROVE  repair'[a].attempt # repair'[b].attempt
    BY DEF LoginsDiffer
  <2>1. \A d \in RepairCalls \ {c} : repair'[d].pc = "login" =>
           repair[d].pc = "login" /\ repair'[d].attempt \in DOMAIN attempts /\ repair'[d] = repair[d]
    BY DEF CallsOK, CallOK
  <2>2. CASE a # c /\ b # c
    BY <2>1, <2>2 DEF CallsOK, LoginsDiffer
  <2>3. CASE a = c
    BY <2>1, <2>3
  <2>4. CASE b = c
    BY <2>1, <2>4
  <2> QED BY <2>2, <2>3, <2>4
<1>3. LiveRevisionVerified'
  <2>1. CASE profile'.current = profile.current /\ imported \subseteq imported'
    <3>1. CASE profile.current \in imported
      BY <2>1, <3>1 DEF LiveRevisionVerified
    <3>2. CASE profile.current \notin imported
      <4>1. PICK n \in DOMAIN attempts :
               /\ attempts[n].rev = profile.current /\ attempts[n].status = "succeeded"
               /\ attempts[n].candidate \in DOMAIN candidates
        BY <3>2 DEF LiveRevisionVerified
      <4>2. repair[c].pc = "login" => n # repair[c].attempt
        BY <4>1 DEF CallsOK, CallOK
      <4>3. n \in DOMAIN attempts' /\ attempts'[n] = attempts[n]
        BY <4>2 DEF AttemptsKept
      <4>4. attempts[n].candidate \in DOMAIN candidates'
        BY <4>1 DEF Grows
      <4> QED BY <2>1, <4>1, <4>3, <4>4 DEF LiveRevisionVerified
    <3> QED BY <3>1, <3>2
  <2> QED BY <2>1 DEF PointerOK
<1> QED BY <1>1, <1>2, <1>3 DEF CallsOK

\* What CallOK and Numbers say when only calls change.
LEMMA IdleOK ==
  ASSUME RepairInv, NEW c \in RepairCalls, DOMAIN repair' = RepairCalls, repair'[c] = RepairIdle,
         Len(chains') \in Nat
  PROVE  CallOK(c)'
  BY RepairAssumption DEF RepairAssumption, CallOK, RepairIdle, RepairCall, Active

LEMMA SameGrows ==
  ASSUME RepairInv, UNCHANGED <<candidates, chains>> PROVE Grows
<1>1. Len(chains) \in Nat
  BY SequenceIs DEF RepairInv, RepairTypes
<1> QED BY <1>1 DEF Grows

LEMMA SameNumbers ==
  ASSUME RepairInv, Grows, DOMAIN candidates' = DOMAIN candidates, profile'.current = profile.current
  PROVE  Numbers'
<1>1. profile.current \in 1..Len(chains)
  BY DEF RepairInv, CallsOK, Numbers
<1>2. profile'.current \in 1..Len(chains')
  BY <1>1 DEF Grows
<1>3. ASSUME NEW k \in DOMAIN candidates'
      PROVE  /\ candidates'[k].prev \in Nat /\ candidates'[k].rev \in Nat
             /\ candidates'[k].prev < candidates'[k].rev /\ candidates'[k].rev <= Len(chains')
  BY DEF RepairInv, CallsOK, Numbers, Grows
<1> QED BY <1>2, <1>3 DEF Numbers

\* A request moves on without touching candidates, attempts or the pointer.
LEMMA CallMoves ==
  ASSUME RepairInv, NEW c \in RepairCalls, NEW r, repair' = [repair EXCEPT ![c] = r], DOMAIN r = CallKeys,
         r.pc # "login", Sequence(chains'), Len(chains') = Len(chains), UNCHANGED <<candidates, attempts>>,
         DOMAIN profile' = {"current", "active"}, profile'.current = profile.current, imported \subseteq imported',
         CallOK(c)'
  PROVE  RepairInv'
<1>1. repair'[c] = r /\ \A d \in RepairCalls \ {c} : repair'[d] = repair[d]
  BY DEF RepairInv, RepairTypes
<1>2. RepairTypes'
  BY DEF RepairInv, RepairTypes
<1>3. Grows
  <2>1. Len(chains) \in Nat
    BY SequenceIs DEF RepairInv, RepairTypes
  <2> QED BY <2>1 DEF Grows
<1>4. AttemptsKept(c) /\ PointerOK
  BY DEF AttemptsKept, PointerOK
<1>5. Numbers'
  BY <1>3, SameNumbers
<1> QED BY <1>1, <1>2, <1>3, <1>4, <1>5, CallStep

LEMMA CallEnds ==
  ASSUME RepairInv, NEW c \in RepairCalls, RepairDone(c), UNCHANGED <<chains, candidates, attempts, profile, imported>>
  PROVE  RepairInv'
<1>1. PICK r : r = RepairIdle
  OBVIOUS
<1>2. repair' = [repair EXCEPT ![c] = r]
  BY <1>1 DEF RepairDone, RepairGo
<1>3. DOMAIN r = CallKeys /\ r.pc = "idle"
  BY <1>1 DEF RepairIdle, RepairCall, CallKeys
<1>4. repair'[c] = RepairIdle /\ DOMAIN repair' = RepairCalls
  BY <1>1, <1>2 DEF RepairInv, RepairTypes
<1>5. Sequence(chains') /\ Len(chains') = Len(chains) /\ Len(chains') \in Nat /\ DOMAIN profile' = {"current", "active"}
  BY SequenceIs DEF RepairInv, RepairTypes
<1>6. CallOK(c)'
  BY <1>4, <1>5, IdleOK
<1> QED BY <1>2, <1>3, <1>5, <1>6, CallMoves

\* Only the place of a request changes.
LEMMA PlaceMoves ==
  ASSUME RepairInv, NEW c \in RepairCalls, NEW p, RepairPc(c, p),
         Sequence(chains'), Len(chains') = Len(chains),
         UNCHANGED <<candidates, attempts, profile, imported>>,
         p \notin {"login", "candidate", "import", "import_live"}, p \in Active => repair[c].k # 0,
         p = "import_point" => repair[c].rev # 0 /\ repair[c].k = 0,
         p = "activate" => repair[c].attempt \in DOMAIN attempts,
         p = "switch" =>
             /\ repair[c].attempt \in DOMAIN attempts
             /\ attempts[repair[c].attempt] = [candidate |-> repair[c].k, rev |-> repair[c].rev, status |-> "succeeded"]
  PROVE  RepairInv'
<1>1. PICK r : r = [repair[c] EXCEPT !.pc = p]
  OBVIOUS
<1>2. repair' = [repair EXCEPT ![c] = r]
  BY <1>1 DEF RepairPc, RepairInv, RepairTypes
<1>3. /\ DOMAIN r = CallKeys /\ r.pc = p /\ r.k = repair[c].k /\ r.rev = repair[c].rev
      /\ r.attempt = repair[c].attempt /\ r.moved = repair[c].moved
  BY <1>1 DEF RepairInv, RepairTypes, CallKeys
<1>4. repair'[c] = r
  BY <1>2 DEF RepairInv, RepairTypes
<1>5. CallOK(c)
  BY DEF RepairInv, CallsOK
<1>6. DOMAIN profile' = {"current", "active"}
  BY DEF RepairInv, RepairTypes
<1>7. CallOK(c)'
  BY <1>3, <1>4, <1>5 DEF CallOK
<1> QED BY <1>2, <1>3, <1>6, <1>7, CallMoves

\* No request moves.
LEMMA CallsStay ==
  ASSUME RepairInv, UNCHANGED <<candidates, attempts, chains, imported, repair>>,
         DOMAIN profile' = {"current", "active"}, profile'.current = profile.current
  PROVE  RepairInv'
<1>1. RepairTypes'
  BY DEF RepairInv, RepairTypes
<1>2. ASSUME NEW c \in RepairCalls PROVE CallOK(c)'
  BY DEF RepairInv, CallsOK, CallOK
<1>3. LoginsDiffer' /\ Numbers' /\ LiveRevisionVerified'
  BY DEF RepairInv, CallsOK, LoginsDiffer, Numbers, LiveRevisionVerified
<1> QED BY <1>1, <1>2, <1>3 DEF RepairInv, CallsOK

\* Candidates after a step that marks one of them, or none.
Marked ==
    /\ Sequence(candidates') /\ DOMAIN candidates' = DOMAIN candidates
    /\ \A k \in DOMAIN candidates :
          /\ DOMAIN candidates'[k] = {"prev", "rev", "status"}
          /\ candidates'[k].rev = candidates[k].rev /\ candidates'[k].prev = candidates[k].prev

LEMMA MarkedOne ==
  ASSUME RepairTypes, NEW k, NEW v, candidates' = [candidates EXCEPT ![k].status = v]
  PROVE  Marked
<1>1. PICK e : e = [candidates[k] EXCEPT !.status = v]
  OBVIOUS
<1>2. candidates' = [candidates EXCEPT ![k] = e]
  BY <1>1
<1>3. Sequence(candidates)
  BY DEF RepairTypes
<1>4. PICK q : q = candidates'
  OBVIOUS
<1>5. q = [candidates EXCEPT ![k] = e]
  BY <1>2, <1>4
<1>6. Sequence(q) /\ DOMAIN q = DOMAIN candidates
      /\ \A m \in DOMAIN candidates : q[m] = IF m = k THEN e ELSE candidates[m]
  BY <1>3, <1>5, Updated
<1>7. k \in DOMAIN candidates => DOMAIN e = {"prev", "rev", "status"} /\ e.prev = candidates[k].prev /\ e.rev = candidates[k].rev
  BY <1>1 DEF RepairTypes
<1> QED BY <1>4, <1>6, <1>7 DEF Marked, RepairTypes

LEMMA MarkedNone ==
  ASSUME RepairTypes, candidates' = candidates PROVE Marked
  BY DEF RepairTypes, Marked

\* A request acts on candidates and attempts, and the chains stay.
LEMMA CallActs ==
  ASSUME RepairInv, NEW c \in RepairCalls, NEW r, repair' = [repair EXCEPT ![c] = r], DOMAIN r = CallKeys,
         Marked, Sequence(attempts'), \A n \in DOMAIN attempts' : DOMAIN attempts'[n] = {"candidate", "rev", "status"},
         AttemptsKept(c), UNCHANGED chains, DOMAIN profile' = {"current", "active"}, PointerOK,
         profile'.current \in 1..Len(chains), CallOK(c)',
         r.pc = "login" => r.attempt \notin DOMAIN attempts
  PROVE  RepairInv'
<1>1. repair'[c] = r /\ \A d \in RepairCalls \ {c} : repair'[d] = repair[d]
  BY DEF RepairInv, RepairTypes
<1>2. RepairTypes'
  BY DEF RepairInv, RepairTypes, Marked
<1>3. Grows
  <2>1. Len(chains) \in Nat
    BY SequenceIs DEF RepairInv, RepairTypes
  <2> QED BY <2>1 DEF Grows, Marked
<1>5. Numbers'
  BY DEF RepairInv, CallsOK, Numbers, Marked
<1> QED BY <1>1, <1>2, <1>3, <1>5, CallStep

LEMMA BeginRepair ==
  ASSUME RepairInv, NEW c \in RepairCalls, NEW p \in {"import", "candidate", "verify"}, NEW k, NEW v, NEW b,
         RepairBegin(c, RepairCall(p, k, v, b)), Marked, UNCHANGED <<attempts, chains, profile, imported>>,
         v \in 0..Len(chains), p = "candidate" => v # 0, p = "import" => k = 0,
         k # 0 => k \in DOMAIN candidates /\ candidates[k].rev = v
  PROVE  RepairInv'
<1>1. PICK r : r = RepairCall(p, k, v, b)
  OBVIOUS
<1>2. repair' = [repair EXCEPT ![c] = r]
  BY <1>1 DEF RepairBegin, RepairGo
<1>3. DOMAIN r = CallKeys /\ r.pc = p /\ r.k = k /\ r.rev = v /\ r.moved = 0
  BY <1>1 DEF RepairCall, CallKeys
<1>4. repair'[c] = r
  BY <1>2 DEF RepairInv, RepairTypes
<1>5. CallOK(c)'
  BY <1>3, <1>4, RepairAssumption DEF RepairAssumption, CallOK, Active, Marked
<1>6. AttemptsKept(c) /\ PointerOK
  BY DEF AttemptsKept, PointerOK
<1>7. /\ Sequence(attempts') /\ \A n \in DOMAIN attempts' : DOMAIN attempts'[n] = {"candidate", "rev", "status"}
      /\ DOMAIN profile' = {"current", "active"} /\ profile'.current \in 1..Len(chains)
  BY DEF RepairInv, RepairTypes, CallsOK, Numbers
<1> QED BY <1>2, <1>3, <1>5, <1>6, <1>7, CallActs

LEMMA BeginsRepair ==
  ASSUME RepairInv, NEW c \in RepairCalls,
         \/ ImportBegin(c) \/ CandidateBegin(c) \/ VerifyCurrent(c)
         \/ \E k \in DOMAIN candidates, rebind \in BOOLEAN : VerifyBegin(c, k, rebind)
  PROVE  RepairInv'
<1>0. RepairTypes /\ Len(chains) \in Nat /\ profile.current \in 1..Len(chains)
  BY SequenceIs DEF RepairInv, RepairTypes, CallsOK, Numbers
<1>1. CASE ImportBegin(c)
  <2>1. Marked /\ UNCHANGED <<attempts, chains, profile, imported>> /\ RepairBegin(c, RepairCall("import", 0, 0, FALSE))
    BY <1>0, <1>1, MarkedNone DEF ImportBegin, SameConfig, SameProof
  <2>2. 0 \in 0..Len(chains)
    BY <1>0
  <2> QED BY <2>1, <2>2, BeginRepair
<1>2. CASE CandidateBegin(c)
  <2>1. Marked /\ UNCHANGED <<attempts, chains, profile, imported>>
        /\ RepairBegin(c, RepairCall("candidate", 0, profile.current, FALSE))
    BY <1>0, <1>2, MarkedNone DEF CandidateBegin, SameConfig, SameProof
  <2>2. profile.current \in 0..Len(chains) /\ profile.current # 0
    BY <1>0
  <2> QED BY <2>1, <2>2, BeginRepair
<1>3. CASE VerifyCurrent(c)
  <2>1. Marked /\ UNCHANGED <<attempts, chains, profile, imported>>
        /\ RepairBegin(c, RepairCall("verify", 0, profile.current, TRUE))
    BY <1>0, <1>3, MarkedNone DEF VerifyCurrent, SameConfig, SameProof
  <2>2. profile.current \in 0..Len(chains) /\ profile.current # 0
    BY <1>0
  <2> QED BY <2>1, <2>2, BeginRepair
<1>4. ASSUME NEW k \in DOMAIN candidates, NEW b \in BOOLEAN, VerifyBegin(c, k, b) PROVE RepairInv'
  <2>1. UNCHANGED <<attempts, chains, profile, imported>>
        /\ RepairBegin(c, RepairCall("verify", k, candidates[k].rev, b))
    BY <1>4 DEF VerifyBegin, SameConfig, SameProof
  <2>2. Marked
    BY <1>0, <1>4, MarkedOne DEF VerifyBegin
  <2>3. candidates[k].rev \in 0..Len(chains)
    BY <1>0 DEF RepairInv, CallsOK, Numbers
  <2> QED BY <2>1, <2>2, <2>3, BeginRepair
<1> QED BY <1>1, <1>2, <1>3, <1>4

LEMMA CreateRepair ==
  ASSUME RepairInv, NEW c \in RepairCalls, ImportCreate(c) \/ CandidateCreate(c)
  PROVE  RepairInv'
<1>0. RepairTypes /\ Len(chains) \in Nat /\ profile.current \in 1..Len(chains) /\ CallOK(c)
  BY SequenceIs DEF RepairInv, RepairTypes, CallsOK, Numbers
<1>1. PICK q : q = chains'
  OBVIOUS
<1>2. q = Append(chains, "draft")
  BY <1>1 DEF ImportCreate, CandidateCreate, DraftChain
<1>3. Sequence(chains') /\ Len(chains') = Len(chains) + 1
  BY <1>0, <1>1, <1>2, Appended DEF Extended, RepairTypes
<1>4. AttemptsKept(c) /\ PointerOK /\ attempts' = attempts
      /\ DOMAIN profile' = {"current", "active"} /\ profile'.current = profile.current
  BY <1>0 DEF ImportCreate, CandidateCreate, AttemptsKept, PointerOK, RepairTypes
<1>5. CASE ImportCreate(c)
  <2>1. PICK r : r = [repair[c] EXCEPT !.pc = "import_live", !.rev = Len(chains) + 1]
    OBVIOUS
  <2>2. repair' = [repair EXCEPT ![c] = r]
    BY <1>5, <2>1 DEF ImportCreate, RepairGo
  <2>3. /\ DOMAIN r = CallKeys /\ r.pc = "import_live" /\ r.rev = Len(chains) + 1
        /\ r.k = repair[c].k /\ r.moved = repair[c].moved
    BY <1>0, <2>1 DEF RepairTypes, CallKeys
  <2>4. repair'[c] = r /\ \A d \in RepairCalls \ {c} : repair'[d] = repair[d]
    BY <1>0, <2>2 DEF RepairTypes
  <2>5. candidates' = candidates
    BY <1>5 DEF ImportCreate
  <2>6. RepairTypes'
    BY <1>0, <1>3, <1>4, <2>2, <2>3, <2>5 DEF RepairTypes
  <2>7. Grows
    BY <1>0, <1>3, <2>5 DEF Grows
  <2>8. Numbers'
    BY <1>4, <2>5, <2>7, SameNumbers
  <2>9. repair[c].k = 0
    BY <1>0, <1>5 DEF ImportCreate, CallOK
  <2>10. CallOK(c)'
    BY <1>0, <1>3, <2>3, <2>4, <2>5, <2>9 DEF CallOK, Active
  <2> QED BY <1>4, <2>3, <2>4, <2>6, <2>7, <2>8, <2>10, CallStep
<1>6. CASE CandidateCreate(c)
  <2>1. PICK e, t : e = [prev |-> repair[c].rev, rev |-> Len(chains) + 1, status |-> "draft"] /\ t = candidates'
    OBVIOUS
  <2>2. t = Append(candidates, e)
    BY <1>6, <2>1 DEF CandidateCreate
  <2>3. /\ Sequence(t) /\ DOMAIN t = DOMAIN candidates \cup {Len(candidates) + 1}
        /\ Len(candidates) + 1 \notin DOMAIN candidates
        /\ t[Len(candidates) + 1] = e /\ \A k \in DOMAIN candidates : t[k] = candidates[k]
    <3>1. Sequence(candidates)
      BY <1>0 DEF RepairTypes
    <3>2. Extended(candidates, e, t)
      BY <2>2, <3>1, Appended
    <3> QED BY <3>2 DEF Extended
  <2>4. PICK r : r = RepairIdle
    OBVIOUS
  <2>5. repair' = [repair EXCEPT ![c] = r] /\ DOMAIN r = CallKeys /\ r.pc = "idle"
    BY <1>6, <2>4 DEF CandidateCreate, RepairDone, RepairGo, RepairIdle, RepairCall, CallKeys
  <2>6. repair'[c] = RepairIdle /\ DOMAIN repair' = RepairCalls /\ \A d \in RepairCalls \ {c} : repair'[d] = repair[d]
    BY <1>0, <2>4, <2>5 DEF RepairTypes
  <2>7. DOMAIN e = {"prev", "rev", "status"} /\ e.prev = repair[c].rev /\ e.rev = Len(chains) + 1
    BY <2>1
  <2>8. RepairTypes'
    BY <1>0, <1>3, <1>4, <2>1, <2>3, <2>5, <2>7 DEF RepairTypes
  <2>9. Grows
    BY <1>0, <1>3, <2>1, <2>3 DEF Grows
  <2>10. CallOK(c)'
    BY <1>0, <1>3, <2>6, IdleOK
  <2>11. repair[c].rev \in Nat /\ repair[c].rev <= Len(chains)
    BY <1>0 DEF CallOK
  <2>12. ASSUME NEW k \in DOMAIN candidates'
         PROVE  /\ candidates'[k].prev \in Nat /\ candidates'[k].rev \in Nat
                /\ candidates'[k].prev < candidates'[k].rev /\ candidates'[k].rev <= Len(chains')
    <3>1. CASE k \in DOMAIN candidates
      BY <1>0, <1>3, <2>1, <2>3, <3>1 DEF RepairInv, CallsOK, Numbers
    <3>2. CASE k = Len(candidates) + 1
      BY <1>0, <1>3, <2>1, <2>3, <2>7, <2>11, <3>2
    <3> QED BY <2>1, <2>3, <3>1, <3>2
  <2>13. Numbers'
    BY <1>0, <1>3, <1>4, <2>12 DEF Numbers
  <2>14. repair'[c].pc # "login"
    BY <2>6 DEF RepairIdle, RepairCall
  <2> QED BY <1>4, <2>6, <2>8, <2>9, <2>10, <2>13, <2>14, CallStep
<1> QED BY <1>5, <1>6

\* A chain becomes active.
LEMMA ChainSet ==
  ASSUME RepairInv, NEW r, chains' = [chains EXCEPT ![r] = "active"]
  PROVE  Sequence(chains') /\ Len(chains') = Len(chains)
<1>1. PICK q : q = chains'
  OBVIOUS
<1>2. Sequence(chains) /\ q = [chains EXCEPT ![r] = "active"]
  BY <1>1 DEF RepairInv, RepairTypes
<1>3. PICK e : e = "active"
  OBVIOUS
<1>4. q = [chains EXCEPT ![r] = e]
  BY <1>2, <1>3
<1>5. PICK cs : cs = chains
  OBVIOUS
<1>6. Sequence(cs) /\ q = [cs EXCEPT ![r] = e]
  BY <1>2, <1>4, <1>5
<1>7. /\ Sequence(q) /\ Len(q) = Len(cs) /\ DOMAIN q = DOMAIN cs
      /\ \A m \in DOMAIN cs : q[m] = IF m = r THEN e ELSE cs[m]
  BY ONLY <1>6, Updated
<1> QED BY <1>1, <1>5, <1>7

LEMMA ImportRepair ==
  ASSUME RepairInv, NEW c \in RepairCalls, ImportLive(c) \/ ImportPoint(c)
  PROVE  RepairInv'
<1>0. RepairTypes /\ Len(chains) \in Nat /\ CallOK(c)
  BY SequenceIs DEF RepairInv, RepairTypes, CallsOK
<1>1. CASE ImportLive(c)
  <2>1. /\ RepairPc(c, "import_point") /\ UNCHANGED <<candidates, attempts, profile, imported>>
        /\ chains' = [chains EXCEPT ![repair[c].rev] = "active"]
        /\ repair[c].pc = "import_live"
    BY <1>1 DEF ImportLive, SameProof
  <2>2. Sequence(chains') /\ Len(chains') = Len(chains)
    BY <2>1, ChainSet
  <2>3. repair[c].rev # 0 /\ repair[c].k = 0
    BY <1>0, <2>1 DEF CallOK
  <2> QED BY <2>1, <2>2, <2>3, PlaceMoves DEF Active
<1>2. CASE ImportPoint(c)
  <2>1. PICK r : r = RepairIdle
    OBVIOUS
  <2>2. repair' = [repair EXCEPT ![c] = r] /\ DOMAIN r = CallKeys /\ r.pc = "idle"
    BY <1>2, <2>1 DEF ImportPoint, RepairDone, RepairGo, RepairIdle, RepairCall, CallKeys
  <2>3. repair'[c] = RepairIdle /\ DOMAIN repair' = RepairCalls
    BY <1>0, <2>1, <2>2 DEF RepairTypes
  <2>4. UNCHANGED <<candidates, attempts, chains, authHealth>> /\ repair[c].pc = "import_point"
        /\ profile' = [profile EXCEPT !.current = repair[c].rev] /\ imported' = imported \cup {repair[c].rev}
    BY <1>2 DEF ImportPoint, SameProof
  <2>5. CallOK(c)'
    BY <1>0, <2>3, <2>4, IdleOK
  <2>6. DOMAIN profile' = {"current", "active"} /\ profile'.current = repair[c].rev
    BY <1>0, <2>4 DEF RepairTypes
  <2>7. repair[c].rev \in 1..Len(chains)
    BY <1>0, <2>4 DEF CallOK
  <2>8. LiveRevisionVerified'
    BY <2>4, <2>6 DEF LiveRevisionVerified
  <2>9. AttemptsKept(c) /\ PointerOK
    BY <2>4, <2>8 DEF AttemptsKept, PointerOK
  <2>10. Marked /\ Sequence(attempts') /\ \A n \in DOMAIN attempts' : DOMAIN attempts'[n] = {"candidate", "rev", "status"}
    BY <1>0, <2>4, MarkedNone DEF RepairTypes
  <2> QED BY <2>2, <2>4, <2>5, <2>6, <2>7, <2>9, <2>10, CallActs
<1> QED BY <1>1, <1>2

LEMMA VerifyRepair ==
  ASSUME RepairInv, NEW c \in RepairCalls, VerifyStart(c) PROVE RepairInv'
<1>0. /\ RepairTypes /\ Len(chains) \in Nat /\ CallOK(c) /\ DOMAIN profile = {"current", "active"}
      /\ profile.current \in 1..Len(chains)
  BY SequenceIs DEF RepairInv, RepairTypes, CallsOK, Numbers
<1>1. repair[c].pc = "verify" /\ UNCHANGED <<profile, chains, imported>>
  BY DEF VerifyStart, SameConfig
<1>2. CASE RepairDone(c) /\ SameProof
  BY <1>1, <1>2, CallEnds DEF SameProof
<1>3. CASE /\ candidates' = [candidates EXCEPT ![repair[c].k].status = "stale"]
           /\ RepairDone(c) /\ UNCHANGED <<attempts, authHealth>>
  <2>1. PICK r : r = RepairIdle
    OBVIOUS
  <2>2. repair' = [repair EXCEPT ![c] = r] /\ DOMAIN r = CallKeys /\ r.pc = "idle"
    BY <1>3, <2>1 DEF RepairDone, RepairGo, RepairIdle, RepairCall, CallKeys
  <2>3. repair'[c] = RepairIdle /\ DOMAIN repair' = RepairCalls
    BY <1>0, <2>1, <2>2 DEF RepairTypes
  <2>4. CallOK(c)'
    BY <1>0, <1>1, <2>3, IdleOK
  <2>5. Marked
    BY <1>0, <1>3, MarkedOne
  <2>6. AttemptsKept(c) /\ PointerOK
    BY <1>1, <1>3 DEF AttemptsKept, PointerOK
  <2>7. Sequence(attempts') /\ \A n \in DOMAIN attempts' : DOMAIN attempts'[n] = {"candidate", "rev", "status"}
    BY <1>0, <1>3 DEF RepairTypes
  <2> QED BY <1>0, <1>1, <2>2, <2>4, <2>5, <2>6, <2>7, CallActs
<1>4. CASE /\ attempts' = Append(attempts, [candidate |-> IF repair[c].rev # profile.current THEN repair[c].k ELSE 0,
                                            rev |-> repair[c].rev, status |-> "running"])
           /\ RepairGo(c, [repair[c] EXCEPT !.pc = "login", !.attempt = Len(attempts) + 1])
           /\ UNCHANGED candidates
  <2>1. PICK r, e, t : /\ r = [repair[c] EXCEPT !.pc = "login", !.attempt = Len(attempts) + 1]
                       /\ e = [candidate |-> IF repair[c].rev # profile.current THEN repair[c].k ELSE 0,
                               rev |-> repair[c].rev, status |-> "running"]
                       /\ t = attempts'
    OBVIOUS
  <2>2. t = Append(attempts, e) /\ repair' = [repair EXCEPT ![c] = r] /\ candidates' = candidates
    BY <1>4, <2>1 DEF RepairGo
  <2>3. Sequence(attempts)
    BY <1>0 DEF RepairTypes
  <2>4. Extended(attempts, e, t)
    BY <2>2, <2>3, Appended
  <2>5. /\ DOMAIN r = CallKeys /\ r.pc = "login" /\ r.k = repair[c].k /\ r.rev = repair[c].rev
        /\ r.attempt = Len(attempts) + 1 /\ r.moved = repair[c].moved
    BY <1>0, <2>1 DEF RepairTypes, CallKeys
  <2>6. DOMAIN e = {"candidate", "rev", "status"} /\ e.status = "running"
    BY <2>1
  <2>7. repair'[c] = r
    BY <1>0, <2>2 DEF RepairTypes
  <2>8. r.attempt \in DOMAIN t /\ r.attempt \notin DOMAIN attempts /\ t[r.attempt] = e
    BY <2>4, <2>5 DEF Extended
  <2>9. CallOK(c)'
    BY <1>0, <1>1, <2>1, <2>2, <2>5, <2>6, <2>7, <2>8 DEF CallOK, Active
  <2>10. AttemptsKept(c) /\ PointerOK
    BY <1>1, <2>1, <2>4 DEF AttemptsKept, PointerOK, Extended
  <2>11. Sequence(attempts') /\ \A n \in DOMAIN attempts' : DOMAIN attempts'[n] = {"candidate", "rev", "status"}
    BY <1>0, <2>1, <2>4, <2>6 DEF Extended, RepairTypes
  <2>12. Marked
    BY <1>0, <2>2, MarkedNone
  <2> QED BY <1>0, <1>1, <2>2, <2>5, <2>8, <2>9, <2>10, <2>11, <2>12, CallActs
<1> QED BY <1>2, <1>3, <1>4 DEF VerifyStart

LEMMA LoginRepair ==
  ASSUME RepairInv, NEW c \in RepairCalls, NEW ok \in BOOLEAN, VerifyEnd(c, ok) PROVE RepairInv'
<1>0. /\ RepairTypes /\ Len(chains) \in Nat /\ CallOK(c) /\ DOMAIN profile = {"current", "active"}
      /\ profile.current \in 1..Len(chains)
  BY SequenceIs DEF RepairInv, RepairTypes, CallsOK, Numbers
<1>1. repair[c].pc = "login" /\ UNCHANGED <<profile, chains, imported>>
  BY DEF VerifyEnd, SameConfig
<1>2. PICK v, n, t : v = (IF ok THEN "succeeded" ELSE "failed") /\ n = repair[c].attempt /\ t = attempts'
  OBVIOUS
<1>3. n \in DOMAIN attempts
  BY <1>0, <1>1, <1>2 DEF CallOK
<1>4. PICK e : e = [attempts[n] EXCEPT !.status = v]
  OBVIOUS
<1>5. t = [attempts EXCEPT ![n] = e]
  BY <1>2, <1>4 DEF VerifyEnd
<1>6. DOMAIN e = {"candidate", "rev", "status"}
  BY <1>0, <1>3, <1>4 DEF RepairTypes
<1>7. Sequence(t) /\ DOMAIN t = DOMAIN attempts /\ \A m \in DOMAIN attempts : t[m] = IF m = n THEN e ELSE attempts[m]
  BY <1>0, <1>5, Updated DEF RepairTypes
<1>8. AttemptsKept(c) /\ PointerOK
  BY <1>1, <1>2, <1>7 DEF AttemptsKept, PointerOK
<1>9. Sequence(attempts') /\ \A m \in DOMAIN attempts' : DOMAIN attempts'[m] = {"candidate", "rev", "status"}
  BY <1>0, <1>2, <1>6, <1>7 DEF RepairTypes
<1>10. Marked
  <2>1. CASE candidates' = candidates
    BY <1>0, <2>1, MarkedNone
  <2>2. CASE candidates' = [candidates EXCEPT ![repair[c].k].status = "failed"]
    BY <1>0, <2>2, MarkedOne
  <2> QED BY <2>1, <2>2 DEF VerifyEnd
<1>11. CASE RepairDone(c)
  <2>1. PICK r : r = RepairIdle
    OBVIOUS
  <2>2. repair' = [repair EXCEPT ![c] = r] /\ DOMAIN r = CallKeys /\ r.pc = "idle"
    BY <1>11, <2>1 DEF RepairDone, RepairGo, RepairIdle, RepairCall, CallKeys
  <2>3. repair'[c] = RepairIdle /\ DOMAIN repair' = RepairCalls
    BY <1>0, <2>1, <2>2 DEF RepairTypes
  <2>4. CallOK(c)'
    BY <1>0, <1>1, <2>3, IdleOK
  <2> QED BY <1>0, <1>1, <1>8, <1>9, <1>10, <2>2, <2>4, CallActs
<1>12. CASE RepairPc(c, IF repair[c].k = 0 THEN "resume" ELSE "activate")
  <2>1. PICK p : p = IF repair[c].k = 0 THEN "resume" ELSE "activate"
    OBVIOUS
  <2>2. PICK r : r = [repair[c] EXCEPT !.pc = p]
    OBVIOUS
  <2>3. repair' = [repair EXCEPT ![c] = r]
    BY <1>12, <2>1, <2>2 DEF RepairPc
  <2>4. /\ DOMAIN r = CallKeys /\ r.pc = p /\ r.k = repair[c].k /\ r.rev = repair[c].rev
        /\ r.attempt = repair[c].attempt /\ r.moved = repair[c].moved
    BY <1>0, <2>2 DEF RepairTypes, CallKeys
  <2>5. repair'[c] = r
    BY <1>0, <2>3 DEF RepairTypes
  <2>6. repair[c].attempt \in DOMAIN attempts'
    BY <1>2, <1>3, <1>7
  <2>7. CallOK(c)'
    BY <1>0, <1>1, <1>10, <2>1, <2>4, <2>5, <2>6 DEF CallOK, Active, Marked
  <2> QED BY <1>0, <1>1, <1>8, <1>9, <1>10, <2>1, <2>3, <2>4, <2>7, CallActs
<1> QED BY <1>11, <1>12 DEF VerifyEnd

LEMMA ActivateRepair ==
  ASSUME RepairInv, NEW c \in RepairCalls, ActivateRead(c) \/ ChainLive(c) \/ Settle(c) PROVE RepairInv'
<1>0. /\ RepairTypes /\ Len(chains) \in Nat /\ CallOK(c) /\ DOMAIN profile = {"current", "active"}
      /\ profile.current \in 1..Len(chains) /\ Sequence(chains)
  BY SequenceIs DEF RepairInv, RepairTypes, CallsOK, Numbers
<1>1. repair[c].k # 0 /\ UNCHANGED <<profile, imported, attempts>>
  BY <1>0 DEF ActivateRead, ChainLive, Settle, SameConfig, SameProof, CallOK, Active
<1>2. CASE ActivateRead(c)
  <2>1. UNCHANGED <<candidates, chains>> /\ repair[c].pc = "activate"
    BY <1>2 DEF ActivateRead, SameConfig, SameProof
  <2>2. CASE RepairDone(c)
    BY <1>1, <2>1, <2>2, CallEnds
  <2>3. CASE RepairPc(c, "rebind")
    BY <1>0, <1>1, <2>1, <2>3, PlaceMoves
  <2>4. CASE /\ attempts[repair[c].attempt] = [candidate |-> repair[c].k, rev |-> repair[c].rev, status |-> "succeeded"]
             /\ RepairPc(c, "switch")
    <3>1. repair[c].attempt \in DOMAIN attempts
      BY <1>0, <2>1 DEF CallOK
    <3> QED BY <1>0, <1>1, <2>1, <2>4, <3>1, PlaceMoves
  <2> QED BY <1>2, <2>2, <2>3, <2>4 DEF ActivateRead
<1>3. CASE ChainLive(c)
  <2>1. Sequence(chains') /\ Len(chains') = Len(chains)
    BY <1>3, ChainSet DEF ChainLive
  <2>2. RepairPc(c, "settle") /\ UNCHANGED candidates
    BY <1>3 DEF ChainLive, SameProof
  <2> QED BY <1>1, <2>1, <2>2, PlaceMoves
<1>4. CASE Settle(c)
  <2>1. Marked /\ chains' = chains
    BY <1>0, <1>4, MarkedOne DEF Settle, SameConfig
  <2>2. AttemptsKept(c) /\ PointerOK
    BY <1>1 DEF AttemptsKept, PointerOK
  <2>3. Sequence(attempts') /\ \A m \in DOMAIN attempts' : DOMAIN attempts'[m] = {"candidate", "rev", "status"}
    BY <1>0, <1>1 DEF RepairTypes
  <2>4. CASE RepairDone(c)
    <3>1. PICK r : r = RepairIdle
      OBVIOUS
    <3>2. repair' = [repair EXCEPT ![c] = r] /\ DOMAIN r = CallKeys /\ r.pc = "idle"
      BY <2>4, <3>1 DEF RepairDone, RepairGo, RepairIdle, RepairCall, CallKeys
    <3>3. repair'[c] = RepairIdle /\ DOMAIN repair' = RepairCalls
      BY <1>0, <3>1, <3>2 DEF RepairTypes
    <3>4. CallOK(c)'
      BY <1>0, <2>1, <3>3, IdleOK
    <3> QED BY <1>0, <1>1, <2>1, <2>2, <2>3, <3>2, <3>4, CallActs
  <2>5. CASE RepairPc(c, "rebind")
    <3>1. PICK r : r = [repair[c] EXCEPT !.pc = "rebind"]
      OBVIOUS
    <3>2. repair' = [repair EXCEPT ![c] = r]
      BY <2>5, <3>1 DEF RepairPc
    <3>3. /\ DOMAIN r = CallKeys /\ r.pc = "rebind" /\ r.k = repair[c].k /\ r.rev = repair[c].rev
          /\ r.moved = repair[c].moved
      BY <1>0, <3>1 DEF RepairTypes, CallKeys
    <3>4. repair'[c] = r
      BY <1>0, <3>2 DEF RepairTypes
    <3>5. CallOK(c)'
      BY <1>0, <1>1, <2>1, <3>3, <3>4 DEF CallOK, Active, Marked
    <3> QED BY <1>0, <1>1, <2>1, <2>2, <2>3, <3>2, <3>3, <3>5, CallActs
  <2> QED BY <1>4, <2>4, <2>5 DEF Settle
<1> QED BY <1>2, <1>3, <1>4

LEMMA SwitchRepair ==
  ASSUME RepairInv, NEW c \in RepairCalls, Switch(c) PROVE RepairInv'
<1>0. /\ RepairTypes /\ Len(chains) \in Nat /\ CallOK(c) /\ DOMAIN profile = {"current", "active"}
      /\ profile.current \in 1..Len(chains) /\ Sequence(chains)
  BY SequenceIs DEF RepairInv, RepairTypes, CallsOK, Numbers
<1>1. repair[c].k # 0 /\ UNCHANGED <<imported, attempts, chains>> /\ repair[c].pc = "switch"
  BY <1>0 DEF Switch, CallOK, Active
<1>2. AttemptsKept(c)
  BY <1>1 DEF AttemptsKept
<1>3. Sequence(attempts') /\ \A m \in DOMAIN attempts' : DOMAIN attempts'[m] = {"candidate", "rev", "status"}
  BY <1>0, <1>1 DEF RepairTypes
<1>4. CASE profile' = [profile EXCEPT !.current = repair[c].rev] /\ RepairPc(c, "chain") /\ UNCHANGED candidates
  <2>1. DOMAIN profile' = {"current", "active"} /\ profile'.current = repair[c].rev
    BY <1>0, <1>4
  <2>2. /\ repair[c].attempt \in DOMAIN attempts
        /\ attempts[repair[c].attempt] = [candidate |-> repair[c].k, rev |-> repair[c].rev, status |-> "succeeded"]
        /\ repair[c].k \in DOMAIN candidates /\ candidates[repair[c].k].rev = repair[c].rev
    BY <1>0, <1>1 DEF CallOK
  <2>3. LiveRevisionVerified'
    BY <1>1, <1>4, <2>1, <2>2 DEF LiveRevisionVerified
  <2>4. PointerOK
    BY <2>3 DEF PointerOK
  <2>5. repair[c].rev \in 1..Len(chains)
    BY <1>0, <2>2 DEF RepairInv, CallsOK, Numbers
  <2>6. PICK r : r = [repair[c] EXCEPT !.pc = "chain"]
    OBVIOUS
  <2>7. repair' = [repair EXCEPT ![c] = r]
    BY <1>4, <2>6 DEF RepairPc
  <2>8. /\ DOMAIN r = CallKeys /\ r.pc = "chain" /\ r.k = repair[c].k /\ r.rev = repair[c].rev
        /\ r.moved = repair[c].moved
    BY <1>0, <2>6 DEF RepairTypes, CallKeys
  <2>9. repair'[c] = r
    BY <1>0, <2>7 DEF RepairTypes
  <2>10. Marked
    BY <1>0, <1>4, MarkedNone
  <2>11. CallOK(c)'
    BY <1>0, <1>1, <2>2, <2>8, <2>9, <2>10 DEF CallOK, Active, Marked
  <2> QED BY <1>1, <1>2, <1>3, <2>1, <2>4, <2>5, <2>7, <2>8, <2>10, <2>11, CallActs
<1>5. CASE UNCHANGED profile /\ RepairPc(c, "chain") /\ UNCHANGED candidates
  BY <1>0, <1>1, <1>5, PlaceMoves
<1>6. CASE /\ UNCHANGED profile /\ RepairDone(c)
           /\ candidates' = [candidates EXCEPT ![repair[c].k].status = "stale"]
  <2>1. PICK r : r = RepairIdle
    OBVIOUS
  <2>2. repair' = [repair EXCEPT ![c] = r] /\ DOMAIN r = CallKeys /\ r.pc = "idle"
    BY <1>6, <2>1 DEF RepairDone, RepairGo, RepairIdle, RepairCall, CallKeys
  <2>3. repair'[c] = RepairIdle /\ DOMAIN repair' = RepairCalls
    BY <1>0, <2>1, <2>2 DEF RepairTypes
  <2>4. CallOK(c)'
    BY <1>0, <1>1, <2>3, IdleOK
  <2>5. Marked
    BY <1>0, <1>6, MarkedOne
  <2>6. PointerOK
    BY <1>1, <1>6 DEF PointerOK
  <2> QED BY <1>0, <1>1, <1>2, <1>3, <1>6, <2>2, <2>4, <2>5, <2>6, CallActs
<1> QED BY <1>4, <1>5, <1>6 DEF Switch

LEMMA RebindRepair ==
  ASSUME RepairInv, NEW c \in RepairCalls,
         RebindClone(c) \/ RebindRun(c) \/ Remap(c) \/ Undo(c) \/ RebindEnd(c) \/ ResumeRun(c) \/ RepairDies(c)
  PROVE  RepairInv'
<1>0. RepairTypes /\ Len(chains) \in Nat /\ CallOK(c) /\ DOMAIN profile = {"current", "active"} /\ Sequence(chains)
  BY SequenceIs DEF RepairInv, RepairTypes, CallsOK
<1>1. UNCHANGED <<profile, imported, chains, candidates, attempts>>
  BY DEF RebindClone, RebindRun, Remap, Undo, RebindEnd, ResumeRun, RepairDies, SameConfig, SameProof
<1>2. CASE RepairDone(c)
  BY <1>1, <1>2, CallEnds
<1>3. CASE \E p \in {"remap", "undo", "resume"} : RepairPc(c, p) /\ repair[c].pc \in Active
  <2>1. PICK p \in {"remap", "undo", "resume"} : RepairPc(c, p) /\ repair[c].pc \in Active
    BY <1>3
  <2>2. repair[c].k # 0
    BY <1>0, <2>1 DEF CallOK
  <2> QED BY <1>0, <1>1, <2>1, <2>2, PlaceMoves
<1>4. CASE \E p \in {"run", "remap"}, m \in 0..RunSize : \E o :
             /\ RepairGo(c, [repair[c] EXCEPT !.pc = p, !.moved = m, !.old = o]) /\ repair[c].pc \in Active
  <2>1. PICK p \in {"run", "remap"}, m \in 0..RunSize : \E o :
             /\ RepairGo(c, [repair[c] EXCEPT !.pc = p, !.moved = m, !.old = o]) /\ repair[c].pc \in Active
    BY <1>4
  <2>2. PICK o : RepairGo(c, [repair[c] EXCEPT !.pc = p, !.moved = m, !.old = o]) /\ repair[c].pc \in Active
    BY <2>1
  <2>3. PICK r : r = [repair[c] EXCEPT !.pc = p, !.moved = m, !.old = o]
    OBVIOUS
  <2>4. repair' = [repair EXCEPT ![c] = r]
    BY <2>2, <2>3 DEF RepairGo
  <2>5. DOMAIN r = CallKeys /\ r.pc = p /\ r.k = repair[c].k /\ r.rev = repair[c].rev /\ r.moved = m
    BY <1>0, <2>3 DEF RepairTypes, CallKeys
  <2>6. repair'[c] = r
    BY <1>0, <2>4 DEF RepairTypes
  <2>7. CallOK(c)'
    BY <1>0, <1>1, <2>2, <2>5, <2>6 DEF CallOK, Active
  <2> QED BY <1>0, <1>1, <2>4, <2>5, <2>7, CallMoves
<1>5. CASE RebindClone(c)
  <2>1. CASE RepairGo(c, [repair[c] EXCEPT !.pc = "run", !.moved = 0, !.old = authRun.snaps])
    <3>1. 0 \in 0..RunSize /\ repair[c].pc \in Active
      BY <1>5, RepairAssumption DEF RepairAssumption, RebindClone, Active
    <3> QED BY <1>4, <2>1, <3>1
  <2> QED BY <1>2, <1>5, <2>1 DEF RebindClone
<1>6. CASE RebindRun(c)
  BY <1>2, <1>3, <1>6 DEF RebindRun, Active
<1>7. CASE Remap(c)
  <2>1. CASE RepairGo(c, [repair[c] EXCEPT !.moved = repair[c].moved + 1])
    <3>1. repair[c].moved \in Nat /\ repair[c].moved + 1 \in 0..RunSize /\ repair[c].pc = "remap"
      BY <1>0, <1>7, RepairAssumption DEF RepairAssumption, Remap, CallOK
    <3>2. [repair[c] EXCEPT !.moved = repair[c].moved + 1]
             = [repair[c] EXCEPT !.pc = "remap", !.moved = repair[c].moved + 1, !.old = repair[c].old]
      BY <1>0, <3>1 DEF RepairTypes, CallKeys
    <3>3. PICK m \in 0..RunSize : m = repair[c].moved + 1
      BY <3>1
    <3>4. PICK o : o = repair[c].old
      OBVIOUS
    <3>5. RepairGo(c, [repair[c] EXCEPT !.pc = "remap", !.moved = m, !.old = o])
      BY <2>1, <3>2, <3>3, <3>4
    <3> QED BY <1>4, <3>1, <3>5 DEF Active
  <2> QED BY <1>3, <1>7, <2>1 DEF Remap, Active
<1>8. CASE Undo(c) \/ ResumeRun(c) \/ RepairDies(c)
  BY <1>2, <1>8 DEF Undo, ResumeRun, RepairDies
<1>9. CASE RebindEnd(c)
  BY <1>3, <1>9 DEF RebindEnd, Active
<1> QED BY <1>5, <1>6, <1>7, <1>8, <1>9

LEMMA NextRepair == RepairInv /\ [RepairNext]_authVars => RepairInv'
<1> SUFFICES ASSUME RepairInv, [RepairNext]_authVars PROVE RepairInv'
  OBVIOUS
<1>1. DOMAIN profile = {"current", "active"}
  BY DEF RepairInv, RepairTypes
<1>2. ASSUME NEW c \in RepairCalls,
             \/ ImportBegin(c) \/ CandidateBegin(c) \/ VerifyCurrent(c)
             \/ \E k \in DOMAIN candidates, rebind \in BOOLEAN : VerifyBegin(c, k, rebind)
      PROVE  RepairInv'
  BY <1>2, BeginsRepair
<1>3. ASSUME NEW c \in RepairCalls,
             \/ ImportCreate(c) \/ CandidateCreate(c) \/ ImportLive(c) \/ ImportPoint(c) \/ VerifyStart(c)
             \/ \E ok \in BOOLEAN : VerifyEnd(c, ok)
             \/ ActivateRead(c) \/ Switch(c) \/ ChainLive(c) \/ Settle(c)
      PROVE  RepairInv'
  BY <1>3, CreateRepair, ImportRepair, VerifyRepair, LoginRepair, ActivateRepair, SwitchRepair
<1>4. ASSUME NEW c \in RepairCalls,
             \/ RebindClone(c) \/ RebindRun(c) \/ Remap(c) \/ Undo(c) \/ RebindEnd(c)
             \/ ResumeRun(c) \/ RepairDies(c)
      PROVE  RepairInv'
  BY <1>4, RebindRepair
<1>5. CASE ToggleProfile
  <2>1. DOMAIN profile' = {"current", "active"} /\ profile'.current = profile.current
    BY <1>1, <1>5 DEF ToggleProfile
  <2> QED BY <1>5, <2>1, CallsStay DEF ToggleProfile, SameProof
<1>6. ASSUME NEW i \in Ordinals, TakeCheckpoint(i) \/ \E ok \in BOOLEAN : CheckpointLogin(i, ok) PROVE RepairInv'
  BY <1>1, <1>6, CallsStay DEF TakeCheckpoint, CheckpointLogin, ResolveContext, SameConfig, SameProof
<1>7. CASE PreflightFails \/ CancelAuthRun
  BY <1>1, <1>7, CallsStay DEF PreflightFails, CancelAuthRun, ResolveContext, SameConfig, SameProof
<1>8. CASE UNCHANGED authVars
  BY <1>1, <1>8, CallsStay DEF authVars
<1> QED BY <1>2, <1>3, <1>4, <1>5, <1>6, <1>7, <1>8 DEF RepairNext

\* For any number of requests, candidates, chains and logins, importing, building,
\* verifying, activating and moving a paused run interleaved (project_auth.py): a
\* candidate goes live only over the revision it was made from, and the pointer
\* moves without one only to an imported revision.
THEOREM RepairsReplaceBase == RepairSpec => RepairReplacesItsBase
<1> DEFINE Replaces == profile'.current # profile.current /\ profile'.current \notin imported' =>
                         \E k \in DOMAIN candidates :
                            candidates[k].prev = profile.current /\ candidates[k].rev = profile'.current
<1>1. RepairInv /\ [RepairNext]_authVars => [Replaces]_authVars
  <2> SUFFICES ASSUME RepairInv, RepairNext, profile'.current # profile.current, profile'.current \notin imported'
               PROVE  \E k \in DOMAIN candidates :
                         candidates[k].prev = profile.current /\ candidates[k].rev = profile'.current
    OBVIOUS
  <2>1. profile' # profile /\ DOMAIN profile = {"current", "active"}
    BY DEF RepairInv, RepairTypes
  <2>2. \/ ToggleProfile
        \/ \E c \in RepairCalls : ImportCreate(c) \/ ImportPoint(c) \/ Switch(c)
    BY <2>1 DEF RepairNext, ImportBegin, ImportLive, CandidateBegin, CandidateCreate, VerifyBegin, VerifyCurrent,
       VerifyStart, VerifyEnd, ActivateRead, ChainLive, Settle, RebindClone, RebindRun, Remap, Undo, RebindEnd,
       ResumeRun, RepairDies, TakeCheckpoint, CheckpointLogin, PreflightFails, CancelAuthRun, ResolveContext, SameConfig
  <2>3. CASE ToggleProfile
    BY <2>1, <2>3 DEF ToggleProfile
  <2>4. ASSUME NEW c \in RepairCalls, ImportCreate(c) PROVE FALSE
    BY <2>1, <2>4 DEF ImportCreate
  <2>5. ASSUME NEW c \in RepairCalls, ImportPoint(c) PROVE FALSE
    BY <2>1, <2>5 DEF ImportPoint
  <2>6. ASSUME NEW c \in RepairCalls, Switch(c)
        PROVE  \E k \in DOMAIN candidates :
                  candidates[k].prev = profile.current /\ candidates[k].rev = profile'.current
    <3>1. repair[c].pc = "switch" /\ CallOK(c)
      BY <2>6 DEF Switch, RepairInv, CallsOK
    <3>2. repair[c].k \in DOMAIN candidates /\ candidates[repair[c].k].rev = repair[c].rev
      BY <3>1 DEF CallOK, Active
    <3>3. profile.current = candidates[repair[c].k].prev /\ profile'.current = repair[c].rev
      BY <2>1, <2>6 DEF Switch
    <3> QED BY <3>2, <3>3
  <2> QED BY <2>2, <2>3, <2>4, <2>5, <2>6
<1> QED BY <1>1, InitRepair, NextRepair, PTL DEF RepairSpec, RepairReplacesItsBase

-----------------------------------------------------------------------------
(* Moving the paused run.                                                  *)

LEMMA InitBind == RepairInit => BindInv
<1> SUFFICES ASSUME RepairInit PROVE BindInv
  OBVIOUS
<1>1. RunTypes
  BY DEF RepairInit, RunTypes
<1>2. \A c \in RepairCalls : repair[c].pc = "idle"
  BY DEF RepairInit, RepairIdle, RepairCall
<1>3. Rebinding = {}
  BY <1>2 DEF Rebinding
<1>4. \A i \in Ordinals : /\ authRun.snaps[i] \in snapshots /\ authRun.snaps[i].rev = authRun.rev
                          /\ ckpts[i].snap = authRun.snaps[i]
  BY DEF RepairInit, Original
<1> QED BY <1>1, <1>2, <1>3, <1>4 DEF BindInv, Bound, Moving

\* A request that is moving the run stays as it is, and so does what it works on;
\* of the run, only its state may change, when nobody is moving it.
LEMMA BoundStays ==
  ASSUME RepairInv, BindInv, UNCHANGED <<snapshots, disturbed>>,
         DOMAIN authRun' = {"status", "dep", "rev", "snaps"},
         authRun'.rev = authRun.rev, authRun'.snaps = authRun.snaps,
         DOMAIN ckpts' = Ordinals, \A i \in Ordinals : DOMAIN ckpts'[i] = {"snap", "status", "tried"},
         \A i \in Ordinals : ckpts'[i].snap = ckpts[i].snap,
         disturbed = FALSE /\ Rebinding' # {} =>
             /\ Rebinding # {} /\ authRun'.status = authRun.status
             /\ \A i \in Ordinals : ckpts'[i].status = ckpts[i].status /\ ckpts'[i].tried = ckpts[i].tried,
         disturbed = FALSE => \A c \in RepairCalls :
             /\ repair'[c].pc \in {"run", "remap", "undo"} => repair'[c] = repair[c]
             /\ Moving(c) => repair'[c] = repair[c],
         \A k \in DOMAIN candidates : candidates'[k].prev = candidates[k].prev
  PROVE  BindInv'
<1>1. RunTypes'
  BY DEF BindInv, RunTypes
<1>2. ASSUME disturbed = FALSE PROVE Bound'
  <2>0. Bound
    BY <1>2 DEF BindInv
  <2>1. \A c \in RepairCalls : repair'[c].pc # "undo"
    BY <1>2, <2>0 DEF Bound
  <2>2. Rebinding' # {} => /\ authRun'.status = "paused"
                           /\ \A i \in Ordinals : ckpts'[i].status = "pending" /\ ckpts'[i].tried = FALSE
    BY <1>2, <2>0 DEF Bound
  <2>3. \A i \in Ordinals : authRun'.snaps[i] \in snapshots' /\ authRun'.snaps[i].rev = authRun'.rev
    BY <2>0 DEF Bound
  <2>4. ASSUME \A c \in RepairCalls : ~Moving(c)' PROVE \A i \in Ordinals : ckpts'[i].snap = authRun'.snaps[i]
    <3>1. \A c \in RepairCalls : ~Moving(c)
      BY <1>2, <2>4 DEF Moving
    <3> QED BY <2>0, <3>1 DEF Bound
  <2>5. ASSUME NEW c \in RepairCalls
        PROVE  /\ Moving(c)' => MovingOK(c)'
               /\ repair'[c].pc = "run" => ReadyOK(c)'
    <3>1. CASE repair'[c] = repair[c]
      <4>1. /\ Moving(c) => MovingOK(c)
            /\ repair[c].pc = "run" => ReadyOK(c)
        BY <2>0 DEF Bound
      <4>2. Moving(c)' => MovingOK(c)'
        BY <3>1, <4>1 DEF Moving, MovingOK
      <4>3. repair[c].pc = "run" => repair[c].k \in DOMAIN candidates
        BY DEF RepairInv, CallsOK, CallOK, Active
      <4>4. repair'[c].pc = "run" => ReadyOK(c)'
        BY <3>1, <4>1, <4>3 DEF ReadyOK, Clones, BaseOf
      <4> QED BY <4>2, <4>4
    <3>2. CASE repair'[c] # repair[c]
      BY <1>2, <3>2 DEF Moving
    <3> QED BY <3>1, <3>2
  <2> QED BY <2>1, <2>2, <2>3, <2>4, <2>5 DEF Bound
<1> QED BY <1>1, <1>2 DEF BindInv

\* The places where a request works on the run.
Movers == {"run", "remap", "undo"}

\* The requests that only import, build and verify.
Prepares(c) ==
    \/ ImportBegin(c) \/ ImportCreate(c) \/ ImportLive(c) \/ ImportPoint(c)
    \/ CandidateBegin(c) \/ CandidateCreate(c)
    \/ \E k \in DOMAIN candidates, rebind \in BOOLEAN : VerifyBegin(c, k, rebind)
    \/ VerifyCurrent(c) \/ VerifyStart(c)
    \/ \E ok \in BOOLEAN : VerifyEnd(c, ok)
    \/ ActivateRead(c) \/ Switch(c) \/ ChainLive(c) \/ Settle(c) \/ RebindEnd(c)

\* Only the request c changes.
OnlyCall(c) == DOMAIN repair' = RepairCalls /\ \A d \in RepairCalls \ {c} : repair'[d] = repair[d]

LEMMA GoCall ==
  ASSUME RepairTypes, NEW c \in RepairCalls, NEW r, RepairGo(c, r)
  PROVE  OnlyCall(c) /\ repair'[c] = r
  BY DEF RepairTypes, RepairGo, OnlyCall

LEMMA GoPc ==
  ASSUME RepairTypes, NEW c \in RepairCalls, NEW p, RepairPc(c, p)
  PROVE  OnlyCall(c) /\ repair'[c].pc = p
  BY DEF RepairTypes, RepairPc, OnlyCall, CallKeys

LEMMA GoDone ==
  ASSUME RepairTypes, NEW c \in RepairCalls, RepairDone(c)
  PROVE  OnlyCall(c) /\ repair'[c].pc = "idle"
  BY DEF RepairTypes, RepairDone, RepairGo, RepairIdle, RepairCall, OnlyCall

LEMMA PreparesCalls ==
  ASSUME RepairInv, NEW c \in RepairCalls, Prepares(c)
  PROVE  OnlyCall(c) /\ repair'[c].pc \notin Movers
<1>0. RepairTypes /\ DOMAIN repair[c] = CallKeys
  BY DEF RepairInv, RepairTypes
<1> USE DEF Movers
<1>1. CASE ImportBegin(c)
  <2>1. PICK r : r = RepairCall("import", 0, 0, FALSE) /\ RepairGo(c, r)
    BY <1>1 DEF ImportBegin, RepairBegin
  <2>2. r.pc = "import"
    BY <2>1 DEF RepairCall
  <2> QED BY <1>0, <2>1, <2>2, GoCall
<1>2. CASE CandidateBegin(c)
  <2>1. PICK r : r = RepairCall("candidate", 0, profile.current, FALSE) /\ RepairGo(c, r)
    BY <1>2 DEF CandidateBegin, RepairBegin
  <2>2. r.pc = "candidate"
    BY <2>1 DEF RepairCall
  <2> QED BY <1>0, <2>1, <2>2, GoCall
<1>3. CASE VerifyCurrent(c) \/ \E k \in DOMAIN candidates, rebind \in BOOLEAN : VerifyBegin(c, k, rebind)
  <2>1. PICK k, v, b : RepairGo(c, RepairCall("verify", k, v, b))
    BY <1>3 DEF VerifyCurrent, VerifyBegin, RepairBegin
  <2>2. PICK r : r = RepairCall("verify", k, v, b) /\ RepairGo(c, r)
    BY <2>1
  <2>3. r.pc = "verify"
    BY <2>2 DEF RepairCall
  <2> QED BY <1>0, <2>2, <2>3, GoCall
<1>4. CASE ImportCreate(c)
  <2>1. PICK r : r = [repair[c] EXCEPT !.pc = "import_live", !.rev = Len(chains) + 1]
    OBVIOUS
  <2>2. RepairGo(c, r)
    BY <1>4, <2>1 DEF ImportCreate
  <2>3. r.pc = "import_live"
    BY <1>0, <2>1 DEF CallKeys
  <2> QED BY <1>0, <2>2, <2>3, GoCall
<1>5. CASE RepairDone(c)
  BY <1>0, <1>5, GoDone
<1>6. CASE ImportPoint(c) \/ CandidateCreate(c)
  BY <1>5, <1>6 DEF ImportPoint, CandidateCreate
<1>7. CASE ImportLive(c) \/ ChainLive(c) \/ RebindEnd(c)
  <2>1. RepairPc(c, "import_point") \/ RepairPc(c, "settle") \/ RepairPc(c, "resume")
    BY <1>7 DEF ImportLive, ChainLive, RebindEnd
  <2> QED BY <1>0, <2>1, GoPc
<1>8. CASE VerifyStart(c)
  <2>1. CASE RepairGo(c, [repair[c] EXCEPT !.pc = "login", !.attempt = Len(attempts) + 1])
    <3>1. PICK r : r = [repair[c] EXCEPT !.pc = "login", !.attempt = Len(attempts) + 1]
      OBVIOUS
    <3>2. RepairGo(c, r) /\ r.pc = "login"
      BY <1>0, <2>1, <3>1 DEF CallKeys
    <3> QED BY <1>0, <3>2, GoCall
  <2> QED BY <1>5, <1>8, <2>1 DEF VerifyStart
<1>9. ASSUME NEW ok \in BOOLEAN, VerifyEnd(c, ok) PROVE OnlyCall(c) /\ repair'[c].pc \notin Movers
  <2>1. RepairDone(c) \/ RepairPc(c, "resume") \/ RepairPc(c, "activate")
    BY <1>9 DEF VerifyEnd
  <2> QED BY <1>0, <1>5, <2>1, GoPc
<1>10. CASE ActivateRead(c) \/ Switch(c) \/ Settle(c)
  <2>1. RepairDone(c) \/ RepairPc(c, "switch") \/ RepairPc(c, "rebind") \/ RepairPc(c, "chain")
    BY <1>10 DEF ActivateRead, Switch, Settle
  <2> QED BY <1>0, <1>5, <2>1, GoPc
<1> QED BY <1>1, <1>2, <1>3, <1>4, <1>6, <1>7, <1>8, <1>9, <1>10 DEF Prepares

\* The base of a candidate never changes.
LEMMA BasesStay == RepairInv /\ [RepairNext]_authVars => \A k \in DOMAIN candidates : candidates'[k].prev = candidates[k].prev
<1> SUFFICES ASSUME RepairInv, [RepairNext]_authVars
             PROVE  \A k \in DOMAIN candidates : candidates'[k].prev = candidates[k].prev
  OBVIOUS
<1>1. RepairTypes
  BY DEF RepairInv
<1>2. CASE candidates' = candidates
  BY <1>2
<1>3. ASSUME NEW k, NEW v, candidates' = [candidates EXCEPT ![k].status = v]
      PROVE  \A j \in DOMAIN candidates : candidates'[j].prev = candidates[j].prev
  BY <1>1, <1>3, MarkedOne DEF Marked
<1>4. ASSUME NEW c \in RepairCalls, CandidateCreate(c)
      PROVE  \A j \in DOMAIN candidates : candidates'[j].prev = candidates[j].prev
  <2>1. PICK e, t : e = [prev |-> repair[c].rev, rev |-> Len(chains) + 1, status |-> "draft"] /\ t = candidates'
    OBVIOUS
  <2>2. t = Append(candidates, e) /\ Sequence(candidates)
    BY <1>1, <1>4, <2>1 DEF CandidateCreate, RepairTypes
  <2>3. Extended(candidates, e, t)
    BY <2>2, Appended
  <2> QED BY <2>1, <2>3 DEF Extended
<1>5. CASE \E k, v : candidates' = [candidates EXCEPT ![k].status = v]
  BY <1>3, <1>5
<1>6. ASSUME NEW c \in RepairCalls,
             \/ \E k \in DOMAIN candidates, rebind \in BOOLEAN : VerifyBegin(c, k, rebind)
             \/ VerifyStart(c) \/ \E ok \in BOOLEAN : VerifyEnd(c, ok) \/ Switch(c) \/ Settle(c)
      PROVE  candidates' = candidates \/ \E k, v : candidates' = [candidates EXCEPT ![k].status = v]
  BY <1>6 DEF VerifyBegin, VerifyStart, VerifyEnd, Switch, Settle, SameProof
<1>7. \/ candidates' = candidates
      \/ \E k, v : candidates' = [candidates EXCEPT ![k].status = v]
      \/ \E c \in RepairCalls : CandidateCreate(c)
  BY <1>6 DEF RepairNext, ImportBegin, ImportCreate, ImportLive, ImportPoint, CandidateBegin, VerifyCurrent,
     ActivateRead, ChainLive, RebindClone, RebindRun, Remap, Undo, RebindEnd,
     ResumeRun, RepairDies, TakeCheckpoint, CheckpointLogin, PreflightFails, CancelAuthRun, ResolveContext, SameProof,
     ToggleProfile, authVars
<1> QED BY <1>2, <1>4, <1>5, <1>7

LEMMA BoundPrepares ==
  ASSUME RepairInv, BindInv, NEW c \in RepairCalls, Prepares(c), [RepairNext]_authVars PROVE BindInv'
<1>1. OnlyCall(c) /\ repair'[c].pc \notin Movers
  BY PreparesCalls
<1>2. SameRun
  BY DEF Prepares, ImportBegin, ImportCreate, ImportLive, ImportPoint, CandidateBegin, CandidateCreate,
     VerifyBegin, VerifyCurrent, VerifyStart, VerifyEnd, ActivateRead, Switch, ChainLive, Settle, RebindEnd
<1>3. ~Moving(c)
  BY DEF Prepares, ImportBegin, ImportCreate, ImportLive, ImportPoint, CandidateBegin, CandidateCreate,
     VerifyBegin, VerifyCurrent, VerifyStart, VerifyEnd, ActivateRead, Switch, ChainLive, Settle, RebindEnd,
     RepairBegin, Moving
<1>4. \A k \in DOMAIN candidates : candidates'[k].prev = candidates[k].prev
  BY BasesStay
<1>5. Rebinding' \subseteq Rebinding
  BY <1>1 DEF OnlyCall, Rebinding, Movers
<1>6. \A d \in RepairCalls : /\ repair'[d].pc \in {"run", "remap", "undo"} => repair'[d] = repair[d]
                             /\ Moving(d) => repair'[d] = repair[d]
  BY <1>1, <1>3 DEF OnlyCall, Movers
<1>7. UNCHANGED <<authRun, snapshots, ckpts, disturbed>>
  BY <1>2 DEF SameRun
<1>8. RunTypes
  BY DEF BindInv
<1> QED BY <1>4, <1>5, <1>6, <1>7, <1>8, BoundStays DEF RunTypes

LEMMA ResumeBound ==
  ASSUME RepairInv, BindInv, NEW c \in RepairCalls, ResumeRun(c) \/ RepairDies(c), [RepairNext]_authVars PROVE BindInv'
<1>0. RepairTypes /\ RunTypes
  BY DEF RepairInv, BindInv
<1>1. RepairDone(c) /\ UNCHANGED <<snapshots, ckpts>>
  BY DEF ResumeRun, RepairDies
<1>2. OnlyCall(c) /\ repair'[c].pc = "idle"
  BY <1>0, <1>1, GoDone
<1>3. \A k \in DOMAIN candidates : candidates'[k].prev = candidates[k].prev
  BY BasesStay
<1>4. Rebinding' \subseteq Rebinding
  BY <1>2 DEF OnlyCall, Rebinding
<1>5. /\ DOMAIN authRun' = {"status", "dep", "rev", "snaps"}
      /\ authRun'.rev = authRun.rev /\ authRun'.snaps = authRun.snaps
  BY <1>0 DEF RunTypes, ResumeRun, RepairDies
<1>6. CASE disturbed' = TRUE
  <2>1. RunTypes'
    BY <1>0, <1>1, <1>5, <1>6 DEF RunTypes
  <2> QED BY <1>6, <2>1 DEF BindInv
<1>7. CASE disturbed' # TRUE /\ ResumeRun(c)
  <2>1. repair[c].pc = "resume"
    BY <1>7 DEF ResumeRun
  <2>2. \A d \in RepairCalls : /\ repair'[d].pc \in {"run", "remap", "undo"} => repair'[d] = repair[d]
                               /\ Moving(d) => repair'[d] = repair[d]
    BY <1>2, <2>1 DEF OnlyCall, Moving
  <2>3. disturbed \in BOOLEAN
    BY <1>0 DEF RunTypes
  <2>4. disturbed' = disturbed /\ (Rebinding' # {} => authRun' = authRun)
    BY <1>4, <1>7, <2>3 DEF ResumeRun
  <2> QED BY <1>0, <1>1, <1>3, <1>4, <1>5, <2>2, <2>4, BoundStays DEF RunTypes
<1>8. CASE disturbed' # TRUE /\ RepairDies(c)
  <2>1. c \notin Rebinding
    BY <1>8 DEF RepairDies
  <2>2. \A d \in RepairCalls : /\ repair'[d].pc \in {"run", "remap", "undo"} => repair'[d] = repair[d]
                               /\ Moving(d) => repair'[d] = repair[d]
    BY <1>2, <2>1 DEF OnlyCall, Moving, Rebinding
  <2>3. authRun' = authRun
    BY <1>8 DEF RepairDies
  <2>4. disturbed' = disturbed
    BY <1>0, <1>8, <2>1 DEF RunTypes, RepairDies
  <2> QED BY <1>0, <1>1, <1>3, <1>4, <1>5, <2>2, <2>3, <2>4, BoundStays DEF RunTypes
<1> QED BY <1>6, <1>7, <1>8

LEMMA SchedulerBound ==
  ASSUME RepairInv, BindInv, [RepairNext]_authVars,
         \/ ToggleProfile \/ PreflightFails \/ CancelAuthRun \/ UNCHANGED authVars
         \/ \E i \in Ordinals : TakeCheckpoint(i) \/ \E ok \in BOOLEAN : CheckpointLogin(i, ok)
  PROVE  BindInv'
<1>0. RunTypes
  BY DEF BindInv
<1>1. \A k \in DOMAIN candidates : candidates'[k].prev = candidates[k].prev
  BY BasesStay
<1>2. UNCHANGED <<repair, snapshots>> /\ Rebinding' = Rebinding
  BY DEF ToggleProfile, PreflightFails, CancelAuthRun, authVars, TakeCheckpoint, CheckpointLogin, ResolveContext,
     SameRun, Rebinding
<1>3. /\ DOMAIN authRun' = {"status", "dep", "rev", "snaps"}
      /\ authRun'.rev = authRun.rev /\ authRun'.snaps = authRun.snaps
  BY <1>0 DEF RunTypes, ToggleProfile, PreflightFails, CancelAuthRun, authVars, TakeCheckpoint, CheckpointLogin,
     SameRun, PauseForAuth
<1>4. /\ DOMAIN ckpts' = Ordinals /\ \A i \in Ordinals : DOMAIN ckpts'[i] = {"snap", "status", "tried"}
      /\ \A i \in Ordinals : ckpts'[i].snap = ckpts[i].snap
  <2>1. CASE ckpts' = ckpts
    BY <1>0, <2>1 DEF RunTypes
  <2>2. CASE PauseForAuth
    BY <1>0, <2>2 DEF RunTypes, PauseForAuth
  <2>3. CASE CancelAuthRun
    BY <1>0, <2>3 DEF RunTypes, CancelAuthRun
  <2>4. ASSUME NEW i \in Ordinals, TakeCheckpoint(i) \/ \E ok \in BOOLEAN : CheckpointLogin(i, ok)
        PROVE  /\ DOMAIN ckpts' = Ordinals /\ \A j \in Ordinals : DOMAIN ckpts'[j] = {"snap", "status", "tried"}
               /\ \A j \in Ordinals : ckpts'[j].snap = ckpts[j].snap
    <3>1. CASE TakeCheckpoint(i)
      BY <1>0, <3>1 DEF RunTypes, TakeCheckpoint
    <3>2. CASE \E ok \in BOOLEAN : CheckpointLogin(i, ok)
      <4>1. PauseForAuth \/ ckpts' = [ckpts EXCEPT ![i].status = "done"]
        BY <3>2 DEF CheckpointLogin
      <4>2. CASE ckpts' = [ckpts EXCEPT ![i].status = "done"]
        BY <1>0, <4>2 DEF RunTypes
      <4> QED BY <2>2, <4>1, <4>2
    <3> QED BY <2>4, <3>1, <3>2
  <2> QED BY <2>1, <2>2, <2>3, <2>4 DEF ToggleProfile, SameRun, authVars, PreflightFails
<1>5. CASE disturbed' = TRUE
  <2>1. RunTypes'
    BY <1>0, <1>3, <1>4, <1>5 DEF RunTypes
  <2> QED BY <1>5, <2>1 DEF BindInv
<1>6. CASE disturbed' # TRUE
  <2>1. disturbed' = disturbed
    BY <1>0, <1>6 DEF RunTypes, ToggleProfile, PreflightFails, CancelAuthRun, authVars, TakeCheckpoint, CheckpointLogin,
       ResolveContext, SameRun
  <2>2. ASSUME disturbed = FALSE, Rebinding' # {} PROVE authRun' = authRun /\ ckpts' = ckpts
    <3>1. authRun.status = "paused" /\ Rebinding # {}
      BY <1>2, <2>2 DEF BindInv, Bound
    <3>2. ~CancelAuthRun
      BY <1>0, <1>6, <3>1 DEF CancelAuthRun, RunTypes
    <3> QED BY <3>1, <3>2 DEF ToggleProfile, SameRun, PreflightFails, authVars, TakeCheckpoint, CheckpointLogin
  <2>3. \A d \in RepairCalls : /\ repair'[d].pc \in {"run", "remap", "undo"} => repair'[d] = repair[d]
                               /\ Moving(d) => repair'[d] = repair[d]
    BY <1>2
  <2> QED BY <1>1, <1>2, <1>3, <1>4, <2>1, <2>2, <2>3, BoundStays
<1> QED BY <1>5, <1>6

LEMMA UndoBound ==
  ASSUME RepairInv, BindInv, NEW c \in RepairCalls, Undo(c) PROVE BindInv'
<1>0. RunTypes /\ repair[c].pc = "undo" /\ disturbed' = disturbed
  BY DEF BindInv, Undo
<1>1. disturbed # FALSE
  BY <1>0 DEF BindInv, Bound
<1>2. candidates[repair[c].k].prev \in Nat
  <2>1. repair[c].k \in DOMAIN candidates
    BY <1>0 DEF RepairInv, CallsOK, CallOK, Active
  <2> QED BY <2>1 DEF RepairInv, CallsOK, Numbers
<1>3. DOMAIN authRun' = {"status", "dep", "rev", "snaps"} /\ authRun'.rev \in Nat
  BY <1>0, <1>2 DEF Undo, RunTypes
<1>4. DOMAIN ckpts' = Ordinals /\ \A i \in Ordinals : DOMAIN ckpts'[i] = {"snap", "status", "tried"}
  BY <1>0 DEF Undo, RunTypes
<1> QED BY <1>0, <1>1, <1>3, <1>4 DEF BindInv, RunTypes

\* While a request moves the checkpoints, one of them is not where the run says.
LEMMA NoMover ==
  ASSUME RepairInv, Bound, NEW d \in RepairCalls, \A i \in Ordinals : ckpts[i].snap = authRun.snaps[i]
  PROVE  ~Moving(d)
<1> SUFFICES ASSUME Moving(d) PROVE FALSE
  OBVIOUS
<1>1. repair[d].moved \in 0..RunSize /\ repair[d].moved # RunSize
  BY DEF RepairInv, CallsOK, CallOK, Moving
<1>2. repair[d].moved + 1 \in Ordinals /\ ~(repair[d].moved + 1 <= repair[d].moved)
  BY <1>1, RepairAssumption DEF RepairAssumption, Ordinals
<1>3. MovingOK(d)
  BY DEF Bound
<1> QED BY <1>2, <1>3 DEF MovingOK

LEMMA CloneBound ==
  ASSUME RepairInv, BindInv, NEW c \in RepairCalls, RebindClone(c) PROVE BindInv'
<1>0. RunTypes /\ RepairTypes /\ DOMAIN repair[c] = CallKeys /\ repair[c].pc = "rebind"
      /\ UNCHANGED <<authRun, ckpts, disturbed, candidates>>
  BY DEF RebindClone, RepairInv, RepairTypes, BindInv, SameProof
<1>1. CASE UNCHANGED snapshots /\ RepairDone(c)
  <2>1. OnlyCall(c) /\ repair'[c].pc = "idle"
    BY <1>0, <1>1, GoDone
  <2>2. Rebinding' \subseteq Rebinding
    BY <2>1 DEF OnlyCall, Rebinding
  <2>3. \A d \in RepairCalls : /\ repair'[d].pc \in {"run", "remap", "undo"} => repair'[d] = repair[d]
                               /\ Moving(d) => repair'[d] = repair[d]
    BY <1>0, <2>1 DEF OnlyCall, Moving
  <2> QED BY <1>0, <1>1, <2>2, <2>3, BoundStays DEF RunTypes
<1>2. CASE /\ candidates[repair[c].k].status = "activated" /\ Untouched(repair[c].k)
           /\ snapshots' = snapshots \cup {CloneOf(i, repair[c].rev, c) : i \in Ordinals}
           /\ RepairGo(c, [repair[c] EXCEPT !.pc = "run", !.moved = 0, !.old = authRun.snaps])
  <2>1. PICK r : r = [repair[c] EXCEPT !.pc = "run", !.moved = 0, !.old = authRun.snaps]
    OBVIOUS
  <2>2. r.pc = "run" /\ r.moved = 0 /\ r.old = authRun.snaps /\ r.rev = repair[c].rev /\ r.k = repair[c].k
    BY <1>0, <2>1 DEF CallKeys
  <2>3. OnlyCall(c) /\ repair'[c] = r
    BY <1>0, <1>2, <2>1, GoCall
  <2>4. RunTypes'
    BY <1>0 DEF RunTypes
  <2>5. ASSUME disturbed = FALSE PROVE Bound'
    <3>0. Bound
      BY <2>5 DEF BindInv
    <3>1. /\ authRun.status = "paused" /\ authRun.rev = BaseOf(c)
          /\ \A i \in Ordinals : ckpts[i].status = "pending" /\ ckpts[i].tried = FALSE /\ ckpts[i].snap = authRun.snaps[i]
      <4>1. \A i \in Ordinals : ckpts[i].status = "pending" /\ ~ckpts[i].tried /\ ckpts[i].snap = authRun.snaps[i]
        BY <1>2 DEF Untouched
      <4>2. authRun.status = "paused" /\ authRun.rev = BaseOf(c)
        BY <1>2 DEF Untouched, BaseOf
      <4> QED BY <4>1, <4>2
    <3>2. \A d \in RepairCalls : repair'[d].pc # "undo"
      BY <2>2, <2>3, <3>0 DEF Bound, OnlyCall
    <3>3. \A i \in Ordinals : authRun'.snaps[i] \in snapshots' /\ authRun'.snaps[i].rev = authRun'.rev
      BY <1>0, <1>2, <3>0 DEF Bound
    <3>4. Clones(c)' = {CloneOf(i, repair[c].rev, c) : i \in Ordinals} /\ BaseOf(c)' = BaseOf(c)
      BY <1>0, <2>2, <2>3 DEF Clones, BaseOf
    <3>5. authRun.rev < repair[c].rev
      <4>1. repair[c].k \in DOMAIN candidates /\ candidates[repair[c].k].rev = repair[c].rev
        BY <1>0 DEF RepairInv, CallsOK, CallOK, Active
      <4> QED BY <3>1, <4>1 DEF RepairInv, CallsOK, Numbers, BaseOf
    <3>6. ReadyOK(c)'
      <4>1. repair'[c].moved = 0 /\ authRun'.rev >= BaseOf(c)' /\ repair'[c].old = authRun.snaps
        BY <1>0, <2>2, <2>3, <3>1, <3>4 DEF RunTypes
      <4>2. \A i \in Ordinals : authRun.snaps[i] \notin Clones(c)'
        <5>1. authRun.rev # repair[c].rev
          BY <1>0, <3>5 DEF RunTypes
        <5>2. \A x \in Clones(c)' : x.rev = repair[c].rev
          BY <3>4 DEF CloneOf
        <5> QED BY <3>0, <5>1, <5>2 DEF Bound
      <4> QED BY <1>0, <1>2, <3>1, <3>4, <4>1, <4>2 DEF ReadyOK
    <3>7. ASSUME NEW d \in RepairCalls \ {c}
          PROVE  /\ Moving(d)' => MovingOK(d)'
                 /\ repair'[d].pc = "run" => ReadyOK(d)'
      <4>1. repair'[d] = repair[d]
        BY <2>3 DEF OnlyCall
      <4>2. snapshots \subseteq snapshots'
        BY <1>2
      <4>3. (Moving(d) => MovingOK(d)) /\ (repair[d].pc = "run" => ReadyOK(d))
        BY <3>0 DEF Bound
      <4>4. Moving(d)' => MovingOK(d)'
        BY <1>0, <4>1, <4>3 DEF Moving, MovingOK
      <4>5. repair'[d].pc = "run" => ReadyOK(d)'
        BY <1>0, <4>1, <4>2, <4>3 DEF ReadyOK, Clones, BaseOf
      <4> QED BY <4>4, <4>5
    <3>8. ~Moving(c)'
      BY <2>2, <2>3 DEF Moving
    <3> QED BY <1>0, <3>1, <3>2, <3>3, <3>6, <3>7, <3>8 DEF Bound
  <2> QED BY <1>0, <2>4, <2>5 DEF BindInv
<1> QED BY <1>1, <1>2 DEF RebindClone

LEMMA SwapBound ==
  ASSUME RepairInv, BindInv, NEW c \in RepairCalls, RebindRun(c) PROVE BindInv'
<1>0. RunTypes /\ RepairTypes /\ DOMAIN repair[c] = CallKeys /\ repair[c].pc = "run"
      /\ UNCHANGED <<ckpts, disturbed, candidates>>
  BY DEF RebindRun, RepairInv, RepairTypes, BindInv, SameProof
<1>1. /\ repair[c].k \in DOMAIN candidates /\ candidates[repair[c].k].rev = repair[c].rev
      /\ BaseOf(c) \in Nat /\ BaseOf(c) < repair[c].rev /\ repair[c].rev \in Nat
  <2>1. repair[c].k \in DOMAIN candidates /\ candidates[repair[c].k].rev = repair[c].rev
    BY <1>0 DEF RepairInv, CallsOK, CallOK, Active
  <2> QED BY <2>1 DEF RepairInv, CallsOK, Numbers, BaseOf
<1>2. Clones(c) = {CloneOf(i, repair[c].rev, c) : i \in Ordinals}
  BY DEF Clones
<1>3. CASE /\ authRun.rev = BaseOf(c) /\ authRun.status = "paused"
           /\ authRun' = [authRun EXCEPT !.dep = repair[c].rev, !.rev = repair[c].rev,
                                         !.snaps = [i \in Ordinals |-> CloneOf(i, repair[c].rev, c)]]
           /\ RepairPc(c, "remap") /\ UNCHANGED snapshots
  <2>1. OnlyCall(c) /\ repair'[c].pc = "remap"
    BY <1>0, <1>3, GoPc
  <2>2. repair'[c].moved = repair[c].moved /\ repair'[c].old = repair[c].old /\ repair'[c].rev = repair[c].rev
    BY <1>0, <1>3 DEF RepairPc, CallKeys, RepairTypes
  <2>3. /\ DOMAIN authRun' = {"status", "dep", "rev", "snaps"} /\ authRun'.rev = repair[c].rev
        /\ authRun'.status = "paused" /\ \A i \in Ordinals : authRun'.snaps[i] = CloneOf(i, repair[c].rev, c)
    BY <1>0, <1>3 DEF RunTypes
  <2>4. RunTypes'
    BY <1>0, <1>1, <2>3 DEF RunTypes
  <2>5. ASSUME disturbed = FALSE PROVE Bound'
    <3>0. Bound
      BY <2>5 DEF BindInv
    <3>1. ReadyOK(c)
      BY <1>0, <3>0 DEF Bound
    <3>2. /\ Rebinding # {}
          /\ \A i \in Ordinals : ckpts[i].status = "pending" /\ ckpts[i].tried = FALSE
      <4>1. c \in Rebinding
        BY <1>0 DEF Rebinding
      <4> QED BY <3>0, <4>1 DEF Bound
    <3>3. \A i \in Ordinals : ckpts[i].snap = repair[c].old[i] /\ authRun.snaps[i] = repair[c].old[i]
      BY <1>3, <3>1 DEF ReadyOK
    <3>4. \A d \in RepairCalls : ~Moving(d)
      BY <3>0, <3>3, NoMover
    <3>5. \A i \in Ordinals : CloneOf(i, repair[c].rev, c) \in Clones(c)
      BY <1>2
    <3>6. \A i \in Ordinals : authRun'.snaps[i] \in snapshots' /\ authRun'.snaps[i].rev = authRun'.rev
      BY <1>3, <2>3, <3>1, <3>5 DEF ReadyOK, CloneOf
    <3>7. \A d \in RepairCalls : repair'[d].pc # "undo"
      BY <2>1, <3>0 DEF Bound, OnlyCall
    <3>8. MovingOK(c)'
      <4>1. repair'[c].moved = 0 /\ \A i \in Ordinals : ~(i <= 0)
        BY <2>2, <3>1 DEF ReadyOK, Ordinals
      <4>2. \A i \in Ordinals : repair[c].old[i] # CloneOf(i, repair[c].rev, c)
        BY <3>1, <3>3, <3>5 DEF ReadyOK
      <4> QED BY <1>0, <2>2, <2>3, <3>3, <4>1, <4>2 DEF MovingOK
    <3>9. Moving(c)'
      <4>1. repair'[c].moved = 0 /\ RunSize # 0
        BY <2>2, <3>1, RepairAssumption DEF ReadyOK, RepairAssumption
      <4> QED BY <2>1, <4>1 DEF Moving
    <3>10. ASSUME NEW d \in RepairCalls \ {c}
           PROVE  /\ Moving(d)' => MovingOK(d)'
                  /\ repair'[d].pc = "run" => ReadyOK(d)'
      <4>1. repair'[d] = repair[d]
        BY <2>1 DEF OnlyCall
      <4>2. ~Moving(d)'
        BY <3>4, <4>1 DEF Moving
      <4>3. ASSUME repair[d].pc = "run" PROVE ReadyOK(d)'
        <5>1. ReadyOK(d)
          BY <3>0, <4>3 DEF Bound
        <5>2. repair[d].k \in DOMAIN candidates
          BY <4>3 DEF RepairInv, CallsOK, CallOK, Active
        <5>3. BaseOf(d) \in Nat
          BY <5>2 DEF RepairInv, CallsOK, Numbers, BaseOf
        <5>4. authRun'.rev >= BaseOf(d) /\ authRun'.rev # BaseOf(d)
          BY <1>1, <1>3, <2>3, <5>1, <5>3 DEF ReadyOK
        <5>5. BaseOf(d)' = BaseOf(d) /\ Clones(d)' = Clones(d)
          BY <1>0, <4>1 DEF BaseOf, Clones
        <5>6. \A i \in Ordinals : authRun'.snaps[i] \notin Clones(d)
          <6>1. \A x \in Clones(d) : x.by = d
            BY DEF Clones, CloneOf
          <6>2. \A i \in Ordinals : authRun'.snaps[i].by = c
            <7>1. \A i \in Ordinals : CloneOf(i, repair[c].rev, c).by = c
              BY DEF CloneOf
            <7> QED BY <2>3, <7>1
          <6> QED BY <6>1, <6>2
        <5> QED BY <1>3, <4>1, <5>1, <5>4, <5>5, <5>6 DEF ReadyOK
      <4> QED BY <4>1, <4>2, <4>3
    <3> QED BY <1>0, <2>1, <2>3, <3>2, <3>6, <3>7, <3>8, <3>9, <3>10 DEF Bound
  <2> QED BY <1>0, <2>4, <2>5 DEF BindInv
<1>4. CASE snapshots' = snapshots \ Clones(c) /\ RepairDone(c) /\ UNCHANGED authRun
  <2>1. OnlyCall(c) /\ repair'[c].pc = "idle"
    BY <1>0, <1>4, GoDone
  <2>2. RunTypes'
    BY <1>0, <1>4 DEF RunTypes
  <2>3. ASSUME disturbed = FALSE PROVE Bound'
    <3>0. Bound
      BY <2>3 DEF BindInv
    <3>1. ReadyOK(c)
      BY <1>0, <3>0 DEF Bound
    <3>2. Rebinding' \subseteq Rebinding
      BY <2>1 DEF OnlyCall, Rebinding
    <3>3. \A d \in RepairCalls : repair'[d].pc # "undo"
      BY <2>1, <3>0 DEF Bound, OnlyCall
    <3>4. \A i \in Ordinals : authRun'.snaps[i] \in snapshots' /\ authRun'.snaps[i].rev = authRun'.rev
      BY <1>4, <3>0, <3>1 DEF Bound, ReadyOK
    <3>5. ~Moving(c) /\ ~Moving(c)'
      BY <1>0, <2>1 DEF Moving
    <3>6. ASSUME NEW d \in RepairCalls \ {c}
          PROVE  /\ Moving(d)' <=> Moving(d)
                 /\ Moving(d)' => MovingOK(d)'
                 /\ repair'[d].pc = "run" => ReadyOK(d)'
      <4>1. repair'[d] = repair[d]
        BY <2>1 DEF OnlyCall
      <4>2. (Moving(d) => MovingOK(d)) /\ (repair[d].pc = "run" => ReadyOK(d))
        BY <3>0 DEF Bound
      <4>3. Moving(d)' <=> Moving(d)
        BY <4>1 DEF Moving
      <4>4. Moving(d)' => MovingOK(d)'
        BY <1>0, <1>4, <4>1, <4>2, <4>3 DEF MovingOK
      <4>5. Clones(d) \cap Clones(c) = {}
        <5>1. (\A x \in Clones(d) : x.by = d) /\ (\A x \in Clones(c) : x.by = c)
          BY DEF Clones, CloneOf
        <5> QED BY <5>1
      <4>6. BaseOf(d)' = BaseOf(d) /\ Clones(d)' = Clones(d)
        BY <1>0, <4>1 DEF BaseOf, Clones
      <4>7. repair'[d].pc = "run" => ReadyOK(d)'
        BY <1>0, <1>4, <4>1, <4>2, <4>5, <4>6 DEF ReadyOK
      <4> QED BY <4>3, <4>4, <4>7
    <3>7. (\A d \in RepairCalls : ~Moving(d)') => \A i \in Ordinals : ckpts'[i].snap = authRun'.snaps[i]
      <4>1. (\A d \in RepairCalls : ~Moving(d)') => \A d \in RepairCalls : ~Moving(d)
        BY <3>5, <3>6
      <4> QED BY <1>0, <1>4, <3>0, <4>1 DEF Bound
    <3>8. Rebinding' # {} => /\ authRun'.status = "paused"
                             /\ \A i \in Ordinals : ckpts'[i].status = "pending" /\ ckpts'[i].tried = FALSE
      BY <1>0, <1>4, <3>0, <3>2 DEF Bound
    <3>9. repair'[c].pc # "run"
      BY <2>1
    <3> QED BY <3>3, <3>4, <3>5, <3>6, <3>7, <3>8, <3>9 DEF Bound
  <2> QED BY <1>0, <2>2, <2>3 DEF BindInv
<1> QED BY <1>2, <1>3, <1>4 DEF RebindRun, BaseOf

LEMMA RemapBound ==
  ASSUME RepairInv, BindInv, NEW c \in RepairCalls, Remap(c) PROVE BindInv'
<1>0. RunTypes /\ RepairTypes /\ DOMAIN repair[c] = CallKeys /\ repair[c].pc = "remap"
      /\ UNCHANGED <<authRun, snapshots, disturbed, candidates>>
  BY DEF Remap, RepairInv, RepairTypes, BindInv, SameProof
<1>1. PICK n : n = repair[c].moved + 1
  OBVIOUS
<1>2. repair[c].moved \in 0..RunSize /\ n \in Ordinals /\ Moving(c)
  <2>1. repair[c].moved \in 0..RunSize
    BY DEF RepairInv, CallsOK, CallOK
  <2>2. n <= RunSize
    BY <1>1 DEF Remap
  <2> QED BY <1>0, <1>1, <2>1, <2>2, RepairAssumption DEF RepairAssumption, Ordinals, Moving
<1>3. /\ DOMAIN ckpts' = Ordinals /\ \A i \in Ordinals : DOMAIN ckpts'[i] = {"snap", "status", "tried"}
      /\ \A i \in Ordinals : ckpts'[i].status = ckpts[i].status /\ ckpts'[i].tried = ckpts[i].tried
  BY <1>0 DEF Remap, RunTypes
<1>4. RunTypes'
  BY <1>0, <1>3 DEF RunTypes
<1>5. ASSUME disturbed = FALSE PROVE Bound'
  <2>0. Bound
    BY <1>5 DEF BindInv
  <2>1. MovingOK(c) /\ authRun.status = "paused"
        /\ \A i \in Ordinals : ckpts[i].status = "pending" /\ ckpts[i].tried = FALSE
    <3>1. c \in Rebinding
      BY <1>0 DEF Rebinding
    <3> QED BY <1>2, <2>0, <3>1 DEF Bound
  <2>2. ckpts[n].snap = repair[c].old[n] /\ repair[c].old[n] # CloneOf(n, repair[c].rev, c)
        /\ authRun.snaps[n] = CloneOf(n, repair[c].rev, c)
    BY <1>1, <1>2, <2>1 DEF MovingOK, Ordinals
  <2>3. ckpts[n].status = "pending" /\ ~ckpts[n].tried
    BY <1>2, <2>1
  <2>4. /\ ckpts' = [ckpts EXCEPT ![n].snap = CloneOf(n, repair[c].rev, c)]
        /\ RepairGo(c, [repair[c] EXCEPT !.moved = n])
    BY <1>1, <2>2, <2>3 DEF Remap
  <2>5. PICK r : r = [repair[c] EXCEPT !.moved = n]
    OBVIOUS
  <2>6. r.pc = "remap" /\ r.moved = n /\ r.old = repair[c].old /\ r.rev = repair[c].rev
    BY <1>0, <2>5 DEF CallKeys
  <2>7. OnlyCall(c) /\ repair'[c] = r
    BY <1>0, <2>4, <2>5, GoCall
  <2>8. \A i \in Ordinals : ckpts'[i].snap = IF i = n THEN CloneOf(i, repair[c].rev, c) ELSE ckpts[i].snap
    BY <1>0, <2>4 DEF RunTypes
  <2>9. \A i \in Ordinals :
           /\ authRun.snaps[i] = CloneOf(i, repair[c].rev, c) /\ repair[c].old[i] # CloneOf(i, repair[c].rev, c)
           /\ ckpts'[i].snap = IF i <= n THEN CloneOf(i, repair[c].rev, c) ELSE repair[c].old[i]
    <3> SUFFICES ASSUME NEW i \in Ordinals
                 PROVE  ckpts'[i].snap = IF i <= n THEN CloneOf(i, repair[c].rev, c) ELSE repair[c].old[i]
      BY <2>1 DEF MovingOK
    <3>1. i = n \/ (i <= n <=> i <= repair[c].moved)
      BY <1>1, <1>2 DEF Ordinals
    <3>2. ckpts[i].snap = IF i <= repair[c].moved THEN CloneOf(i, repair[c].rev, c) ELSE repair[c].old[i]
      BY <2>1 DEF MovingOK
    <3>3. CASE i = n
      BY <1>2, <2>8, <3>3 DEF Ordinals
    <3> QED BY <2>8, <3>1, <3>2, <3>3
  <2>10. MovingOK(c)'
    BY <1>0, <2>6, <2>7, <2>9 DEF MovingOK
  <2>11. ~Moving(c)' => \A i \in Ordinals : ckpts'[i].snap = authRun'.snaps[i]
    BY <1>0, <2>6, <2>7, <2>9 DEF Moving, Ordinals
  <2>12. ASSUME NEW d \in RepairCalls \ {c}
         PROVE  /\ Moving(d)' => MovingOK(d)'
                /\ repair'[d].pc = "run" => ReadyOK(d)'
    <3>1. repair'[d] = repair[d]
      BY <2>7 DEF OnlyCall
    <3>2. ~Moving(d)
      <4>1. Moving(d) => authRun.snaps[n] = CloneOf(n, repair[d].rev, d)
        BY <1>2, <2>0 DEF Bound, MovingOK
      <4>2. CloneOf(n, repair[d].rev, d).by = d /\ CloneOf(n, repair[c].rev, c).by = c
        BY DEF CloneOf
      <4> QED BY <2>2, <4>1, <4>2
    <3>3. ASSUME repair[d].pc = "run" PROVE ReadyOK(d)'
      <4>1. ReadyOK(d)
        BY <2>0, <3>3 DEF Bound
      <4>2. authRun.rev # BaseOf(d)
        BY <1>2, <2>2, <4>1 DEF ReadyOK
      <4>3. BaseOf(d)' = BaseOf(d) /\ Clones(d)' = Clones(d)
        BY <1>0, <3>1 DEF BaseOf, Clones
      <4> QED BY <1>0, <3>1, <4>1, <4>2, <4>3 DEF ReadyOK
    <3> QED BY <3>1, <3>2, <3>3 DEF Moving
  <2>13. \A d \in RepairCalls : repair'[d].pc # "undo"
    BY <2>0, <2>6, <2>7 DEF Bound, OnlyCall
  <2>14. \A i \in Ordinals : authRun'.snaps[i] \in snapshots' /\ authRun'.snaps[i].rev = authRun'.rev
    BY <1>0, <2>0 DEF Bound
  <2>15. repair'[c].pc # "run"
    BY <2>6, <2>7
  <2> QED BY <1>0, <1>3, <2>1, <2>10, <2>11, <2>12, <2>13, <2>14, <2>15 DEF Bound
<1> QED BY <1>0, <1>4, <1>5 DEF BindInv

LEMMA NextBind == RepairInv /\ BindInv /\ [RepairNext]_authVars => BindInv'
<1> SUFFICES ASSUME RepairInv, BindInv, [RepairNext]_authVars PROVE BindInv'
  OBVIOUS
<1>1. ASSUME NEW c \in RepairCalls, Prepares(c) PROVE BindInv'
  BY <1>1, BoundPrepares
<1>2. ASSUME NEW c \in RepairCalls, RebindClone(c) \/ RebindRun(c) \/ Remap(c) PROVE BindInv'
  BY <1>2, CloneBound, SwapBound, RemapBound
<1>3. ASSUME NEW c \in RepairCalls, Undo(c) \/ ResumeRun(c) \/ RepairDies(c) PROVE BindInv'
  BY <1>3, UndoBound, ResumeBound
<1>4. CASE \/ ToggleProfile \/ PreflightFails \/ CancelAuthRun \/ UNCHANGED authVars
           \/ \E i \in Ordinals : TakeCheckpoint(i) \/ \E ok \in BOOLEAN : CheckpointLogin(i, ok)
  BY <1>4, SchedulerBound
<1> QED BY <1>1, <1>2, <1>3, <1>4 DEF RepairNext, Prepares

\* For any number of them: the live revision has passed a verification or was
\* imported, and a run nobody else touched while it was moved is, when no move
\* is under way, whole: every checkpoint and the run itself on snapshots of one
\* revision (rebind_paused_run_auth and its undo).
THEOREM RepairsSound == RepairSpec => []RepairSound
<1>1. RepairInv /\ BindInv => RepairSound
  <2> SUFFICES ASSUME RepairInv, BindInv, Rebinding = {}, ~disturbed, NEW i \in Ordinals
               PROVE  /\ ckpts[i].snap = authRun.snaps[i] /\ ckpts[i].snap \in snapshots
                      /\ ckpts[i].snap.rev = authRun.rev
    BY DEF RepairSound, RebindAllOrNothing, RepairInv
  <2>1. Bound
    BY DEF BindInv, RunTypes
  <2>2. \A c \in RepairCalls : ~Moving(c)
    BY DEF Moving, Rebinding
  <2> QED BY <2>1, <2>2 DEF Bound
<1>2. RepairSpec => [](RepairInv /\ BindInv)
  BY InitRepair, NextRepair, InitBind, NextBind, PTL DEF RepairSpec
<1> QED BY <1>1, <1>2, PTL

-----------------------------------------------------------------------------
(* UnlockPlan.                                                             *)

UnlockSpec == UnlockInit /\ [][UnlockNext]_unlockVars

UnlockType ==
    /\ unlockSteps \in [StepNumbers -> StepStatuses \cup {"absent"}]
    /\ unlockEdits \in Nat

LEMMA InitUnlock == UnlockInit => UnlockType
BY DEF UnlockInit, UnlockType

\* Only the command that counts as an edit moves a stored step.
LEMMA NextUnlock ==
    ASSUME UnlockType, [UnlockNext]_unlockVars
    PROVE  /\ UnlockType'
           /\ \A i \in StepNumbers : (unlockSteps[i] \in StepStatuses /\ unlockSteps'[i] # unlockSteps[i])
                                        => unlockEdits' # unlockEdits
<1> USE DEF UnlockType
<1>1. ASSUME NEW d \in Seeders, NEW binding \in BOOLEAN, StartSeeding(d, binding)
      PROVE  UNCHANGED <<unlockSteps, unlockEdits>>
  BY <1>1 DEF StartSeeding
<1>2. ASSUME NEW d \in Seeders, LookUpStep(d) \/ SeedFacts(d) \/ SeederDies(d)
      PROVE  UNCHANGED <<unlockSteps, unlockEdits>>
  BY <1>2 DEF LookUpStep, SeedFacts, SeederDies
<1>3. ASSUME NEW d \in Seeders, SeedStep(d)
      PROVE  /\ unlockEdits' = unlockEdits
             /\ \/ unlockSteps' = unlockSteps
                \/ \E k \in StepNumbers : unlockSteps[k] = "absent" /\ unlockSteps' = [unlockSteps EXCEPT ![k] = "pending"]
  BY <1>3 DEF SeedStep, InsertStep
<1>4. ASSUME NEW f \in Facts, NEW state, NEW manual, NEW evidence, NEW run,
             RecordFact(f, state, evidence, run, manual)
      PROVE  unlockSteps' = unlockSteps /\ unlockEdits' = unlockEdits + 1
  BY <1>4 DEF RecordFact
<1>5. ASSUME NEW k \in StepNumbers, NEW status \in StepStatuses, SetStep(k, status)
      PROVE  unlockSteps' = [unlockSteps EXCEPT ![k] = status] /\ unlockEdits' = unlockEdits + 1
  BY <1>5 DEF SetStep
<1>6. CASE UNCHANGED unlockVars
  BY <1>6 DEF unlockVars
<1>7. CASE UnlockNext
  <2>1. \/ UNCHANGED <<unlockSteps, unlockEdits>>
        \/ /\ unlockEdits' = unlockEdits
           /\ \E k \in StepNumbers : unlockSteps[k] = "absent" /\ unlockSteps' = [unlockSteps EXCEPT ![k] = "pending"]
        \/ unlockSteps' = unlockSteps /\ unlockEdits' = unlockEdits + 1
        \/ /\ unlockEdits' = unlockEdits + 1
           /\ \E k \in StepNumbers, status \in StepStatuses : unlockSteps' = [unlockSteps EXCEPT ![k] = status]
    BY <1>7, <1>1, <1>2, <1>3, <1>4, <1>5 DEF UnlockNext
  <2> QED
    BY <2>1 DEF StepStatuses
<1> QED
  BY <1>6, <1>7

\* Whatever the seeders do in whatever order, and however often they die and start
\* again (seed_default_plan): a step somebody worked on moves only by an edit.
THEOREM ProgressKept == UnlockSpec => ProgressSurvivesSeeding
<1>1. UnlockSpec => []UnlockType
  BY InitUnlock, NextUnlock, PTL DEF UnlockSpec
<1>2. UnlockType /\ [UnlockNext]_unlockVars =>
        [\A i \in StepNumbers : (unlockSteps[i] \in StepStatuses /\ unlockSteps'[i] # unlockSteps[i]) => unlockEdits' # unlockEdits]_unlockVars
  BY NextUnlock
<1> QED
  BY <1>1, <1>2, PTL DEF UnlockSpec, ProgressSurvivesSeeding

-----------------------------------------------------------------------------
(* AiSession.  Calls are counted per tool and compared with what the       *)
(* answers of the user cover.                                              *)

SessionSpec == SessionInit /\ [][SessionNext]_sessionVars

\* What a session is made of; the arguments decide most of it once and for all.
SessionRecords ==
    [state : {"idle", "open", "closed"}, mode : {a.mode : a \in SessionArgs} \cup {"none"},
     yes : {a.yes : a \in SessionArgs} \cup {FALSE}, interactive : {a.interactive : a \in SessionArgs} \cup {FALSE},
     dry : {a.dry : a \in SessionArgs} \cup {FALSE}, approval : {Approval(a) : a \in SessionArgs} \cup {"none"},
     status : {[c \in Capabilities |-> CapabilityStatus(a, c)] : a \in SessionArgs}
                 \cup {[c \in Capabilities |-> "unknown"]},
     trusted : SUBSET Tools, granted : SUBSET Tools, exit : {"ok", "error", "approval"}]

SessionTypes ==
    /\ session \in [Sessions -> SessionRecords]
    /\ ran \in [Sessions -> [Tools -> Nat]]
    /\ approved \in [Sessions -> [Tools -> Nat]]
    /\ toolCalls \in Nat /\ toolCalls <= MaxToolCalls

\* No tool ran more often than calls were handed over, none before the session
\* began, and an answer for the session covers every call there can be.
CallsCounted ==
    \A s \in Sessions, t \in Tools :
      /\ ran[s][t] <= toolCalls
      /\ session[s].state = "idle" => ran[s][t] = 0
      /\ t \in session[s].granted => approved[s][t] = MaxToolCalls

SessionInv == SessionTypes /\ CallsCounted /\ RisksAreApproved

LEMMA InitSession == SessionInit => SessionInv
<1> SUFFICES ASSUME SessionInit PROVE SessionInv
  OBVIOUS
<1>1. NoSession \in SessionRecords
  BY DEF NoSession, SessionRecords
<1>2. SessionTypes
  BY <1>1, SessionAssumption DEF SessionInit, SessionTypes
<1>3. CallsCounted
  BY SessionAssumption DEF SessionInit, CallsCounted, NoSession
<1>4. RisksAreApproved
  BY SessionAssumption DEF SessionInit, RisksAreApproved, NoSession
<1> QED
  BY <1>2, <1>3, <1>4 DEF SessionInv

\* A step that runs nothing and leaves the policy of an open session alone.
LEMMA Quiet ==
    ASSUME SessionInv, NEW s \in Sessions, session[s].state # "idle",
           NEW r \in SessionRecords, session' = [session EXCEPT ![s] = r],
           r.state # "idle",
           r.yes = session[s].yes, r.approval = session[s].approval, r.trusted = session[s].trusted,
           r.granted = session[s].granted,
           UNCHANGED <<ran, approved>>,
           toolCalls' \in Nat, toolCalls <= toolCalls', toolCalls' <= MaxToolCalls
    PROVE  SessionInv'
<1> USE SessionAssumption DEF SessionInv, SessionTypes
<1>1. SessionTypes'
  OBVIOUS
<1>2. CallsCounted'
  BY DEF CallsCounted
<1>3. RisksAreApproved'
  BY DEF RisksAreApproved
<1> QED
  BY <1>1, <1>2, <1>3

\* The record a call leaves: its exit code and state, the rest as it was.
LEMMA ExitRecord ==
    ASSUME SessionTypes, NEW s \in Sessions, session[s].state = "open",
           NEW code \in {"ok", "error", "approval"}
    PROVE  \E r \in SessionRecords :
             /\ WithExit(s, code) = [session EXCEPT ![s] = r]
             /\ r.state # "idle"
             /\ r.yes = session[s].yes /\ r.approval = session[s].approval
             /\ r.trusted = session[s].trusted /\ r.granted = session[s].granted
<1> DEFINE r == [session[s] EXCEPT !.exit = Worse(@, code), !.state = AfterCall(s)]
<1>1. session \in [Sessions -> SessionRecords] /\ session[s] \in SessionRecords
  BY DEF SessionTypes
<1>2. Worse(session[s].exit, code) \in {"ok", "error", "approval"}
  BY DEF Worse
<1>3. AfterCall(s) \in {"open", "closed"}
  BY DEF AfterCall
<1>4. r \in SessionRecords
  BY <1>1, <1>2, <1>3 DEF SessionRecords
<1>5. WithExit(s, code) = [session EXCEPT ![s] = r]
  BY <1>1 DEF WithExit
<1>6. /\ r.state # "idle" /\ r.yes = session[s].yes /\ r.approval = session[s].approval
      /\ r.trusted = session[s].trusted /\ r.granted = session[s].granted
  BY <1>1, <1>3 DEF SessionRecords
<1> QED
  BY <1>4, <1>5, <1>6

\* What lets a call run without an answer of its own.
Excused(s, t) ==
    \/ ~t.risky \/ session[s].yes \/ session[s].approval \notin {"always", "on-risk"}
    \/ t \in session[s].trusted \/ t \in session[s].granted

\* The answers cover n calls after this one.
Answered(s, t, n) ==
    n = approved[s][t] + 1 \/ n = MaxToolCalls \/ (n = approved[s][t] /\ Excused(s, t))

\* A call that runs its tool, once, after the answer it had to have.
LEMMA Ran ==
    ASSUME SessionInv, NEW s \in Sessions, session[s].state = "open", NEW t \in Tools, NEW ok \in BOOLEAN,
           NEW granted \in SUBSET Tools, Invoke(s, t, granted, ok), CountCall,
           granted = session[s].granted \/ (granted = session[s].granted \cup {t} /\ approved'[s][t] = MaxToolCalls),
           NEW n \in Nat, approved' = [approved EXCEPT ![s][t] = n],
           t \in session[s].granted => n = MaxToolCalls,
           Answered(s, t, n)
    PROVE  SessionInv'
<1> USE SessionAssumption DEF SessionInv, SessionTypes
<1>1. PICK q \in SessionRecords :
             /\ WithExit(s, IF ok \/ session[s].dry THEN "ok" ELSE "error") = [session EXCEPT ![s] = q]
             /\ q.state # "idle"
             /\ q.yes = session[s].yes /\ q.approval = session[s].approval
             /\ q.trusted = session[s].trusted /\ q.granted = session[s].granted
  BY ExitRecord
<1> DEFINE r == [q EXCEPT !.granted = granted]
<1>2. r \in SessionRecords /\ session' = [session EXCEPT ![s] = r]
  BY <1>1 DEF Invoke, SessionRecords
<1>3. /\ r.state # "idle"
      /\ r.yes = session[s].yes /\ r.approval = session[s].approval
      /\ r.trusted = session[s].trusted /\ r.granted = granted
  BY <1>1 DEF SessionRecords
<1> HIDE DEF r
<1>4. ran' \in [Sessions -> [Tools -> Nat]]
  BY DEF Invoke
<1>5. approved' \in [Sessions -> [Tools -> Nat]]
  OBVIOUS
<1>6. \A v \in Sessions, u \in Tools : ran'[v][u] = ran[v][u] \/ (v = s /\ u = t /\ ran'[v][u] = ran[v][u] + 1)
  BY DEF Invoke
<1>7. \A v \in Sessions, u \in Tools : approved'[v][u] = IF v = s /\ u = t THEN n ELSE approved[v][u]
  OBVIOUS
<1>8. toolCalls' = toolCalls + 1 /\ toolCalls' <= MaxToolCalls
  BY DEF CountCall
<1>9. \A v \in Sessions : session'[v] = IF v = s THEN r ELSE session[v]
  BY <1>2
<1>10. SessionTypes'
  BY <1>2, <1>4, <1>5, <1>8
<1>11. CallsCounted'
  <2> SUFFICES ASSUME NEW v \in Sessions, NEW u \in Tools
               PROVE  /\ ran'[v][u] <= toolCalls'
                      /\ session'[v].state = "idle" => ran'[v][u] = 0
                      /\ u \in session'[v].granted => approved'[v][u] = MaxToolCalls
    BY DEF CallsCounted
  <2>0. ran[v][u] \in Nat /\ ran'[v][u] \in Nat
    BY <1>4
  <2>1. ran'[v][u] <= toolCalls'
    BY <2>0, <1>6, <1>8 DEF CallsCounted
  <2>2. session'[v].state = "idle" => ran'[v][u] = 0
    BY <1>6, <1>9, <1>3 DEF CallsCounted
  <2>3. u \in session'[v].granted => approved'[v][u] = MaxToolCalls
    BY <1>7, <1>9, <1>3 DEF CallsCounted
  <2> QED
    BY <2>1, <2>2, <2>3
<1>12. RisksAreApproved'
  <2> SUFFICES ASSUME NEW v \in Sessions, NEW u \in Tools, u.risky, ~session'[v].yes,
                      session'[v].approval \in {"always", "on-risk"}, u \notin session'[v].trusted
               PROVE  ran'[v][u] <= approved'[v][u]
    BY DEF RisksAreApproved
  <2>0. ran[v][u] \in Nat /\ ran'[v][u] \in Nat /\ approved[v][u] \in Nat
    BY <1>4
  <2>1. ran[v][u] <= approved[v][u]
    BY <1>9, <1>3 DEF RisksAreApproved
  <2>2. ran'[v][u] <= MaxToolCalls
    BY <1>11, <1>8, <2>0 DEF CallsCounted
  <2>3. CASE v = s /\ u = t
    <3>1. CASE n = MaxToolCalls
      BY <2>3, <3>1, <2>2, <1>7
    <3>2. CASE n = approved[s][t] + 1
      <4>1. approved'[v][u] = approved[v][u] + 1
        BY <2>3, <3>2, <1>7
      <4> QED
        BY <4>1, <2>0, <2>1, <1>6
    <3>3. CASE n = approved[s][t] /\ n # MaxToolCalls /\ Excused(s, t)
      BY <2>3, <3>3, <1>9, <1>3 DEF Excused
    <3> QED
      BY <3>1, <3>2, <3>3 DEF Answered
  <2>4. CASE ~(v = s /\ u = t)
    BY <2>4, <2>0, <2>1, <1>6, <1>7
  <2> QED
    BY <2>3, <2>4
<1> QED
  BY <1>10, <1>11, <1>12

LEMMA NextSession ==
    ASSUME SessionInv, [SessionNext]_sessionVars
    PROVE  SessionInv'
<1> USE SessionAssumption
<1>0. session \in [Sessions -> SessionRecords]
  BY DEF SessionInv, SessionTypes
<1>1. ASSUME NEW s \in Sessions, NEW args \in SessionArgs, StartSession(s, args)
      PROVE  SessionInv'
  <2>1. PICK r : /\ r = [NoSession EXCEPT !.state = "open", !.mode = args.mode, !.yes = args.yes,
                            !.interactive = args.interactive, !.dry = args.dry,
                            !.approval = Approval(args),
                            !.status = [c \in Capabilities |-> CapabilityStatus(args, c)],
                            !.trusted = {t \in Tools : rules[t] = "allow"}]
                 /\ session' = [session EXCEPT ![s] = r]
    BY <1>1 DEF StartSession
  <2>2. r \in SessionRecords /\ r.granted = {}
    BY <2>1 DEF NoSession, SessionRecords
  <2>3. \A v \in Sessions : session'[v] = IF v = s THEN r ELSE session[v]
    BY <2>1, <1>0
  <2>4. UNCHANGED <<ran, approved, toolCalls>> /\ session[s].state = "idle"
    BY <1>1 DEF StartSession
  <2>5. SessionTypes'
    BY <2>1, <2>2, <2>4, <1>0 DEF SessionInv, SessionTypes
  <2>6. CallsCounted'
    BY <2>2, <2>3, <2>4 DEF SessionInv, CallsCounted
  <2>7. RisksAreApproved'
    BY <2>3, <2>4 DEF SessionInv, CallsCounted, RisksAreApproved, SessionTypes
  <2> QED
    BY <2>5, <2>6, <2>7 DEF SessionInv
<1>2. ASSUME NEW t \in Tools, NEW rule, EditRule(t, rule)
      PROVE  SessionInv'
  BY <1>2 DEF EditRule, SessionInv, SessionTypes, CallsCounted, RisksAreApproved
<1>3. ASSUME NEW s \in Sessions, NEW code \in {"ok", "error", "approval"}, session[s].state = "open",
             session' = WithExit(s, code), UNCHANGED <<ran, approved>>, CountCall
      PROVE  SessionInv'
  <2>1. PICK r \in SessionRecords :
             /\ WithExit(s, code) = [session EXCEPT ![s] = r]
             /\ r.state # "idle"
             /\ r.yes = session[s].yes /\ r.approval = session[s].approval
             /\ r.trusted = session[s].trusted /\ r.granted = session[s].granted
    BY <1>3, ExitRecord DEF SessionInv
  <2>2. toolCalls' \in Nat /\ toolCalls <= toolCalls' /\ toolCalls' <= MaxToolCalls
    BY <1>3 DEF CountCall, SessionInv, SessionTypes
  <2> QED
    BY <1>3, <2>1, <2>2, Quiet
<1>4. ASSUME NEW s \in Sessions, NEW t \in Tools, CallDenied(s, t)
      PROVE  SessionInv'
  BY <1>4, <1>3 DEF CallDenied
<1>5. ASSUME NEW s \in Sessions, NEW t \in Tools, CallNeedsApproval(s, t)
      PROVE  SessionInv'
  <2>1. PICK q \in SessionRecords :
             /\ WithExit(s, "approval") = [session EXCEPT ![s] = q]
             /\ q.state # "idle"
             /\ q.yes = session[s].yes /\ q.approval = session[s].approval
             /\ q.trusted = session[s].trusted /\ q.granted = session[s].granted
    BY <1>5, ExitRecord DEF SessionInv, CallNeedsApproval
  <2> DEFINE r == [q EXCEPT !.state = IF session[s].mode = "requests" THEN "open" ELSE "closed"]
  <2>2. r \in SessionRecords /\ session' = [session EXCEPT ![s] = r]
    BY <1>5, <2>1, <1>0 DEF CallNeedsApproval, SessionRecords
  <2>3. /\ r.state # "idle" /\ r.yes = session[s].yes /\ r.approval = session[s].approval
        /\ r.trusted = session[s].trusted /\ r.granted = session[s].granted
    BY <2>1 DEF SessionRecords
  <2>4. toolCalls' \in Nat /\ toolCalls <= toolCalls' /\ toolCalls' <= MaxToolCalls
    BY <1>5 DEF CallNeedsApproval, CountCall, SessionInv, SessionTypes
  <2>5. UNCHANGED <<ran, approved>> /\ session[s].state = "open"
    BY <1>5 DEF CallNeedsApproval
  <2> HIDE DEF r
  <2> QED
    BY <2>2, <2>3, <2>4, <2>5, Quiet
<1>6. ASSUME NEW s \in Sessions, NEW t \in Tools, NEW ok \in BOOLEAN, CallApproved(s, t, ok)
      PROVE  SessionInv'
  <2>1. approved[s][t] \in Nat /\ session[s].granted \in SUBSET Tools
    <3>1. session[s] \in SessionRecords
      BY <1>0
    <3>2. session[s].granted \in SUBSET Tools
      BY <3>1 DEF SessionRecords
    <3>3. approved[s][t] \in Nat
      BY DEF SessionInv, SessionTypes
    <3> QED
      BY <3>2, <3>3
  <2>2. /\ session[s].state = "open" /\ CountCall /\ Invoke(s, t, session[s].granted, ok)
        /\ approved' = approved
    BY <1>6 DEF CallApproved
  <2>3. approved' = [approved EXCEPT ![s][t] = approved[s][t]]
    BY <2>2 DEF SessionInv, SessionTypes
  <2>4. t \in session[s].granted => approved[s][t] = MaxToolCalls
    BY DEF SessionInv, CallsCounted
  <2>5. Excused(s, t)
    BY <1>6 DEF CallApproved, Decision, NeedsPrompt, Excused
  <2>6. PICK n \in Nat : n = approved[s][t]
    BY <2>1
  <2>7. /\ approved' = [approved EXCEPT ![s][t] = n]
        /\ t \in session[s].granted => n = MaxToolCalls
        /\ Answered(s, t, n)
    BY <2>3, <2>4, <2>5, <2>6 DEF Answered
  <2>8. PICK g \in SUBSET Tools : g = session[s].granted
    BY <2>1
  <2>9. Invoke(s, t, g, ok)
    BY <2>2, <2>8
  <2> QED
    BY <2>2, <2>7, <2>8, <2>9, Ran
<1>7. ASSUME NEW s \in Sessions, NEW t \in Tools, NEW ok \in BOOLEAN,
             NEW answer \in {"once", "session", "always", "no"}, CallPrompted(s, t, answer, ok)
      PROVE  SessionInv'
  <2>1. approved[s][t] \in Nat /\ session[s].granted \in SUBSET Tools
    <3>1. session[s] \in SessionRecords
      BY <1>0
    <3>2. session[s].granted \in SUBSET Tools
      BY <3>1 DEF SessionRecords
    <3>3. approved[s][t] \in Nat
      BY DEF SessionInv, SessionTypes
    <3> QED
      BY <3>2, <3>3
  <2>2. session[s].state = "open" /\ CountCall /\ t \notin session[s].granted
    BY <1>7 DEF CallPrompted, Decision
  <2>3. CASE answer = "no"
    <3>1. approved' = approved
      BY <1>7, <2>3 DEF CallPrompted, SessionInv, SessionTypes
    <3> QED
      BY <1>7, <2>2, <2>3, <3>1, <1>3 DEF CallPrompted
  <2>4. CASE answer = "session"
    <3>1. Invoke(s, t, session[s].granted \cup {t}, ok) /\ approved' = [approved EXCEPT ![s][t] = MaxToolCalls]
      BY <1>7, <2>4 DEF CallPrompted, GrantedAfter
    <3>2. approved'[s][t] = MaxToolCalls
      BY <3>1 DEF SessionInv, SessionTypes
    <3>3. session[s].granted \cup {t} \in SUBSET Tools
      BY <2>1
    <3> QED
      BY <2>2, <3>1, <3>2, <3>3, Ran DEF Answered
  <2>5. CASE answer \in {"once", "always"}
    <3>1. Invoke(s, t, session[s].granted, ok) /\ approved' = [approved EXCEPT ![s][t] = approved[s][t] + 1]
      BY <1>7, <2>5 DEF CallPrompted, GrantedAfter, SessionInv, SessionTypes
    <3>2. approved[s][t] + 1 \in Nat
      BY <2>1
    <3> QED
      BY <2>1, <2>2, <3>1, <3>2, Ran DEF Answered
  <2> QED
    BY <2>3, <2>4, <2>5
<1>8. ASSUME NEW s \in Sessions, UnknownTool(s)
      PROVE  SessionInv'
  BY <1>8, <1>3 DEF UnknownTool
<1>9. ASSUME NEW s \in Sessions, EndRequests(s) \/ ModelEnds(s, "ok") \/ ModelEnds(s, "error")
      PROVE  SessionInv'
  <2>1. PICK e \in {"ok", "error", "approval"} :
          session' = [session EXCEPT ![s].state = "closed", ![s].exit = e]
    <3>1. session[s].exit \in {"ok", "error", "approval"}
      BY <1>0 DEF SessionRecords
    <3>2. CASE EndRequests(s)
      <4>1. session' = [session EXCEPT ![s].state = "closed", ![s].exit = session[s].exit]
        BY <3>2, <1>0 DEF EndRequests, SessionRecords
      <4> QED
        BY <3>1, <4>1
    <3>3. ASSUME NEW code \in {"ok", "error"}, ModelEnds(s, code)
          PROVE  session' = [session EXCEPT ![s].state = "closed", ![s].exit = Worse(session[s].exit, code)]
      BY <3>3, <1>0 DEF ModelEnds, SessionRecords
    <3> QED
      BY <1>9, <3>1, <3>2, <3>3 DEF Worse
  <2> DEFINE r == [session[s] EXCEPT !.state = "closed", !.exit = e]
  <2>2. session[s] \in SessionRecords
    BY <1>0
  <2>6. r \in SessionRecords
    BY <2>2 DEF SessionRecords
  <2>7. session' = [session EXCEPT ![s] = r]
    BY <2>1, <1>0
  <2>3. /\ r.state # "idle" /\ r.yes = session[s].yes /\ r.approval = session[s].approval
        /\ r.trusted = session[s].trusted /\ r.granted = session[s].granted
    BY <2>2 DEF SessionRecords
  <2>4. UNCHANGED <<ran, approved, toolCalls>> /\ session[s].state = "open"
    BY <1>9 DEF EndRequests, ModelEnds
  <2>5. toolCalls' \in Nat /\ toolCalls <= toolCalls' /\ toolCalls' <= MaxToolCalls
    BY <2>4 DEF SessionInv, SessionTypes
  <2> HIDE DEF r
  <2> QED
    BY <2>3, <2>4, <2>5, <2>6, <2>7, Quiet
<1>10. CASE UNCHANGED sessionVars
  BY <1>10 DEF sessionVars, SessionInv, SessionTypes, CallsCounted, RisksAreApproved
<1> QED
  BY <1>1, <1>2, <1>4, <1>5, <1>6, <1>7, <1>8, <1>9, <1>10 DEF SessionNext

\* For any tools, arguments and answers of any number of sessions (ai_cli): a
\* session that asks runs no risky tool more often than the user's answers cover,
\* unless a rule trusted the tool when the session started.
THEOREM RisksApproved == SessionSpec => []RisksAreApproved
<1>1. SessionInv => RisksAreApproved
  BY DEF SessionInv
<1> QED
  BY <1>1, InitSession, NextSession, PTL DEF SessionSpec

-----------------------------------------------------------------------------
(* AccountContext.  A call and the cache hold contexts that were in force  *)
(* at a time that is known.                                                *)

\* What a provider may read, and the contexts made of it: no newer than the material.
MaterialOK(m) ==
    /\ DOMAIN m = {"secret", "ready", "mtime", "issued", "forever", "expires", "hosts"}
    /\ m.secret \in 1..material.secret /\ m.mtime \in Int
    /\ m.expires \in Int \cup {NoTime} /\ m.issued = NoTime

\* A context expires at a time or never.
Expiry(ctx) == ctx.expires \in Int \cup {NoTime}

\* A context that was in force at time t or later.
InForce(ctx, t) ==
    /\ ctx.secret \in 1..material.secret
    /\ ctx.secret \in DOMAIN replaced => replaced[ctx.secret] >= t

\* A call under way holds the floor of its start: it is not raised meanwhile.
ContextCallOK(call) ==
    /\ call.pc \in {"idle", "lookup", "load", "answer", "store"}
    /\ call.pc # "idle" => call.now \in 0..ctxNow /\ call.floor = ctxFloor
    /\ call.pc = "answer" => MaterialOK(call.m) /\ InForce(call.m, call.now) /\ call.m.secret >= ctxFloor
    /\ call.pc = "store" =>
          /\ Expiry(call.ctx) /\ InForce(call.ctx, call.now) /\ call.ctx.secret >= ctxFloor
          /\ ValidAfter(call.ctx, call.now + MinValidity) /\ HostMatches(call.host, call.ctx.hosts)

\* A cached context was in force less than cache_seconds before the entry ends.
CacheOK ==
    ctxCache # NoCtx =>
       /\ ctxCache.ctx.secret >= ctxFloor /\ ctxCache.until \in Int
       /\ \E t \in 0..ctxNow : InForce(ctxCache.ctx, t) /\ ctxCache.until <= t + CacheSeconds

\* What the last call was handed is what it may be.
AnswerOK ==
    ctxAnswer # NoCtx =>
       /\ ctxAnswer.now \in 0..ctxNow
       /\ ctxAnswer.ctx.secret \in 1..material.secret /\ ctxAnswer.ctx.secret >= ctxAnswer.floor
       /\ ctxAnswer.ctx.secret \in DOMAIN replaced =>
             \/ replaced[ctxAnswer.ctx.secret] >= ctxAnswer.now
             \/ replaced[ctxAnswer.ctx.secret] > ctxAnswer.now - CacheSeconds
       /\ ValidAfter(ctxAnswer.ctx, ctxAnswer.now + MinValidity)
       /\ HostMatches(ctxAnswer.host, ctxAnswer.ctx.hosts)

\* The material and the times at which its versions were replaced.
OwnerOK ==
    /\ ctxNow \in Nat /\ ctxFloor \in 0..material.secret
    /\ material.secret \in Nat \ {0} /\ MaterialOK(material)
    /\ replaced \in Seq(Int) /\ Len(replaced) = material.secret - 1
    /\ \A i \in DOMAIN replaced : replaced[i] <= ctxNow

CtxInv ==
    /\ OwnerOK /\ CacheOK /\ AnswerOK
    /\ DOMAIN ctxCall = CtxCalls /\ \A c \in CtxCalls : ContextCallOK(ctxCall[c])


-----------------------------------------------------------------------------
LEMMA InitCtx == CtxInit => CtxInv
<1> SUFFICES ASSUME CtxInit PROVE CtxInv
  OBVIOUS
<1>1. DOMAIN material = {"secret", "ready", "mtime", "issued", "forever", "expires", "hosts"}
      /\ material.secret = 1 /\ material.mtime = 0 /\ material.expires = MaxAge /\ material.issued = NoTime
  BY DEF CtxInit, FirstMaterial
<1>2. replaced = << >> /\ ctxFloor = 0 /\ ctxNow = 0 /\ ctxCache = NoCtx /\ ctxAnswer = NoCtx
  BY DEF CtxInit
<1>3. OwnerOK
  BY <1>1, <1>2, CtxAssumption DEF OwnerOK, MaterialOK
<1>4. DOMAIN ctxCall = CtxCalls /\ \A c \in CtxCalls : ctxCall[c].pc = "idle"
  BY DEF CtxInit, CtxIdle
<1>5. \A c \in CtxCalls : ContextCallOK(ctxCall[c])
  BY <1>4 DEF ContextCallOK
<1> QED BY <1>2, <1>3, <1>4, <1>5 DEF CtxInv, CacheOK, AnswerOK

\* What a provider makes of material is of its version, and expires at a time or never.
LEMMA BuiltIs ==
  ASSUME NEW m, MaterialOK(m), NEW t \in Int, ctxProvider \in ProviderKinds, NEW ctx, ctx = Built(ctxProvider, m, t), ctx # NoCtx
  PROVE  ctx.secret = m.secret /\ Expiry(ctx)
<1> USE CtxAssumption
<1>1. ASSUME NEW p, NEW n, NEW age \in Nat, NEW r, r = RecordContext(p, n, age), r # NoCtx,
             n.expires \in Int \cup {NoTime}, n.issued \in Int \cup {NoTime}, n.mtime \in Int \cup {NoTime}
      PROVE  r.secret = n.secret /\ Expiry(r)
  BY <1>1 DEF RecordContext, Expiry
<1>2. CASE ctxProvider = "local_json"
  <2>1. ctx = RecordContext("local_json", m, MaxAge)
    BY <1>2 DEF Built, JsonContext
  <2> QED BY <1>1, <2>1 DEF MaterialOK
<1>3. CASE ctxProvider = "callback"
  <2>1. PICK n : n = [m EXCEPT !.mtime = NoTime]
    OBVIOUS
  <2>2. ctx = RecordContext("callback", n, CallbackAge)
    BY <1>3, <2>1 DEF Built, CallbackContext
  <2>3. n.expires = m.expires /\ n.issued = m.issued /\ n.mtime = NoTime /\ n.secret = m.secret
    BY <2>1 DEF MaterialOK
  <2> QED BY <1>1, <2>2, <2>3 DEF MaterialOK
<1>4. CASE ctxProvider = "user_code"
  <2>1. PICK n : n = [m EXCEPT !.issued = t]
    OBVIOUS
  <2>2. ctx = RecordContext("user_code", n, MaxAge)
    BY <1>4, <2>1 DEF Built, CodeContext
  <2>3. n.expires = m.expires /\ n.issued = t /\ n.mtime = m.mtime /\ n.secret = m.secret
    BY <2>1 DEF MaterialOK
  <2> QED BY <1>1, <2>2, <2>3 DEF MaterialOK
<1>5. CASE ctxProvider = "token_endpoint"
  BY <1>5 DEF Built, EndpointContext, Expiry
<1> QED BY <1>2, <1>3, <1>4, <1>5 DEF ProviderKinds

\* The material, the clock and the floor stay; a call goes on to n.
Steady == UNCHANGED <<ctxNow, material, replaced, ctxFloor>>

LEMMA ContextCallStep ==
  ASSUME CtxInv, Steady, NEW c \in CtxCalls, NEW n, CtxGo(c, n), ContextCallOK(n), CacheOK', AnswerOK'
  PROVE  CtxInv'
<1>1. OwnerOK'
  BY DEF CtxInv, Steady, OwnerOK, MaterialOK
<1>2. \A d \in CtxCalls : ctxCall'[d] = IF d = c THEN n ELSE ctxCall[d]
  BY DEF CtxInv, CtxGo
<1>3. DOMAIN ctxCall' = CtxCalls
  BY DEF CtxInv, CtxGo
<1>4. ASSUME NEW l, ContextCallOK(l) PROVE ContextCallOK(l)'
  BY <1>4 DEF ContextCallOK, Steady, MaterialOK, InForce
<1>5. ASSUME NEW d \in CtxCalls PROVE ContextCallOK(ctxCall[d])'
  <2>1. PICK l : l = ctxCall'[d]
    OBVIOUS
  <2>2. ContextCallOK(l)
    BY <1>2, <2>1 DEF CtxInv
  <2>3. ContextCallOK(l)'
    BY <1>4, <2>2
  <2> QED BY <2>1, <2>3 DEF ContextCallOK, MaterialOK, InForce
<1> QED BY <1>1, <1>3, <1>5 DEF CtxInv

LEMMA AnswerStays ==
  ASSUME CtxInv, Steady, UNCHANGED ctxAnswer
  PROVE  AnswerOK'
  BY DEF CtxInv, Steady, AnswerOK

LEMMA CacheStays ==
  ASSUME CtxInv, Steady, UNCHANGED ctxCache \/ ctxCache' = NoCtx
  PROVE  CacheOK'
  BY DEF CtxInv, Steady, CacheOK, InForce

LEMMA IdleIsOK == ContextCallOK(CtxIdle)
  BY DEF CtxIdle, ContextCallOK

\* A call is answered with a context that is good at its time.
LEMMA AnswerGiven ==
  ASSUME CtxInv, Steady, NEW c \in CtxCalls, ctxCall[c].pc # "idle", NEW ctx, CtxReturn(c, ctx),
         ctx.secret \in 1..material.secret, ctx.secret >= ctxFloor,
         ctx.secret \in DOMAIN replaced =>
            replaced[ctx.secret] >= ctxCall[c].now \/ replaced[ctx.secret] > ctxCall[c].now - CacheSeconds,
         ValidAfter(ctx, ctxCall[c].now + MinValidity), HostMatches(ctxCall[c].host, ctx.hosts)
  PROVE  AnswerOK'
<1>1. ContextCallOK(ctxCall[c])
  BY DEF CtxInv
<1>2. ctxCall[c].now \in 0..ctxNow /\ ctxCall[c].floor = ctxFloor
  BY <1>1 DEF ContextCallOK
<1>3. ctxAnswer'.ctx = ctx /\ ctxAnswer'.host = ctxCall[c].host /\ ctxAnswer'.now = ctxCall[c].now
      /\ ctxAnswer'.floor = ctxCall[c].floor
  BY DEF CtxReturn
<1> QED BY <1>2, <1>3 DEF Steady, AnswerOK, ValidAfter, HostMatches

-----------------------------------------------------------------------------
(* The steps of a call.                                                    *)

LEMMA BeginKeeps ==
  ASSUME CtxInv, NEW c \in CtxCalls, NEW h \in CtxHosts, ResolveBegin(c, h)
  PROVE  CtxInv'
<1>1. PICK n : n = [pc |-> "lookup", host |-> h, now |-> ctxNow, floor |-> ctxFloor]
  OBVIOUS
<1>2. CtxGo(c, n) /\ Steady /\ UNCHANGED <<ctxCache, ctxAnswer>>
  BY <1>1 DEF ResolveBegin, Steady
<1>3. ctxNow \in 0..ctxNow
  BY DEF CtxInv, OwnerOK
<1>4. ContextCallOK(n)
  BY <1>1, <1>3 DEF ContextCallOK
<1> QED BY <1>2, <1>4, ContextCallStep, AnswerStays, CacheStays

LEMMA LookupKeeps == ASSUME CtxInv, NEW c \in CtxCalls, ResolveLookup(c) PROVE CtxInv'
<1>1. PICK call : call = ctxCall[c]
  OBVIOUS
<1>2. call.pc = "lookup" /\ ContextCallOK(call) /\ Steady
  BY <1>1 DEF CtxInv, ResolveLookup, Steady
<1>3. call.now \in 0..ctxNow /\ call.floor = ctxFloor
  BY <1>2 DEF ContextCallOK
<1>4. CASE /\ CtxGo(c, [call EXCEPT !.pc = "load"]) /\ UNCHANGED ctxAnswer
           /\ UNCHANGED ctxCache \/ ctxCache' = NoCtx
  <2>1. PICK n : n = [call EXCEPT !.pc = "load"]
    OBVIOUS
  <2>2. ContextCallOK(n)
    BY <1>2, <1>3, <2>1 DEF ContextCallOK
  <2> QED BY <1>2, <1>4, <2>1, <2>2, ContextCallStep, AnswerStays, CacheStays
<1>5. CASE CtxFail(c) /\ UNCHANGED ctxCache
  BY <1>2, <1>5, IdleIsOK, ContextCallStep, AnswerStays, CacheStays DEF CtxFail
<1>6. CASE /\ ctxCache # NoCtx /\ ctxCache.until > call.now
           /\ Usable(ctxCache.ctx, ctxProvider, call.host, MinValidity, call.now) = "ok"
           /\ CtxReturn(c, ctxCache.ctx) /\ UNCHANGED ctxCache
  <2>1. PICK ctx : ctx = ctxCache.ctx
    OBVIOUS
  <2>2. ValidAfter(ctx, call.now + MinValidity) /\ HostMatches(call.host, ctx.hosts)
    BY <1>6, <2>1 DEF Usable
  <2>3. PICK t \in 0..ctxNow : InForce(ctx, t) /\ ctxCache.until <= t + CacheSeconds
    BY <1>6, <2>1 DEF CtxInv, CacheOK
  <2>4. call.now < t + CacheSeconds
    <3>1. ctxCache.until \in Int
      BY <1>6 DEF CtxInv, CacheOK
    <3> QED BY <1>3, <1>6, <2>3, <3>1, CtxAssumption
  <2>5. \A x \in Int : x >= t => x > call.now - CacheSeconds
    BY <1>3, <2>4, CtxAssumption
  <2>6. \A i \in DOMAIN replaced : replaced[i] \in Int
    BY DEF CtxInv, OwnerOK
  <2>7. ctx.secret \in DOMAIN replaced => replaced[ctx.secret] > call.now - CacheSeconds
    BY <2>3, <2>5, <2>6 DEF InForce
  <2>8. ctx.secret \in 1..material.secret /\ ctx.secret >= ctxFloor
    BY <1>6, <2>1, <2>3 DEF CtxInv, CacheOK, InForce
  <2>9. AnswerOK'
    BY <1>1, <1>2, <1>6, <2>1, <2>2, <2>7, <2>8, AnswerGiven
  <2>10. CtxGo(c, CtxIdle)
    BY <1>6 DEF CtxReturn
  <2> QED BY <1>2, <1>6, <2>9, <2>10, IdleIsOK, ContextCallStep, CacheStays
<1>7. CASE ctxCache # NoCtx /\ ctxCache.until > call.now
  <2>1. PICK use : use = Usable(ctxCache.ctx, ctxProvider, call.host, MinValidity, call.now)
    OBVIOUS
  <2>2. \/ use = "expired" /\ CtxGo(c, [call EXCEPT !.pc = "load"]) /\ UNCHANGED ctxAnswer /\ ctxCache' = NoCtx
        \/ use # "expired" /\ use # "ok" /\ CtxFail(c) /\ UNCHANGED ctxCache
        \/ use = "ok" /\ CtxReturn(c, ctxCache.ctx) /\ UNCHANGED ctxCache
    BY <1>1, <1>7, <2>1 DEF ResolveLookup, Usable
  <2> QED BY <1>4, <1>5, <1>6, <1>7, <2>1, <2>2
<1>8. CASE ~(ctxCache # NoCtx /\ ctxCache.until > call.now)
  <2>1. CtxGo(c, [call EXCEPT !.pc = "load"]) /\ UNCHANGED ctxAnswer /\ UNCHANGED ctxCache
    BY <1>1, <1>8 DEF ResolveLookup
  <2> QED BY <1>4, <2>1
<1> QED BY <1>7, <1>8

LEMMA LoadKeeps == ASSUME CtxInv, NEW c \in CtxCalls, ProviderLoad(c) PROVE CtxInv'
<1>1. PICK call : call = ctxCall[c]
  OBVIOUS
<1>2. call.pc = "load" /\ ContextCallOK(call) /\ Steady /\ UNCHANGED <<ctxCache, ctxAnswer>>
  BY <1>1 DEF CtxInv, ProviderLoad, Steady
<1>3. PICK n : n = [pc |-> "answer", host |-> call.host, now |-> call.now, floor |-> call.floor, m |-> material]
  OBVIOUS
<1>4. CtxGo(c, n)
  BY <1>1, <1>3 DEF ProviderLoad
<1>5. MaterialOK(material) /\ material.secret \notin DOMAIN replaced /\ material.secret >= ctxFloor
  BY DEF CtxInv, OwnerOK
<1>6. InForce(material, call.now)
  BY <1>5 DEF InForce, MaterialOK
<1>7. ContextCallOK(n)
  BY <1>2, <1>3, <1>5, <1>6 DEF ContextCallOK
<1> QED BY <1>2, <1>4, <1>7, ContextCallStep, AnswerStays, CacheStays

LEMMA ProviderAnswerKeeps ==
  ASSUME CtxInv, ctxProvider \in ProviderKinds, NEW c \in CtxCalls, ProviderAnswer(c)
  PROVE  CtxInv'
<1>1. PICK call : call = ctxCall[c]
  OBVIOUS
<1>2. call.pc = "answer" /\ ContextCallOK(call) /\ Steady /\ UNCHANGED ctxCache
  BY <1>1 DEF CtxInv, ProviderAnswer, Steady
<1>3. PICK ctx : ctx = Built(ctxProvider, call.m, ctxNow)
  OBVIOUS
<1>4. CASE CtxFail(c)
  BY <1>2, <1>4, IdleIsOK, ContextCallStep, AnswerStays, CacheStays DEF CtxFail
<1>5. CASE ~CtxFail(c)
  <2>1. ctx # NoCtx /\ Usable(ctx, ctxProvider, call.host, MinValidity, call.now) = "ok"
    BY <1>1, <1>3, <1>5 DEF ProviderAnswer
  <2>2. PICK n : n = [pc |-> "store", host |-> call.host, now |-> call.now, floor |-> call.floor, ctx |-> ctx]
    OBVIOUS
  <2>3. CtxGo(c, n) /\ UNCHANGED ctxAnswer
    BY <1>1, <1>3, <1>5, <2>2 DEF ProviderAnswer
  <2>4. MaterialOK(call.m) /\ InForce(call.m, call.now) /\ call.m.secret >= ctxFloor
        /\ call.now \in 0..ctxNow /\ call.floor = ctxFloor
    BY <1>2 DEF ContextCallOK
  <2>5. ctxNow \in Int
    BY DEF CtxInv, OwnerOK
  <2>6. ctx.secret = call.m.secret /\ Expiry(ctx)
    BY <1>3, <2>1, <2>4, <2>5, BuiltIs
  <2>7. ValidAfter(ctx, call.now + MinValidity) /\ HostMatches(call.host, ctx.hosts)
    BY <2>1 DEF Usable
  <2>8. ContextCallOK(n)
    BY <2>2, <2>4, <2>6, <2>7 DEF ContextCallOK, InForce
  <2> QED BY <1>2, <2>3, <2>8, ContextCallStep, AnswerStays, CacheStays
<1> QED BY <1>4, <1>5

LEMMA StoreKeeps == ASSUME CtxInv, NEW c \in CtxCalls, ResolveStore(c) PROVE CtxInv'
<1>1. PICK call : call = ctxCall[c]
  OBVIOUS
<1>2. call.pc = "store" /\ ContextCallOK(call) /\ Steady /\ CtxReturn(c, call.ctx)
  BY <1>1 DEF CtxInv, ResolveStore, Steady
<1>3. PICK ctx : ctx = call.ctx
  OBVIOUS
<1>4. /\ Expiry(ctx) /\ InForce(ctx, call.now) /\ ctx.secret >= ctxFloor /\ call.now \in 0..ctxNow
      /\ ValidAfter(ctx, call.now + MinValidity) /\ HostMatches(call.host, ctx.hosts)
  BY <1>2, <1>3 DEF ContextCallOK
<1>5. AnswerOK'
  BY <1>1, <1>2, <1>3, <1>4, AnswerGiven DEF InForce
<1>6. CacheOK'
  <2>1. ctxCache'.ctx = ctx
        /\ ctxCache'.until = IF ctx.expires # NoTime /\ ctx.expires < call.now + CacheSeconds THEN ctx.expires
                             ELSE call.now + CacheSeconds
    BY <1>1, <1>3 DEF ResolveStore
  <2>2. ctxCache'.until \in Int /\ ctxCache'.until <= call.now + CacheSeconds
    BY <1>4, <2>1, CtxAssumption DEF Expiry
  <2> QED BY <1>2, <1>4, <2>1, <2>2 DEF CacheOK, InForce, Steady
<1> QED BY <1>2, <1>5, <1>6, IdleIsOK, ContextCallStep DEF CtxReturn

-----------------------------------------------------------------------------
(* The owner of the material, and time.                                    *)

LEMMA InvalidateKeeps == ASSUME CtxInv, Invalidate PROVE CtxInv'
<1>1. ctxCache' = NoCtx /\ UNCHANGED <<ctxNow, material, ctxCall, ctxAnswer, replaced>>
  BY DEF Invalidate, DropsEntry
<1>2. CacheOK' /\ AnswerOK'
  BY <1>1 DEF CtxInv, CacheOK, AnswerOK
<1>3. OwnerOK'
  BY <1>1 DEF CtxInv, OwnerOK, Invalidate, MaterialOK
<1>4. ASSUME NEW c \in CtxCalls PROVE ContextCallOK(ctxCall[c])'
  <2>1. ContextCallOK(ctxCall[c])
    BY DEF CtxInv
  <2>2. CASE ctxCall[c].pc = "idle"
    BY <1>1, <2>2 DEF ContextCallOK
  <2>3. CASE ctxCall[c].pc # "idle"
    <3>1. UNCHANGED ctxFloor
      BY <2>3 DEF Invalidate
    <3> QED BY <1>1, <2>1, <3>1 DEF ContextCallOK, MaterialOK, InForce
  <2> QED BY <2>2, <2>3
<1> QED BY <1>1, <1>2, <1>3, <1>4 DEF CtxInv

\* A replaced version stays in force up to now.
LEMMA Renewed ==
  ASSUME CtxInv, NEW life, Rotate(life)
  PROVE  /\ material'.secret = material.secret + 1 /\ MaterialOK(material)'
         /\ replaced' \in Seq(Int) /\ Len(replaced') = material.secret
         /\ DOMAIN replaced' = DOMAIN replaced \cup {material.secret} /\ material.secret \notin DOMAIN replaced
         /\ \A i \in DOMAIN replaced : replaced'[i] = replaced[i]
         /\ replaced'[material.secret] = ctxNow
<1>1. material.secret \in Nat \ {0} /\ ctxNow \in Nat
      /\ replaced \in Seq(Int) /\ Len(replaced) = material.secret - 1
  BY DEF CtxInv, OwnerOK
<1>2. replaced' = Append(replaced, ctxNow)
  BY DEF Rotate
<1>3. /\ replaced' \in Seq(Int) /\ Len(replaced') = material.secret
      /\ DOMAIN replaced' = DOMAIN replaced \cup {material.secret} /\ material.secret \notin DOMAIN replaced
      /\ \A i \in DOMAIN replaced : replaced'[i] = replaced[i]
      /\ replaced'[material.secret] = ctxNow
  BY <1>1, <1>2
<1>4. /\ DOMAIN material' = {"secret", "ready", "mtime", "issued", "forever", "expires", "hosts"}
      /\ material'.secret = material.secret + 1 /\ material'.mtime = ctxNow /\ material'.issued = NoTime
      /\ material'.expires = IF life = "dated" THEN ctxNow + MaxAge ELSE NoTime
  BY DEF Rotate
<1>5. MaterialOK(material)'
  BY <1>1, <1>4, CtxAssumption DEF MaterialOK
<1> QED BY <1>3, <1>4, <1>5

LEMMA RotateKeeps == ASSUME CtxInv, NEW life, Rotate(life) PROVE CtxInv'
<1>1. UNCHANGED <<ctxNow, ctxCache, ctxCall, ctxAnswer, ctxFloor>>
  BY DEF Rotate
<1>2. material.secret \in Nat \ {0} /\ ctxNow \in Nat
  BY DEF CtxInv, OwnerOK
<1>3. 1..material.secret \subseteq 1..material'.secret /\ 0..material.secret \subseteq 0..material'.secret
  BY <1>2, Renewed
<1>4. OwnerOK'
  <2>1. \A i \in DOMAIN replaced' : replaced'[i] <= ctxNow
    BY <1>2, Renewed DEF CtxInv, OwnerOK
  <2>2. Len(replaced') = material'.secret - 1 /\ material'.secret \in Nat \ {0}
    BY <1>2, Renewed
  <2> QED BY <1>1, <1>3, <2>1, <2>2, Renewed DEF CtxInv, OwnerOK
<1>5. ASSUME NEW ctx, NEW t \in 0..ctxNow, InForce(ctx, t) PROVE InForce(ctx, t)'
  <2>1. ctxNow >= t
    BY <1>2
  <2> QED BY <1>3, <1>5, <2>1, Renewed DEF InForce
<1>6. CacheOK'
  <2> SUFFICES ASSUME ctxCache # NoCtx PROVE CacheOK'
    BY <1>1 DEF CacheOK
  <2>1. PICK ctx : ctx = ctxCache.ctx
    OBVIOUS
  <2>2. PICK t \in 0..ctxNow : InForce(ctx, t) /\ ctxCache.until <= t + CacheSeconds
    BY <2>1 DEF CtxInv, CacheOK
  <2>3. InForce(ctx, t)'
    BY <1>5, <2>2
  <2> QED BY <1>1, <2>1, <2>2, <2>3 DEF CtxInv, CacheOK, InForce
<1>7. AnswerOK'
  <2>1. CASE ctxAnswer = NoCtx
    BY <1>1, <2>1 DEF AnswerOK
  <2>2. CASE ctxAnswer # NoCtx
    <3>1. PICK s : s = ctxAnswer.ctx.secret
      OBVIOUS
    <3>2. s \in DOMAIN replaced' => replaced'[s] >= ctxAnswer.now \/ replaced'[s] > ctxAnswer.now - CacheSeconds
      <4>1. CASE s \in DOMAIN replaced
        BY <2>2, <3>1, <4>1, Renewed DEF CtxInv, AnswerOK
      <4>2. CASE s = material.secret
        <5>1. ctxAnswer.now \in 0..ctxNow
          BY <2>2 DEF CtxInv, AnswerOK
        <5>2. ctxNow >= ctxAnswer.now
          BY <1>2, <5>1
        <5> QED BY <4>2, <5>2, Renewed
      <4> QED BY <4>1, <4>2, Renewed
    <3> QED BY <1>1, <1>3, <2>2, <3>1, <3>2 DEF CtxInv, AnswerOK
  <2> QED BY <2>1, <2>2
<1>8. ASSUME NEW c \in CtxCalls PROVE ContextCallOK(ctxCall[c])'
  <2>1. PICK l : l = ctxCall[c]
    OBVIOUS
  <2>2. ContextCallOK(l)
    BY <2>1 DEF CtxInv
  <2>3. l.pc = "answer" => MaterialOK(l.m)' /\ InForce(l.m, l.now)'
    BY <1>3, <1>5, <2>2 DEF ContextCallOK, MaterialOK
  <2>4. l.pc = "store" => InForce(l.ctx, l.now)'
    BY <1>5, <2>2 DEF ContextCallOK
  <2>5. ContextCallOK(l)'
    BY <1>1, <2>2, <2>3, <2>4 DEF ContextCallOK
  <2> QED BY <1>1, <2>1, <2>5 DEF ContextCallOK, MaterialOK, InForce
<1> QED BY <1>1, <1>4, <1>6, <1>7, <1>8 DEF CtxInv

LEMMA TickKeeps == ASSUME CtxInv, CtxTick PROVE CtxInv'
<1>1. UNCHANGED <<material, ctxCache, ctxCall, ctxAnswer, replaced, ctxFloor>> /\ ctxNow' = ctxNow + 1
  BY DEF CtxTick
<1>2. ctxNow \in Nat /\ 0..ctxNow \subseteq 0..ctxNow'
  BY <1>1 DEF CtxInv, OwnerOK
<1>3. OwnerOK'
  <2>1. \A i \in DOMAIN replaced : replaced[i] \in Int /\ replaced[i] <= ctxNow
    BY DEF CtxInv, OwnerOK
  <2>2. \A i \in DOMAIN replaced : replaced[i] <= ctxNow'
    BY <1>1, <1>2, <2>1
  <2> QED BY <1>1, <1>2, <2>2 DEF CtxInv, OwnerOK, MaterialOK
<1>4. CacheOK' /\ AnswerOK'
  BY <1>1, <1>2 DEF CtxInv, CacheOK, AnswerOK, InForce
<1>5. ASSUME NEW c \in CtxCalls PROVE ContextCallOK(ctxCall[c])'
  BY <1>1, <1>2 DEF CtxInv, ContextCallOK, MaterialOK, InForce
<1> QED BY <1>1, <1>3, <1>4, <1>5 DEF CtxInv

LEMMA NextCtx == ASSUME CtxInv, ctxProvider \in ProviderKinds, [CtxNext]_ctxVars PROVE CtxInv'
<1>1. CASE UNCHANGED ctxVars
  <2>1. Steady /\ UNCHANGED <<ctxCache, ctxAnswer, ctxCall>>
    BY <1>1 DEF ctxVars, Steady
  <2>2. OwnerOK' /\ CacheOK' /\ AnswerOK'
    BY <2>1, CacheStays, AnswerStays DEF CtxInv, Steady, OwnerOK, MaterialOK
  <2>3. ASSUME NEW c \in CtxCalls PROVE ContextCallOK(ctxCall[c])'
    BY <2>1 DEF CtxInv, Steady, ContextCallOK, MaterialOK, InForce
  <2> QED BY <2>1, <2>2, <2>3 DEF CtxInv
<1>2. CASE CtxNext
  BY <1>2, BeginKeeps, LookupKeeps, LoadKeeps, ProviderAnswerKeeps, StoreKeeps, InvalidateKeeps, RotateKeeps,
     TickKeeps DEF CtxNext
<1> QED BY <1>1, <1>2

LEMMA CtxInvSound == CtxInv => ContextIsCurrent
  BY DEF CtxInv, AnswerOK, ContextIsCurrent, AnswerIsUsable, RotationTakesEffect, InvalidateTakesEffect, Answers

\* The kind of the provider stays.
LEMMA ProviderStays == CtxSpec => [](ctxProvider \in ProviderKinds)
<1>1. CtxInit => ctxProvider \in ProviderKinds
  BY CtxAssumption DEF CtxInit
<1>2. ctxProvider \in ProviderKinds /\ [CtxNext]_ctxVars => (ctxProvider \in ProviderKinds)'
  BY DEF CtxNext, ctxVars, ResolveBegin, ResolveLookup, ProviderLoad, ProviderAnswer, ResolveStore, Invalidate,
         Rotate, CtxTick
<1> QED BY <1>1, <1>2, PTL DEF CtxSpec

\* For any calls, rotations, invalidations and clocks (account_context.py): a call gets
\* a context of the material that was in force when it started or later, or less
\* than cache_seconds before; never one that a rejection had ruled out, and one
\* that is valid long enough and holds for the host it was asked for.
THEOREM ContextsCurrent == CtxSpec => []ContextIsCurrent
<1>1. CtxSpec => []CtxInv
  BY InitCtx, NextCtx, ProviderStays, PTL DEF CtxSpec
<1> QED BY <1>1, CtxInvSound, PTL

-----------------------------------------------------------------------------
(* AuthRecipe.  A login has made no request that is not one of its         *)
(* recipe's, redirects apart; the limit is at least the number of these.   *)

\* The fields of a login.
LoginKeys == {"state", "by", "recipe", "limit", "at", "vars", "jar", "count", "polled", "hop", "followed",
              "sent", "hosts", "over", "code"}

\* The requests of the recipe that a login at step n has behind it, k of them polls of step n.
Behind(r, n, k) == {q \in Requests(r) : q[1] < n \/ (q[1] = n /\ q[2] <= k)}

TriesOK(r) == \A i \in 1..Len(r.steps) : r.steps[i].tries \in Nat

\* A running login has made no request that is not one of its recipe, redirects
\* apart, and has counted every one.
RunningOK(l) ==
    /\ l.at \in Nat /\ l.count \in Nat /\ l.polled \in Nat
    /\ l.sent <= l.count + l.polled
    /\ l.polled # 0 => l.polled < Asks(l.recipe.steps[l.at]) /\ l.recipe.steps[l.at].kind = "pull"
    /\ l.followed = FALSE => l.count + l.polled <= Cardinality(Behind(l.recipe, l.at, l.polled))

\* A login that is redirected waits for the answer of a step that counts.
RedirectedOK(l) == l.at \in Nat /\ l.count \in Nat /\ l.polled = 0 /\ l.sent <= l.count

\* The limit suffices for a recipe that makes no more requests than any login may.
LimitOK(l) ==
    /\ l.limit \in 1..6
    /\ RequestFloor(l.recipe) <= 6 => RequestFloor(l.recipe) <= l.limit

RecipeLoginOK(l) ==
    /\ l.by = "recipe" /\ LimitOK(l)
    /\ Len(l.recipe.steps) \in Nat /\ TriesOK(l.recipe)
    /\ l.hosts \subseteq Allowed
    /\ l.followed \in BOOLEAN /\ l.over \in BOOLEAN
    /\ l.state \in {"running", "redirected", "failed", "done"}
    /\ l.state = "running" => RunningOK(l)
    /\ l.state = "redirected" => RedirectedOK(l)
    /\ l.over = TRUE /\ l.followed = FALSE => RequestFloor(l.recipe) > 6

CodeLoginOK(l) ==
    /\ l.by = "code" /\ l.limit \in 1..6 /\ l.hosts \subseteq RealmOrigins /\ l.over = FALSE
    /\ l.state \in {"code", "failed", "done"}
    /\ l.state = "code" => l.count \in Nat /\ l.sent <= l.count

LoginOK(l) ==
    /\ DOMAIN l = LoginKeys /\ l.sent \in Nat
    /\ \/ l = NoLogin
       \/ l.sent <= l.limit /\ (RecipeLoginOK(l) \/ CodeLoginOK(l))

-----------------------------------------------------------------------------
(* Recipes.                                                                *)

LEMMA RequestsFinite ==
  ASSUME NEW r, Len(r.steps) \in Nat
  PROVE  /\ IsFiniteSet(Requests(r)) /\ RequestFloor(r) \in Nat
         /\ \A S : S \subseteq Requests(r) => IsFiniteSet(S) /\ Cardinality(S) \in Nat /\ Cardinality(S) <= RequestFloor(r)
<1>1. IsFiniteSet(1..Len(r.steps)) /\ IsFiniteSet(1..6)
  <2>1. PICK n \in Nat : n = Len(r.steps)
    OBVIOUS
  <2>2. IsFiniteSet(1..n)
    BY FS_Interval
  <2>3. IsFiniteSet(1..6)
    <3>1. PICK m \in Nat : m = 6
      OBVIOUS
    <3>2. IsFiniteSet(1..m)
      BY FS_Interval
    <3> QED BY <3>1, <3>2
  <2> QED BY <2>1, <2>2, <2>3
<1>2. IsFiniteSet((1..Len(r.steps)) \X (1..6))
  BY <1>1, FS_Product
<1>3. Requests(r) \subseteq (1..Len(r.steps)) \X (1..6)
  BY DEF Requests
<1>4. IsFiniteSet(Requests(r))
  BY <1>2, <1>3, FS_Subset
<1>5. RequestFloor(r) \in Nat
  BY <1>4, FS_CardinalityType DEF RequestFloor
<1>6. ASSUME NEW S, S \subseteq Requests(r)
      PROVE  IsFiniteSet(S) /\ Cardinality(S) \in Nat /\ Cardinality(S) <= RequestFloor(r)
  BY <1>4, <1>6, FS_Subset, FS_CardinalityType DEF RequestFloor
<1> QED BY <1>4, <1>5, <1>6

\* One more request is one more of the recipe's.
LEMMA OneMore ==
  ASSUME NEW r, Len(r.steps) \in Nat, NEW n \in 1..Len(r.steps), NEW k \in Nat,
         k + 1 <= Asks(r.steps[n]), Asks(r.steps[n]) \in 0..6
  PROVE  /\ Cardinality(Behind(r, n, k)) + 1 = Cardinality(Behind(r, n, k + 1))
         /\ Cardinality(Behind(r, n, k)) + 1 <= RequestFloor(r)
<1>1. PICK q : q = <<n, k + 1>>
  OBVIOUS
<1>2. q[1] = n /\ q[2] = k + 1 /\ k + 1 \in 1..6
  BY <1>1
<1>3. q \in Requests(r)
  BY <1>1, <1>2 DEF Requests
<1>4. PICK A : A = Behind(r, n, k)
  OBVIOUS
<1>5. q \notin A /\ A \subseteq Requests(r)
  BY <1>2, <1>4 DEF Behind
<1>6. Behind(r, n, k + 1) = A \cup {q}
  <2>1. ASSUME NEW p \in Requests(r), p[1] = n, p[2] <= k + 1 PROVE p[2] <= k \/ p = q
    <3>1. p = <<p[1], p[2]>> /\ p[2] \in 1..6
      BY DEF Requests
    <3> QED BY <1>1, <2>1, <3>1
  <2>2. \A p \in Requests(r) : p[2] \in 1..6
    BY DEF Requests
  <2>3. \A p \in Requests(r) : p[2] <= k => p[2] <= k + 1
    BY <2>2
  <2>4. Behind(r, n, k + 1) \subseteq A \cup {q}
    BY <1>4, <2>1 DEF Behind
  <2>5. A \subseteq Behind(r, n, k + 1)
    BY <1>4, <2>3 DEF Behind
  <2>6. q \in Behind(r, n, k + 1)
    BY <1>2, <1>3 DEF Behind
  <2> QED BY <2>4, <2>5, <2>6
<1>7. IsFiniteSet(A) /\ Cardinality(A) \in Nat
  BY <1>5, RequestsFinite
<1>8. Cardinality(A \cup {q}) = Cardinality(A) + 1
  BY <1>5, <1>7, FS_AddElement
<1>9. Cardinality(A \cup {q}) <= RequestFloor(r)
  BY <1>3, <1>5, RequestsFinite
<1> QED BY <1>4, <1>6, <1>8, <1>9

\* What lies behind a step is no less than what lies behind an earlier place.
LEMMA BehindGrows ==
  ASSUME NEW r, Len(r.steps) \in Nat, NEW n \in Nat, NEW k \in Nat
  PROVE  /\ Cardinality(Behind(r, n, k)) \in Nat
         /\ Cardinality(Behind(r, n, k)) <= Cardinality(Behind(r, n + 1, 0))
<1>1. \A q \in Requests(r) : q[1] \in Nat
  BY DEF Requests
<1>2. Behind(r, n, k) \subseteq Behind(r, n + 1, 0)
  BY <1>1 DEF Behind
<1>3. Behind(r, n + 1, 0) \subseteq Requests(r)
  BY DEF Behind
<1>4. IsFiniteSet(Behind(r, n + 1, 0))
  BY <1>3, RequestsFinite
<1> QED BY <1>2, <1>4, FS_Subset, FS_CardinalityType

LEMMA AsksIs ==
  ASSUME NEW r, TriesOK(r), NEW n \in 1..Len(r.steps)
  PROVE  /\ Asks(r.steps[n]) \in 0..6
         /\ r.steps[n].kind \in {"http", "pull"} => 1 <= Asks(r.steps[n])
  BY DEF Asks, Clamp, TriesOK

\* The recipes the program builds poll for nothing.
LEMMA BuiltTries == \A r \in BuiltRecipes : TriesOK(r)
<1>1. ASSUME NEW t \in {"plain", "hash", "rsa", "rsa_stamped"}, NEW k, NEW b PROVE TriesOK(PasswordRecipe(t, k, b))
  <2>1. PICK p : p = PasswordSteps(t)
    OBVIOUS
  <2>2. (\E S : p \in Seq(S)) /\ \A i \in 1..Len(p) : p[i].tries = 0
    <3>1. CASE t = "plain"
      <4>1. p = << >>
        BY <2>1, <3>1 DEF PasswordSteps
      <4>2. p \in Seq({}) /\ Len(p) = 0
        BY <4>1
      <4> QED BY <4>2
    <3>2. CASE t \in {"hash", "rsa"}
      <4>1. PICK x : x = SetStepOf({}, "login_password")
        OBVIOUS
      <4>2. p = <<x>>
        BY <2>1, <3>2, <4>1 DEF PasswordSteps
      <4>3. x.tries = 0
        BY <4>1 DEF SetStepOf, RecipeStep
      <4>4. p \in Seq({x}) /\ Len(p) = 1 /\ p[1] = x
        BY <4>2
      <4> QED BY <4>3, <4>4
    <3>3. CASE t = "rsa_stamped"
      <4>1. PICK x : x = SetStepOf({}, "login_timestamp")
        OBVIOUS
      <4>2. PICK y : y = SetStepOf({"login_timestamp"}, "rsa_plaintext")
        OBVIOUS
      <4>3. PICK z : z = SetStepOf({"rsa_plaintext"}, "login_password")
        OBVIOUS
      <4>4. p = <<x, y, z>>
        BY <2>1, <3>3, <4>1, <4>2, <4>3 DEF PasswordSteps
      <4>5. x.tries = 0 /\ y.tries = 0 /\ z.tries = 0
        BY <4>1, <4>2, <4>3 DEF SetStepOf, RecipeStep
      <4>6. p \in Seq({x, y, z}) /\ Len(p) = 3 /\ p[1] = x /\ p[2] = y /\ p[3] = z
        BY <4>4
      <4> QED BY <4>5, <4>6
    <3> QED BY <3>1, <3>2, <3>3
  <2>3. PICK s : s = RecipeStep("http", IF t = "plain" THEN {} ELSE {"login_password"},
                                IF b THEN {"access_token"} ELSE {}, k # "cookie", "auth", 0, 0)
    OBVIOUS
  <2>4. PasswordRecipe(t, k, b).steps = Append(p, s)
    BY <2>1, <2>3 DEF PasswordRecipe
  <2>5. s.tries = 0
    BY <2>3 DEF RecipeStep
  <2>6. \A i \in 1..Len(Append(p, s)) : Append(p, s)[i].tries = 0
    <3>1. PICK S : p \in Seq(S)
      BY <2>2
    <3>2. PICK T : T = S \cup {s}
      OBVIOUS
    <3>3. p \in Seq(T) /\ s \in T
      BY <3>1, <3>2
    <3>4. Len(Append(p, s)) = Len(p) + 1 /\ Append(p, s)[Len(p) + 1] = s /\ Len(p) \in Nat
          /\ \A i \in 1..Len(p) : Append(p, s)[i] = p[i]
      BY <3>3
    <3> QED BY <2>2, <2>5, <3>4
  <2> QED BY <2>4, <2>6 DEF TriesOK
<1>2. TriesOK(SsoRecipe)
  <2>1. PICK p : p = SsoRecipe.steps
    OBVIOUS
  <2>2. Len(p) = 8
    BY <2>1 DEF SsoRecipe
  <2>3. /\ p[1].tries = 0 /\ p[2].tries = 0 /\ p[3].tries = 0 /\ p[4].tries = 0
        /\ p[5].tries = 0 /\ p[6].tries = 0 /\ p[7].tries = 0 /\ p[8].tries = 0
    BY <2>1 DEF SsoRecipe, SetStepOf, RecipeStep
  <2>4. \A i \in 1..8 : p[i].tries \in Nat
    BY <2>3
  <2> QED BY <2>1, <2>2, <2>4 DEF TriesOK
<1>3. ASSUME NEW r \in BuiltRecipes
      PROVE  r = SsoRecipe \/ \E t \in {"plain", "hash", "rsa", "rsa_stamped"}, k \in {"bearer", "cookie", "mixed"},
                                 b \in BOOLEAN : r = PasswordRecipe(t, k, b)
  <2>1. CASE r = SsoRecipe
    BY <2>1
  <2>2. CASE r \in {PasswordRecipe(p[1], p[2], TRUE) :
                       p \in {"plain", "hash", "rsa_stamped"} \X {"bearer", "cookie", "mixed"}}
    <3>1. PICK p \in {"plain", "hash", "rsa_stamped"} \X {"bearer", "cookie", "mixed"} :
               r = PasswordRecipe(p[1], p[2], TRUE)
      BY <2>2
    <3>2. p[1] \in {"plain", "hash", "rsa_stamped"} /\ p[2] \in {"bearer", "cookie", "mixed"}
      OBVIOUS
    <3> QED BY <3>1, <3>2
  <2>3. CASE r \in {PasswordRecipe("plain", "cookie", FALSE), PasswordRecipe("rsa", "mixed", FALSE)}
    BY <2>3
  <2> QED BY <2>1, <2>2, <2>3 DEF BuiltRecipes
<1> QED BY <1>1, <1>2, <1>3

-----------------------------------------------------------------------------
(* A recipe's steps.                                                       *)

\* A login of a recipe goes on from l to m, neither sending nor counting more than allowed.
LEMMA LoginStep ==
  ASSUME NEW m, DOMAIN m = LoginKeys, RecipeLoginOK(login),
         m.by = login.by, m.recipe = login.recipe, m.limit = login.limit, m.hosts \subseteq Allowed,
         m.followed \in BOOLEAN, login.followed = TRUE => m.followed = TRUE,
         m.sent \in Nat, m.sent <= m.limit,
         m.state \in {"running", "redirected", "failed", "done"},
         m.state = "running" => RunningOK(m), m.state = "redirected" => RedirectedOK(m),
         m.over \in BOOLEAN,
         m.over = TRUE => login.over = TRUE \/ m.followed = TRUE \/ RequestFloor(m.recipe) > 6
  PROVE  LoginOK(m)
  BY DEF LoginOK, RecipeLoginOK, LimitOK

LEMMA FailKeeps ==
  ASSUME LoginOK(login), RecipeLoginOK(login), login.sent <= login.limit, NEW c, Fail(c)
  PROVE  LoginOK(login')
<1>1. PICK m : m = [login EXCEPT !.state = "failed", !.code = c]
  OBVIOUS
<1>2. /\ DOMAIN m = LoginKeys /\ m.state = "failed" /\ m.by = login.by /\ m.recipe = login.recipe
      /\ m.limit = login.limit /\ m.hosts = login.hosts /\ m.followed = login.followed /\ m.sent = login.sent
      /\ m.over = login.over
  BY <1>1 DEF LoginOK, LoginKeys
<1>3. LoginOK(m)
  BY <1>2, LoginStep DEF LoginOK, RecipeLoginOK
<1> QED BY <1>1, <1>3 DEF Fail

\* The next step, after the polls of this one were counted.
LEMMA NextStepIs ==
  ASSUME NEW l, DOMAIN l = LoginKeys, NEW g, NEW m, m = NextStep(l, g)
  PROVE  /\ DOMAIN m = LoginKeys /\ m.at = l.at + 1 /\ m.polled = 0
         /\ m.state = l.state /\ m.by = l.by /\ m.recipe = l.recipe /\ m.limit = l.limit /\ m.count = l.count
         /\ m.hosts = l.hosts /\ m.followed = l.followed /\ m.sent = l.sent /\ m.over = l.over
  BY DEF NextStep, LoginKeys

LEMMA ComputeKeeps ==
  ASSUME LoginOK(login), RecipeLoginOK(login), login.sent <= login.limit, login.state = "running",
         NEW g, login' = NextStep(login, g), login.polled = 0
  PROVE  LoginOK(login')
<1>1. PICK m : m = NextStep(login, g)
  OBVIOUS
<1>2. /\ DOMAIN m = LoginKeys /\ m.at = login.at + 1 /\ m.polled = 0
      /\ m.state = "running" /\ m.by = login.by /\ m.recipe = login.recipe /\ m.limit = login.limit
      /\ m.count = login.count /\ m.hosts = login.hosts /\ m.followed = login.followed /\ m.sent = login.sent
      /\ m.over = login.over
  BY <1>1, NextStepIs DEF LoginOK
<1>3. RunningOK(login) /\ Len(login.recipe.steps) \in Nat
  BY DEF RecipeLoginOK
<1>4. Cardinality(Behind(login.recipe, login.at, 0)) <= Cardinality(Behind(login.recipe, login.at + 1, 0))
      /\ Cardinality(Behind(login.recipe, login.at, 0)) \in Nat /\ Cardinality(Behind(login.recipe, login.at + 1, 0)) \in Nat
  <2>1. PICK r : r = login.recipe
    OBVIOUS
  <2>2. PICK n \in Nat : n = login.at
    BY <1>3 DEF RunningOK
  <2>3. Len(r.steps) \in Nat
    BY <1>3, <2>1
  <2>4. Cardinality(Behind(r, n, 0)) \in Nat /\ Cardinality(Behind(r, n, 0)) <= Cardinality(Behind(r, n + 1, 0))
    <3>1. PICK k \in Nat : k = 0
      OBVIOUS
    <3>2. Cardinality(Behind(r, n, k)) \in Nat /\ Cardinality(Behind(r, n, k)) <= Cardinality(Behind(r, n + 1, 0))
      BY <2>3, BehindGrows
    <3> QED BY <3>1, <3>2
  <2>5. Cardinality(Behind(r, n + 1, 0)) \in Nat
    <3>1. PICK k \in Nat : k = 0
      OBVIOUS
    <3>2. PICK l \in Nat : l = n + 1
      OBVIOUS
    <3>3. Cardinality(Behind(r, l, k)) \in Nat
      BY <2>3, BehindGrows
    <3> QED BY <3>1, <3>2, <3>3
  <2> QED BY <2>1, <2>2, <2>4, <2>5
<1>5. RunningOK(m)
  BY <1>2, <1>3, <1>4 DEF RunningOK
<1>6. LoginOK(m)
  BY <1>2, <1>5, LoginStep DEF LoginOK, RecipeLoginOK
<1> QED BY <1>1, <1>6


\* A login at a step that sends has one more request of its recipe to make.
MayAsk ==
    /\ login.at \in 1..Len(login.recipe.steps) /\ login.count \in Nat /\ login.polled \in Nat
    /\ login.polled + 1 <= Asks(CurrentStep)
    /\ login.sent \in Nat /\ login.sent <= login.count + login.polled
    /\ login.followed = FALSE =>
          /\ login.count + login.polled + 1 <= Cardinality(Behind(login.recipe, login.at, login.polled + 1))
          /\ login.count + login.polled + 1 <= Cardinality(Behind(login.recipe, login.at + 1, 0))
          /\ login.count + login.polled + 1 <= RequestFloor(login.recipe)

LEMMA NextRequest ==
  ASSUME LoginOK(login), RecipeLoginOK(login), login.state = "running", Stepping({"http", "pull"})
  PROVE  MayAsk
<1>1. PICK r : r = login.recipe
  OBVIOUS
<1>2. Len(r.steps) \in Nat /\ TriesOK(r)
  BY <1>1 DEF RecipeLoginOK
<1>3. RunningOK(login)
  BY DEF RecipeLoginOK
<1>4. PICK n \in 1..Len(r.steps) : n = login.at
  BY <1>1 DEF Stepping
<1>5. PICK k \in Nat : k = login.polled
  BY <1>3 DEF RunningOK
<1>6. CurrentStep = r.steps[n] /\ r.steps[n].kind \in {"http", "pull"}
  BY <1>1, <1>4 DEF Stepping, CurrentStep
<1>7. Asks(r.steps[n]) \in 1..6
  BY <1>2, <1>6, AsksIs
<1>8. k + 1 <= Asks(r.steps[n])
  <2>1. CASE k = 0
    BY <1>7, <2>1
  <2>2. CASE k # 0
    BY <1>1, <1>3, <1>4, <1>5, <1>7, <2>2 DEF RunningOK
  <2> QED BY <2>1, <2>2
<1>9. Asks(r.steps[n]) \in 0..6
  BY <1>7
<1>10. /\ Cardinality(Behind(r, n, k)) + 1 = Cardinality(Behind(r, n, k + 1))
       /\ Cardinality(Behind(r, n, k)) + 1 <= RequestFloor(r)
  BY <1>2, <1>8, <1>9, OneMore
<1>11. PICK j \in Nat : j = k + 1
  OBVIOUS
<1>12. n \in Nat
  OBVIOUS
<1>13. Cardinality(Behind(r, n, j)) <= Cardinality(Behind(r, n + 1, 0))
  BY <1>2, <1>12, BehindGrows
<1>14. Cardinality(Behind(r, n + 1, 0)) \in Nat
  <2>1. PICK z \in Nat : z = 0
    OBVIOUS
  <2>2. PICK m \in Nat : m = n + 1
    OBVIOUS
  <2>3. Cardinality(Behind(r, m, z)) \in Nat
    BY <1>2, BehindGrows
  <2> QED BY <2>1, <2>2, <2>3
<1>15. Cardinality(Behind(r, n, k)) \in Nat /\ RequestFloor(r) \in Nat
  BY <1>2, <1>12, BehindGrows, RequestsFinite
<1>16. PICK a \in Nat : a = Cardinality(Behind(r, n, k))
  BY <1>15
<1>17. PICK b \in Nat : b = Cardinality(Behind(r, n + 1, 0))
  BY <1>14
<1>18. login.count \in Nat /\ login.sent <= login.count + login.polled
       /\ (login.followed = FALSE => login.count + k <= a)
  BY <1>1, <1>3, <1>4, <1>5, <1>16 DEF RunningOK
<1>19. Cardinality(Behind(r, n, k + 1)) = a + 1 /\ a + 1 <= b /\ a + 1 <= RequestFloor(r)
  BY <1>10, <1>11, <1>13, <1>16, <1>17
<1>20. login.followed = FALSE => login.count + k + 1 <= a + 1 /\ login.count + k + 1 <= b /\ login.count + k + 1 <= RequestFloor(r)
  BY <1>15, <1>18, <1>19
<1>21. login.sent \in Nat
  BY DEF LoginOK
<1> QED BY <1>1, <1>4, <1>5, <1>6, <1>8, <1>17, <1>18, <1>19, <1>20, <1>21 DEF MayAsk

\* A login that would pass its limit without a redirect has a recipe nobody could allow.
LEMMA OverKeeps ==
  ASSUME LoginOK(login), RecipeLoginOK(login), login.sent <= login.limit, login.state = "running", Stepping({"http", "pull"}),
         login.count + login.polled >= login.limit, FailOver
  PROVE  LoginOK(login')
<1>1. PICK m : m = [login EXCEPT !.state = "failed", !.code = "CONFIG_INVALID", !.over = TRUE]
  OBVIOUS
<1>2. /\ DOMAIN m = LoginKeys /\ m.state = "failed" /\ m.by = login.by /\ m.recipe = login.recipe
      /\ m.limit = login.limit /\ m.hosts = login.hosts /\ m.followed = login.followed /\ m.sent = login.sent
      /\ m.over = TRUE
  BY <1>1 DEF LoginOK, LoginKeys
<1>3. LimitOK(login) /\ RequestFloor(login.recipe) \in Nat /\ login.followed \in BOOLEAN
  BY RequestsFinite DEF RecipeLoginOK
<1>4. login.followed = FALSE => RequestFloor(login.recipe) > 6
  <2>1. MayAsk
    BY NextRequest
  <2>2. PICK n : n = login.count + login.polled
    OBVIOUS
  <2>3. n \in Nat /\ (login.followed = FALSE => n + 1 <= RequestFloor(login.recipe))
    BY <2>1, <2>2 DEF MayAsk
  <2>4. PICK l, f : l = login.limit /\ f = RequestFloor(login.recipe)
    OBVIOUS
  <2>5. n \in Nat /\ n >= l /\ l \in 1..6 /\ f \in Nat /\ (f <= 6 => f <= l)
    BY <1>3, <2>2, <2>3, <2>4 DEF LimitOK
  <2>6. n + 1 <= f => f > 6
    BY ONLY <2>5
  <2> QED BY <2>3, <2>4, <2>6
<1>5. LoginOK(m)
  BY <1>2, <1>3, <1>4, LoginStep DEF LoginOK, RecipeLoginOK
<1> QED BY <1>1, <1>5 DEF FailOver

LEMMA SentToIs ==
  ASSUME NEW l, DOMAIN l = LoginKeys, NEW o, NEW m, m = SentTo(l, o)
  PROVE  /\ DOMAIN m = LoginKeys /\ m.sent = l.sent + 1 /\ m.hosts = l.hosts \cup {o}
         /\ m.state = l.state /\ m.by = l.by /\ m.recipe = l.recipe /\ m.limit = l.limit /\ m.at = l.at
         /\ m.count = l.count /\ m.polled = l.polled /\ m.followed = l.followed /\ m.over = l.over /\ m.hop = l.hop
         /\ m.jar = l.jar
  BY DEF SentTo, LoginKeys

\* What a reply leads to.
LEMMA ReceivedIs ==
  ASSUME NEW l, DOMAIN l = LoginKeys, NEW reply, NEW m, m = Received(l, reply)
  PROVE  /\ DOMAIN m = LoginKeys /\ m.by = l.by /\ m.recipe = l.recipe /\ m.limit = l.limit /\ m.hosts = l.hosts
         /\ m.followed = l.followed /\ m.sent = l.sent /\ m.over = l.over /\ m.count = l.count
         /\ \/ m.state = "failed"
            \/ m.state = "redirected" /\ m.at = l.at /\ m.polled = l.polled
            \/ m.state = "running" /\ m.at = l.at + 1 /\ m.polled = 0
<1>1. \/ \E c : m = [l EXCEPT !.state = "failed", !.code = c]
      \/ m = [l EXCEPT !.state = "redirected"]
      \/ \E g : m = NextStep([l EXCEPT !.state = "running"], g)
  BY DEF Received
<1>2. CASE \E c : m = [l EXCEPT !.state = "failed", !.code = c]
  BY <1>2 DEF LoginKeys
<1>3. CASE m = [l EXCEPT !.state = "redirected"]
  BY <1>3 DEF LoginKeys
<1>4. CASE \E g : m = NextStep([l EXCEPT !.state = "running"], g)
  <2>1. PICK k : k = [l EXCEPT !.state = "running"]
    OBVIOUS
  <2>2. DOMAIN k = LoginKeys /\ k.state = "running" /\ k.by = l.by /\ k.recipe = l.recipe /\ k.limit = l.limit
        /\ k.hosts = l.hosts /\ k.followed = l.followed /\ k.sent = l.sent /\ k.over = l.over /\ k.count = l.count
        /\ k.at = l.at
    BY <2>1 DEF LoginKeys
  <2>3. PICK g : m = NextStep(k, g)
    BY <1>4, <2>1
  <2> QED BY <2>2, <2>3, NextStepIs
<1> QED BY <1>1, <1>2, <1>3, <1>4

LEMMA HttpKeeps ==
  ASSUME LoginOK(login), RecipeLoginOK(login), login.sent <= login.limit, NEW reply, NEW cookies, HttpStep(reply, cookies)
  PROVE  LoginOK(login')
<1>1. login.state = "running" /\ Stepping({"http", "pull"}) /\ CurrentStep.kind = "http"
  BY DEF HttpStep, Stepping
<1>2. login.polled = 0
  <2>1. CurrentStep = login.recipe.steps[login.at]
    BY DEF CurrentStep
  <2> QED BY <1>1, <2>1 DEF RecipeLoginOK, RunningOK
<1>3. CASE Fail("CONFIG_INVALID")
  BY <1>3, FailKeeps
<1>4. CASE login.count + 1 > login.limit /\ FailOver
  <2>1. login.count + login.polled >= login.limit
    <3>1. MayAsk /\ LimitOK(login)
      BY <1>1, NextRequest DEF RecipeLoginOK
    <3> QED BY <1>2, <1>4, <3>1 DEF MayAsk, LimitOK
  <2> QED BY <1>1, <1>4, <2>1, OverKeeps
<1>5. CASE /\ CurrentStep.origin \in Allowed /\ ~(login.count + 1 > login.limit)
           /\ login' = Received([SentTo(login, CurrentStep.origin) EXCEPT !.count = @ + 1, !.jar = @ \/ cookies], reply)
  <2>1. PICK k : k = SentTo(login, CurrentStep.origin)
    OBVIOUS
  <2>2. PICK l : l = [k EXCEPT !.count = @ + 1, !.jar = @ \/ cookies]
    OBVIOUS
  <2>3. PICK m : m = Received(l, reply)
    OBVIOUS
  <2>4. DOMAIN k = LoginKeys /\ k.sent = login.sent + 1 /\ k.hosts = login.hosts \cup {CurrentStep.origin}
        /\ k.by = login.by /\ k.recipe = login.recipe /\ k.limit = login.limit /\ k.at = login.at /\ k.count = login.count
        /\ k.polled = login.polled /\ k.followed = login.followed /\ k.over = login.over
    BY <2>1, SentToIs DEF LoginOK
  <2>5. DOMAIN l = LoginKeys /\ l.sent = login.sent + 1 /\ l.hosts = login.hosts \cup {CurrentStep.origin}
        /\ l.by = login.by /\ l.recipe = login.recipe /\ l.limit = login.limit /\ l.at = login.at /\ l.count = login.count + 1
        /\ l.polled = login.polled /\ l.followed = login.followed /\ l.over = login.over
    BY <2>2, <2>4 DEF LoginKeys
  <2>6. /\ DOMAIN m = LoginKeys /\ m.by = l.by /\ m.recipe = l.recipe /\ m.limit = l.limit /\ m.hosts = l.hosts
        /\ m.followed = l.followed /\ m.sent = l.sent /\ m.over = l.over /\ m.count = l.count
        /\ \/ m.state = "failed"
           \/ m.state = "redirected" /\ m.at = l.at /\ m.polled = l.polled
           \/ m.state = "running" /\ m.at = l.at + 1 /\ m.polled = 0
    BY <2>3, <2>5, ReceivedIs
  <2>7. login.count \in Nat /\ login.at \in Nat /\ login.sent \in Nat /\ login.sent <= login.count
        /\ login.count + 1 <= login.limit
    <3>1. MayAsk /\ LimitOK(login)
      BY <1>1, NextRequest DEF RecipeLoginOK
    <3> QED BY <1>2, <1>5, <3>1 DEF MayAsk, LimitOK
  <2>8. m.sent \in Nat /\ m.sent <= m.limit /\ m.sent <= m.count /\ m.count = login.count + 1 /\ m.count \in Nat
    BY <2>5, <2>6, <2>7 DEF RecipeLoginOK, LimitOK
  <2>9. m.state = "redirected" => RedirectedOK(m)
    BY <1>2, <2>5, <2>6, <2>7, <2>8 DEF RedirectedOK
  <2>10. m.state = "running" => RunningOK(m)
    <3>1. m.followed = FALSE => login.count + 1 <= Cardinality(Behind(login.recipe, login.at + 1, 0))
      <4>1. MayAsk
        BY <1>1, NextRequest
      <4> QED BY <1>2, <2>5, <2>6, <2>7, <4>1 DEF MayAsk
    <3> QED BY <2>5, <2>6, <2>7, <2>8, <3>1 DEF RunningOK
  <2>11. LoginOK(m)
    BY <1>5, <2>5, <2>6, <2>8, <2>9, <2>10, LoginStep DEF RecipeLoginOK
  <2> QED BY <1>5, <2>1, <2>2, <2>3, <2>11
<1> QED BY <1>3, <1>4, <1>5 DEF HttpStep

LEMMA RedirectedKeeps ==
  ASSUME LoginOK(login), RecipeLoginOK(login), login.sent <= login.limit, NEW target, NEW reply, Redirected(target, reply)
  PROVE  LoginOK(login')
<1>1. login.state = "redirected" /\ RedirectedOK(login) /\ FollowRedirect(target, reply)
  BY DEF Redirected, RecipeLoginOK
<1>2. CASE Fail("LOGIN_PROTOCOL_CHANGED") \/ Fail("CONFIG_INVALID")
  BY <1>2, FailKeeps
<1>3. CASE login' = [login EXCEPT !.state = "failed", !.code = "CONFIG_INVALID", !.over = TRUE, !.followed = TRUE]
  <2>1. PICK m : m = [login EXCEPT !.state = "failed", !.code = "CONFIG_INVALID", !.over = TRUE, !.followed = TRUE]
    OBVIOUS
  <2>2. /\ DOMAIN m = LoginKeys /\ m.state = "failed" /\ m.by = login.by /\ m.recipe = login.recipe
        /\ m.limit = login.limit /\ m.hosts = login.hosts /\ m.followed = TRUE /\ m.sent = login.sent
        /\ m.over = TRUE
    BY <2>1 DEF LoginOK, LoginKeys
  <2>3. LoginOK(m)
    BY <2>2, LoginStep DEF LoginOK, RecipeLoginOK
  <2> QED BY <1>3, <2>1, <2>3
<1>4. CASE /\ target \in Allowed /\ ~(login.count + 1 > login.limit)
           /\ login' = Received([SentTo(login, target) EXCEPT !.count = @ + 1, !.hop = @ + 1, !.followed = TRUE], reply)
  <2>1. PICK k : k = SentTo(login, target)
    OBVIOUS
  <2>2. PICK l : l = [k EXCEPT !.count = @ + 1, !.hop = @ + 1, !.followed = TRUE]
    OBVIOUS
  <2>3. PICK m : m = Received(l, reply)
    OBVIOUS
  <2>4. DOMAIN k = LoginKeys /\ k.sent = login.sent + 1 /\ k.hosts = login.hosts \cup {target}
        /\ k.by = login.by /\ k.recipe = login.recipe /\ k.limit = login.limit /\ k.at = login.at /\ k.count = login.count
        /\ k.polled = login.polled /\ k.over = login.over
    BY <2>1, SentToIs DEF LoginOK
  <2>5. DOMAIN l = LoginKeys /\ l.sent = login.sent + 1 /\ l.hosts = login.hosts \cup {target}
        /\ l.by = login.by /\ l.recipe = login.recipe /\ l.limit = login.limit /\ l.at = login.at /\ l.count = login.count + 1
        /\ l.polled = login.polled /\ l.followed = TRUE /\ l.over = login.over
    BY <2>2, <2>4 DEF LoginKeys
  <2>6. /\ DOMAIN m = LoginKeys /\ m.by = l.by /\ m.recipe = l.recipe /\ m.limit = l.limit /\ m.hosts = l.hosts
        /\ m.followed = l.followed /\ m.sent = l.sent /\ m.over = l.over /\ m.count = l.count
        /\ \/ m.state = "failed"
           \/ m.state = "redirected" /\ m.at = l.at /\ m.polled = l.polled
           \/ m.state = "running" /\ m.at = l.at + 1 /\ m.polled = 0
    BY <2>3, <2>5, ReceivedIs
  <2>7. login.count \in Nat /\ login.at \in Nat /\ login.polled = 0 /\ login.sent \in Nat /\ login.sent <= login.count
        /\ login.count + 1 <= login.limit
    BY <1>1, <1>4 DEF RedirectedOK, RecipeLoginOK, LimitOK, LoginOK
  <2>8. m.sent \in Nat /\ m.sent <= m.limit /\ m.sent <= m.count /\ m.count \in Nat
    BY <2>5, <2>6, <2>7 DEF RecipeLoginOK, LimitOK
  <2>9. m.state = "redirected" => RedirectedOK(m)
    BY <2>5, <2>6, <2>7, <2>8 DEF RedirectedOK
  <2>10. m.state = "running" => RunningOK(m)
    BY <2>5, <2>6, <2>7, <2>8 DEF RunningOK
  <2>11. LoginOK(m)
    BY <1>4, <2>5, <2>6, <2>8, <2>9, <2>10, LoginStep DEF RecipeLoginOK
  <2> QED BY <1>4, <2>1, <2>2, <2>3, <2>11
<1> QED BY <1>1, <1>2, <1>3, <1>4 DEF FollowRedirect

LEMMA PollKeeps ==
  ASSUME LoginOK(login), RecipeLoginOK(login), login.sent <= login.limit, NEW reply, PollMfa(reply)
  PROVE  LoginOK(login')
<1>1. login.state = "running" /\ Stepping({"http", "pull"}) /\ CurrentStep.kind = "pull"
  BY DEF PollMfa, Stepping
<1>2. CASE Fail("CONFIG_INVALID")
  BY <1>2, FailKeeps
<1>3. CASE login.count + login.polled >= login.limit /\ FailOver
  BY <1>1, <1>3, OverKeeps
<1>4. PICK k : k = SentTo(login, CurrentStep.origin)
  OBVIOUS
<1>5. PICK l : l = [k EXCEPT !.polled = @ + 1]
  OBVIOUS
<1>6. DOMAIN k = LoginKeys /\ k.sent = login.sent + 1 /\ k.hosts = login.hosts \cup {CurrentStep.origin}
      /\ k.by = login.by /\ k.recipe = login.recipe /\ k.limit = login.limit /\ k.at = login.at /\ k.count = login.count
      /\ k.polled = login.polled /\ k.followed = login.followed /\ k.over = login.over /\ k.state = login.state
  BY <1>4, SentToIs DEF LoginOK
<1>7. DOMAIN l = LoginKeys /\ l.sent = login.sent + 1 /\ l.hosts = login.hosts \cup {CurrentStep.origin}
      /\ l.by = login.by /\ l.recipe = login.recipe /\ l.limit = login.limit /\ l.at = login.at /\ l.count = login.count
      /\ l.polled = login.polled + 1 /\ l.followed = login.followed /\ l.over = login.over /\ l.state = "running"
  BY <1>1, <1>5, <1>6 DEF LoginKeys
<1>8. CASE /\ CurrentStep.origin \in Allowed /\ ~(login.count + login.polled >= login.limit)
           /\ login' = CASE reply = "lost"     -> [l EXCEPT !.state = "failed", !.code = "AUTH_HOST_UNREACHABLE"]
                         [] reply = "rejected" -> [l EXCEPT !.state = "failed", !.count = @ + l.polled,
                                                            !.code = "CREDENTIAL_REJECTED"]
                         [] reply = "code"     -> NextStep([l EXCEPT !.count = @ + l.polled], CurrentStep.gives)
                         [] OTHER -> IF l.polled < Clamp(1, CurrentStep.tries, 6) THEN l
                                     ELSE [l EXCEPT !.state = "failed", !.count = @ + l.polled,
                                                    !.code = "MFA_OR_INTERACTION_REQUIRED"]
  <2>1. login.count \in Nat /\ login.polled \in Nat /\ login.at \in Nat /\ login.sent \in Nat
        /\ login.sent <= login.count + login.polled /\ login.count + login.polled + 1 <= login.limit
    <3>1. MayAsk /\ LimitOK(login)
      BY <1>1, NextRequest DEF RecipeLoginOK
    <3> QED BY <1>8, <3>1 DEF MayAsk, LimitOK
  <2>2. l.sent \in Nat /\ l.sent <= l.limit /\ l.hosts \subseteq Allowed
    BY <1>7, <1>8, <2>1 DEF RecipeLoginOK, LimitOK
  <2>3. ASSUME NEW m, m = login', DOMAIN m = LoginKeys, m.sent = l.sent, m.hosts = l.hosts, m.by = l.by,
               m.recipe = l.recipe, m.limit = l.limit, m.followed = l.followed, m.over = l.over,
               m.state = "failed" \/ (m.state = "running" /\ RunningOK(m))
        PROVE  LoginOK(m)
    BY <1>7, <2>2, <2>3, LoginStep DEF RecipeLoginOK
  <2>4. CASE \/ login' = [l EXCEPT !.state = "failed", !.code = "AUTH_HOST_UNREACHABLE"]
             \/ \E c : login' = [l EXCEPT !.state = "failed", !.count = @ + l.polled, !.code = c]
    <3>1. PICK m : m = login'
      OBVIOUS
    <3>2. DOMAIN m = LoginKeys /\ m.sent = l.sent /\ m.hosts = l.hosts /\ m.by = l.by /\ m.recipe = l.recipe
          /\ m.limit = l.limit /\ m.followed = l.followed /\ m.over = l.over /\ m.state = "failed"
      BY <1>7, <2>4, <3>1 DEF LoginKeys
    <3> QED BY <2>3, <3>1, <3>2
  <2>5. CASE login' = NextStep([l EXCEPT !.count = @ + l.polled], CurrentStep.gives)
    <3>1. PICK h : h = [l EXCEPT !.count = @ + l.polled]
      OBVIOUS
    <3>2. PICK m : m = NextStep(h, CurrentStep.gives)
      OBVIOUS
    <3>3. DOMAIN h = LoginKeys /\ h.sent = l.sent /\ h.hosts = l.hosts /\ h.by = l.by /\ h.recipe = l.recipe
          /\ h.limit = l.limit /\ h.followed = l.followed /\ h.over = l.over /\ h.state = "running"
          /\ h.count = l.count + l.polled /\ h.at = l.at
      BY <1>7, <3>1 DEF LoginKeys
    <3>4. DOMAIN m = LoginKeys /\ m.sent = l.sent /\ m.hosts = l.hosts /\ m.by = l.by /\ m.recipe = l.recipe
          /\ m.limit = l.limit /\ m.followed = l.followed /\ m.over = l.over /\ m.state = "running"
          /\ m.count = l.count + l.polled /\ m.at = l.at + 1 /\ m.polled = 0
      BY <3>2, <3>3, NextStepIs
    <3>5. m.followed = FALSE =>
             login.count + login.polled + 1 <= Cardinality(Behind(login.recipe, login.at + 1, 0))
      <4>1. MayAsk
        BY <1>1, NextRequest
      <4> QED BY <1>7, <3>4, <4>1 DEF MayAsk
    <3>6. RunningOK(m)
      BY <1>7, <2>1, <3>4, <3>5 DEF RunningOK
    <3> QED BY <2>3, <2>5, <3>1, <3>2, <3>4, <3>6
  <2>6. CASE login' = l /\ l.polled < Clamp(1, CurrentStep.tries, 6)
    <3>1. CurrentStep = login.recipe.steps[login.at]
      BY DEF CurrentStep
    <3>2. Asks(CurrentStep) = Clamp(1, CurrentStep.tries, 6)
      BY <1>1 DEF Asks
    <3>3. l.followed = FALSE =>
             login.count + login.polled + 1 <= Cardinality(Behind(login.recipe, login.at, login.polled + 1))
      <4>1. MayAsk
        BY <1>1, NextRequest
      <4> QED BY <1>7, <4>1 DEF MayAsk
    <3>4. RunningOK(l)
      BY <1>1, <1>7, <2>1, <2>6, <3>1, <3>2, <3>3 DEF RunningOK
    <3> QED BY <1>7, <2>3, <2>6, <3>4
  <2> QED BY <1>8, <2>4, <2>5, <2>6
<1> QED BY <1>2, <1>3, <1>4, <1>5, <1>8 DEF PollMfa

LEMMA RenderKeeps ==
  ASSUME LoginOK(login), RecipeLoginOK(login), login.sent <= login.limit, RenderOutput
  PROVE  LoginOK(login')
<1>1. CASE Fail("TOKEN_EXTRACTION_FAILED")
  BY <1>1, FailKeeps
<1>2. CASE login' = [login EXCEPT !.state = "done"]
  <2>1. PICK m : m = [login EXCEPT !.state = "done"]
    OBVIOUS
  <2>2. /\ DOMAIN m = LoginKeys /\ m.state = "done" /\ m.by = login.by /\ m.recipe = login.recipe
        /\ m.limit = login.limit /\ m.hosts = login.hosts /\ m.followed = login.followed /\ m.sent = login.sent
        /\ m.over = login.over
    BY <2>1 DEF LoginOK, LoginKeys
  <2>3. LoginOK(m)
    BY <2>2, LoginStep DEF LoginOK, RecipeLoginOK
  <2> QED BY <1>2, <2>1, <2>3
<1> QED BY <1>1, <1>2 DEF RenderOutput

LEMMA SetKeeps ==
  ASSUME LoginOK(login), RecipeLoginOK(login), login.sent <= login.limit, ComputeStep \/ \E x : PushedCode(x)
  PROVE  LoginOK(login')
<1>1. login.state = "running" /\ CurrentStep.kind # "pull"
  BY DEF ComputeStep, PushedCode, Stepping
<1>2. login.polled = 0
  <2>1. CurrentStep = login.recipe.steps[login.at]
    BY DEF CurrentStep
  <2> QED BY <1>1, <2>1 DEF RecipeLoginOK, RunningOK
<1>3. (\E c : Fail(c)) \/ \E g : login' = NextStep(login, g)
  BY DEF ComputeStep, PushedCode
<1> QED BY <1>1, <1>2, <1>3, FailKeeps, ComputeKeeps

-----------------------------------------------------------------------------
(* The two beginnings, and trusted code.                                   *)

LEMMA StartKeeps ==
  ASSUME login = NoLogin, NEW r \in BuiltRecipes \cup UserRecipes, NEW n \in RequestLimits, StartRecipe(r, VerifyLimit(r, n))
  PROVE  LoginOK(login')
<1>1. Len(r.steps) \in 1..12 /\ TriesOK(r)
  BY BuiltTries, RecipeAssumption DEF StartRecipe, Importable, RecipeValid, MAX_RECIPE_STEPS, TriesOK
<1>2. PICK f \in Nat : f = RequestFloor(r)
  BY <1>1, RequestsFinite
<1>3. PICK limit : limit = VerifyLimit(r, n)
  OBVIOUS
<1>4. n \in Nat
  BY RecipeAssumption
<1>5. limit \in 1..6 /\ (f <= 6 => f <= limit)
  BY <1>2, <1>3, <1>4 DEF VerifyLimit, FormFloor, Clamp, MAX_AUTH_REQUESTS
<1>6. PICK m : m = [NoLogin EXCEPT !.recipe = r, !.limit = limit, !.at = 1,
                                   !.state = IF Allowed = {} THEN "failed" ELSE "running",
                                   !.code = IF Allowed = {} THEN "CONFIG_INVALID" ELSE ""]
  OBVIOUS
<1>7. /\ DOMAIN m = LoginKeys /\ m.recipe = r /\ m.limit = limit /\ m.at = 1 /\ m.state \in {"failed", "running"}
      /\ m.by = "recipe" /\ m.count = 0 /\ m.polled = 0 /\ m.followed = FALSE /\ m.sent = 0 /\ m.hosts = {}
      /\ m.over = FALSE
  BY <1>6 DEF NoLogin, LoginKeys
<1>8. 0 <= Cardinality(Behind(r, 1, 0))
  <2>1. PICK i, z \in Nat : i = 1 /\ z = 0
    OBVIOUS
  <2>2. Cardinality(Behind(r, i, z)) \in Nat
    BY <1>1, BehindGrows
  <2> QED BY <2>1, <2>2
<1>9. RunningOK(m)
  BY <1>7, <1>8 DEF RunningOK
<1>10. LimitOK(m)
  BY <1>2, <1>5, <1>7 DEF LimitOK
<1>11. RecipeLoginOK(m)
  <2>1. Len(m.recipe.steps) \in Nat /\ TriesOK(m.recipe)
    BY <1>1, <1>7
  <2> QED BY <1>7, <1>9, <1>10, <2>1 DEF RecipeLoginOK
<1>12. LoginOK(m)
  BY <1>5, <1>7, <1>11 DEF LoginOK
<1> QED BY <1>3, <1>6, <1>12 DEF StartRecipe

LEMMA StartCodeKeeps ==
  ASSUME login = NoLogin, NEW n \in RequestLimits, StartCode(n)
  PROVE  LoginOK(login')
<1>1. PICK c : c = Clamp(1, n, 6)
  OBVIOUS
<1>2. c \in 1..6
  BY <1>1, RecipeAssumption DEF Clamp
<1>3. PICK m : m = [NoLogin EXCEPT !.state = "code", !.by = "code", !.limit = c]
  OBVIOUS
<1>4. /\ DOMAIN m = LoginKeys /\ m.limit = c /\ m.state = "code" /\ m.by = "code" /\ m.count = 0 /\ m.sent = 0
      /\ m.hosts = {} /\ m.over = FALSE
  BY <1>3 DEF NoLogin, LoginKeys
<1>5. LoginOK(m)
  BY <1>2, <1>4 DEF LoginOK, CodeLoginOK
<1> QED BY <1>1, <1>3, <1>5 DEF StartCode

LEMMA CodeRequestKeeps ==
  ASSUME LoginOK(login), CodeLoginOK(login), login.sent <= login.limit, NEW o, CodeRequest(o)
  PROVE  LoginOK(login')
<1>1. login.state = "code" /\ login.count \in Nat /\ login.sent <= login.count /\ login.sent \in Nat /\ login.limit \in 1..6
  BY DEF CodeRequest, CodeLoginOK, LoginOK
<1>2. CASE o \notin RealmOrigins
  BY <1>2 DEF CodeRequest, LoginOK, CodeLoginOK
<1>3. CASE o \in RealmOrigins
  <2>1. PICK l : l = [login EXCEPT !.count = @ + 1]
    OBVIOUS
  <2>2. login' = IF l.count > login.limit THEN l ELSE SentTo(l, o)
    BY <1>3, <2>1 DEF CodeRequest
  <2>3. /\ DOMAIN l = LoginKeys /\ l.count = login.count + 1 /\ l.sent = login.sent /\ l.limit = login.limit
        /\ l.state = "code" /\ l.by = "code" /\ l.hosts = login.hosts /\ l.over = FALSE
    BY <1>1, <2>1 DEF LoginOK, CodeLoginOK, LoginKeys
  <2>4. CASE l.count > login.limit
    BY <1>1, <2>2, <2>3, <2>4 DEF LoginOK, CodeLoginOK
  <2>5. CASE ~(l.count > login.limit)
    <3>1. PICK m : m = SentTo(l, o)
      OBVIOUS
    <3>2. /\ DOMAIN m = LoginKeys /\ m.count = login.count + 1 /\ m.sent = login.sent + 1 /\ m.limit = login.limit
          /\ m.state = "code" /\ m.by = "code" /\ m.hosts = login.hosts \cup {o} /\ m.over = FALSE
      BY <2>3, <3>1, SentToIs
    <3>3. LoginOK(m)
      BY <1>1, <1>3, <2>3, <2>5, <3>2 DEF LoginOK, CodeLoginOK
    <3> QED BY <2>2, <2>5, <3>1, <3>3
  <2> QED BY <2>4, <2>5
<1> QED BY <1>2, <1>3

LEMMA CodeReturnsKeeps ==
  ASSUME LoginOK(login), CodeLoginOK(login), login.sent <= login.limit, NEW ok, CodeReturns(ok)
  PROVE  LoginOK(login')
<1>1. PICK m : m = [login EXCEPT !.state = IF ok THEN "done" ELSE "failed",
                                 !.code = IF ok THEN "" ELSE "ADAPTER_RUNTIME_ERROR"]
  OBVIOUS
<1>2. /\ DOMAIN m = LoginKeys /\ m.count = login.count /\ m.sent = login.sent /\ m.limit = login.limit
      /\ m.state \in {"done", "failed"} /\ m.by = login.by /\ m.hosts = login.hosts /\ m.over = login.over
  BY <1>1 DEF LoginOK, LoginKeys
<1>3. LoginOK(m)
  BY <1>2 DEF LoginOK, CodeLoginOK
<1> QED BY <1>1, <1>3 DEF CodeReturns

LEMMA NextLogin == ASSUME LoginOK(login), [RecipeNext]_login PROVE LoginOK(login')
<1>1. CASE UNCHANGED login
  BY <1>1
<1>2. CASE RecipeNext /\ login = NoLogin
  <2>1. login.state = "none"
    BY <1>2 DEF NoLogin
  <2>2. \/ \E r \in BuiltRecipes \cup UserRecipes, n \in RequestLimits : StartRecipe(r, VerifyLimit(r, n))
        \/ \E n \in RequestLimits : StartCode(n)
    BY <1>2, <2>1 DEF RecipeNext, ComputeStep, PushedCode, PollMfa, HttpStep, Redirected, RenderOutput,
                      CodeRequest, CodeReturns, Stepping
  <2> QED BY <1>2, <2>2, StartKeeps, StartCodeKeeps
<1>3. CASE RecipeNext /\ RecipeLoginOK(login) /\ login.sent <= login.limit
  <2>1. login.state \notin {"none", "code"}
    BY <1>3 DEF RecipeLoginOK
  <2>2. \/ ComputeStep \/ (\E x : PushedCode(x)) \/ (\E x : PollMfa(x)) \/ (\E x, y : HttpStep(x, y))
        \/ (\E x, y : Redirected(x, y)) \/ RenderOutput
    BY <1>3, <2>1 DEF RecipeNext, StartRecipe, StartCode, CodeRequest, CodeReturns
  <2> QED BY <1>3, <2>2, SetKeeps, PollKeeps, HttpKeeps, RedirectedKeeps, RenderKeeps
<1>4. CASE RecipeNext /\ CodeLoginOK(login) /\ login.sent <= login.limit
  <2>1. login.state \notin {"none", "running", "redirected"}
    BY <1>4 DEF CodeLoginOK
  <2>2. (\E x : CodeRequest(x)) \/ (\E x : CodeReturns(x))
    BY <1>4, <2>1 DEF RecipeNext, StartRecipe, StartCode, ComputeStep, PushedCode, PollMfa, HttpStep, Redirected,
                      RenderOutput, Stepping
  <2> QED BY <1>4, <2>2, CodeRequestKeeps, CodeReturnsKeeps
<1> QED BY <1>1, <1>2, <1>3, <1>4 DEF LoginOK

LEMMA LoginSound == LoginOK(login) => LoginBounded
<1>1. CASE login = NoLogin
  <2>1. login.over = FALSE /\ login.sent = 0 /\ login.limit = 0 /\ login.hosts = {}
    BY <1>1 DEF NoLogin
  <2> QED BY <2>1 DEF LoginBounded, LoginConfined, FloorSuffices
<1>2. CASE RecipeLoginOK(login) /\ login.sent <= login.limit
  <2>1. login.over /\ ~login.followed => login.over = TRUE /\ login.followed = FALSE
    BY <1>2 DEF RecipeLoginOK
  <2> QED BY <1>2, <2>1 DEF RecipeLoginOK, LoginBounded, LoginConfined, FloorSuffices, MAX_AUTH_REQUESTS
<1>3. CASE CodeLoginOK(login) /\ login.sent <= login.limit
  BY <1>3 DEF CodeLoginOK, LoginBounded, LoginConfined, FloorSuffices
<1> QED BY <1>1, <1>2, <1>3 DEF LoginOK

\* For any recipe, realm, limit, redirects and replies (auth_recipe.py,
\* trusted_auth_code_runner.py): a login sends no more requests than its limit and
\* none outside its origins, and one that was not redirected stops at the limit
\* only if its recipe makes more requests than any login may.
THEOREM LoginsBounded == RecipeSpec => []LoginBounded
<1>1. RecipeInit => LoginOK(login)
  <2>1. DOMAIN NoLogin = LoginKeys /\ NoLogin.sent = 0
    BY DEF NoLogin, LoginKeys
  <2> QED BY <2>1 DEF RecipeInit, LoginOK
<1>2. LoginOK(login) /\ [RecipeNext]_login => LoginOK(login)'
  BY NextLogin DEF LoginOK, RecipeLoginOK, CodeLoginOK, RunningOK, RedirectedOK, LimitOK
<1>3. RecipeSpec => []LoginOK(login)
  BY <1>1, <1>2, PTL DEF RecipeSpec
<1> QED BY <1>3, LoginSound, PTL

-----------------------------------------------------------------------------
(* AgentAccess with TestPlan.  For a key there is a run, a handler that    *)
(* may still queue it, or neither, and none before the key has a receipt.  *)

\* What a plan call, a client and a run are made of.
PlanCallKeys == {"op", "plan", "origin", "step", "seen", "result", "run"}
ClientKeys == {"idem", "plan", "step", "run", "seen", "exit"}
RunKeys == {"plan", "origin", "status", "results", "completed", "skipped"}

\* Run n was queued from plan p under key k.
RunOf(n, k, p) == n \in DOMAIN planRuns /\ planRuns[n].origin = k /\ planRuns[n].plan = p

\* A handler that may still queue a run under an idempotency key.
Works(call) == call.step \in {"read", "schedule", "queue"} /\ call.origin \in Idems

\* A call under a key has a receipt; what it answers is a run of its own; the
\* client it is served for asked for it.
HandlerOK(call, s) ==
    /\ DOMAIN call = PlanCallKeys
    /\ call.step # "idle" /\ call.origin \in Idems =>
          call.op = "execute" /\ receipts[call.origin].state # "none"
    /\ call.op = "execute" /\ call.result = "ok" => RunOf(call.run, call.origin, call.plan)
    /\ s \in Clients =>
          /\ call.step # "idle" /\ call.origin \in Idems
          /\ client[s].step # "new" /\ client[s].idem = call.origin /\ client[s].plan = call.plan
          /\ receipts[call.origin].plan = call.plan

ReceiptOK(k) ==
    /\ DOMAIN receipts[k] = {"state", "plan", "run"}
    /\ receipts[k].state = "done" => RunOf(receipts[k].run, k, receipts[k].plan)

\* A client that polls was told of a run of its own key and plan.
AgentClientOK(a) ==
    /\ DOMAIN a = ClientKeys
    /\ a.step # "new" => a.idem \in Idems
    /\ a.step \in {"poll", "count"} \/ a.exit = "completed" => RunOf(a.run, a.idem, a.plan)
    /\ a.step = "count" /\ a.seen = "done" => planRuns[a.run].status = "done"
    /\ a.exit = "completed" =>
          /\ a.step = "ended" /\ planRuns[a.run].status = "done"
          /\ planRuns[a.run].results = RunCases - planRuns[a.run].skipped /\ planRuns[a.run].results > 0

\* Runs are counted in naturals, and every handler, key and client has a state.
AgentTypes ==
    /\ Sequence(planRuns)
    /\ \A n \in DOMAIN planRuns :
          /\ DOMAIN planRuns[n] = RunKeys
          /\ planRuns[n].results \in Nat /\ planRuns[n].completed \in Nat /\ planRuns[n].skipped \in Nat
    /\ DOMAIN planCall = PlanCalls /\ DOMAIN serves = PlanCalls
    /\ DOMAIN receipts = Idems /\ DOMAIN client = Clients

\* One of a run and a handler that may queue it, at most, exists for a key, and
\* neither before the key has a receipt.
OneEffect ==
    /\ \A n, m \in DOMAIN planRuns :
          planRuns[n].origin \in Idems /\ planRuns[n].origin = planRuns[m].origin => n = m
    /\ \A n \in DOMAIN planRuns :
          planRuns[n].origin \in Idems => receipts[planRuns[n].origin].state # "none"
    /\ \A c, d \in PlanCalls :
          Works(planCall[c]) /\ Works(planCall[d]) /\ planCall[c].origin = planCall[d].origin => c = d
    /\ \A c \in PlanCalls : \A n \in DOMAIN planRuns :
          Works(planCall[c]) => planRuns[n].origin # planCall[c].origin

HandlersOK == \A c \in PlanCalls : HandlerOK(planCall[c], serves[c])
ReceiptsOK == \A k \in Idems : ReceiptOK(k)
ClientsOK  == \A a \in Clients : AgentClientOK(client[a])

AgentInv == AgentTypes /\ OneEffect /\ HandlersOK /\ ReceiptsOK /\ ClientsOK

-----------------------------------------------------------------------------
LEMMA InitAgent == AgentInit => AgentInv
<1> SUFFICES ASSUME AgentInit PROVE AgentInv
  OBVIOUS
<1>1. planRuns = << >> /\ Sequence(planRuns)
  <2>1. << >> \in Seq({})
    OBVIOUS
  <2> QED BY <2>1 DEF AgentInit, PlanInit, Sequence
<1>2. PICK e : e = NoPlanCall
  OBVIOUS
<1>3. DOMAIN e = PlanCallKeys /\ e.step = "idle" /\ e.result = "none"
  BY <1>2 DEF NoPlanCall, PlanCallKeys
<1>4. DOMAIN planCall = PlanCalls /\ \A c \in PlanCalls : planCall[c] = e
  BY <1>2 DEF AgentInit, PlanInit
<1>5. DOMAIN serves = PlanCalls /\ \A c \in PlanCalls : serves[c] \notin Clients
  BY AgentAssumption DEF AgentInit
<1>6. DOMAIN receipts = Idems
      /\ \A k \in Idems : DOMAIN receipts[k] = {"state", "plan", "run"} /\ receipts[k].state = "none"
  BY DEF AgentInit, NoReceipt
<1>7. PICK l : l = NoClient
  OBVIOUS
<1>8. DOMAIN l = ClientKeys /\ l.step = "new" /\ l.exit = "none"
  BY <1>7 DEF NoClient, ClientKeys
<1>9. DOMAIN client = Clients /\ \A a \in Clients : client[a] = l
  BY <1>7 DEF AgentInit
<1>10. DOMAIN planRuns = {}
  BY <1>1
<1>11. AgentTypes
  BY <1>1, <1>4, <1>5, <1>6, <1>9, <1>10 DEF AgentTypes
<1>12. OneEffect
  BY <1>3, <1>4, <1>10 DEF OneEffect, Works
<1>13. HandlersOK
  BY <1>3, <1>4, <1>5 DEF HandlersOK, HandlerOK
<1>14. ReceiptsOK
  BY <1>6 DEF ReceiptsOK, ReceiptOK
<1>15. ClientsOK
  BY <1>8, <1>9 DEF ClientsOK, AgentClientOK
<1> QED BY <1>11, <1>12, <1>13, <1>14, <1>15 DEF AgentInv

\* A client goes on while handlers, receipts and runs stay.
LEMMA ClientStep ==
  ASSUME AgentInv, UNCHANGED <<planCall, planRuns, receipts, serves>>,
         NEW a \in Clients, NEW n, client' = [client EXCEPT ![a] = n], AgentClientOK(n),
         client[a].step # "new" => n.step # "new" /\ n.idem = client[a].idem /\ n.plan = client[a].plan
  PROVE  AgentInv'
<1>1. DOMAIN client' = Clients /\ \A b \in Clients : client'[b] = IF b = a THEN n ELSE client[b]
  BY DEF AgentInv, AgentTypes
<1>2. AgentTypes'
  BY <1>1 DEF AgentInv, AgentTypes
<1>3. OneEffect'
  BY DEF AgentInv, OneEffect, Works
<1>4. ReceiptsOK'
  BY DEF AgentInv, ReceiptsOK, ReceiptOK, RunOf
<1>5. ClientsOK'
  BY <1>1 DEF AgentInv, ClientsOK, AgentClientOK, RunOf
<1>6. HandlersOK'
  <2>1. SUFFICES ASSUME NEW c \in PlanCalls PROVE HandlerOK(planCall[c], serves[c])'
    BY DEF HandlersOK
  <2>2. HandlerOK(planCall[c], serves[c])
    BY DEF AgentInv, HandlersOK
  <2>3. ASSUME serves[c] \in Clients, client[serves[c]].step # "new"
        PROVE  client'[serves[c]].step # "new" /\ client'[serves[c]].idem = client[serves[c]].idem
               /\ client'[serves[c]].plan = client[serves[c]].plan
    BY <1>1, <2>3
  <2> QED BY <2>2, <2>3 DEF HandlerOK, RunOf
<1> QED BY <1>2, <1>3, <1>4, <1>5, <1>6 DEF AgentInv

\* A handler goes on while clients, receipts and runs stay.
LEMMA HandlerStep ==
  ASSUME AgentInv, UNCHANGED <<planRuns, receipts, client>>,
         NEW c \in PlanCalls, NEW n, NEW s, planCall' = [planCall EXCEPT ![c] = n],
         DOMAIN serves' = PlanCalls, \A d \in PlanCalls : serves'[d] = IF d = c THEN s ELSE serves[d],
         HandlerOK(n, s), Works(n) => Works(planCall[c]) /\ n.origin = planCall[c].origin
  PROVE  AgentInv'
<1>1. DOMAIN planCall' = PlanCalls /\ \A d \in PlanCalls : planCall'[d] = IF d = c THEN n ELSE planCall[d]
  BY DEF AgentInv, AgentTypes
<1>2. AgentTypes'
  BY <1>1 DEF AgentInv, AgentTypes
<1>3. OneEffect'
  <2>1. \A d \in PlanCalls : Works(planCall[d])' =>
              Works(planCall[d]) /\ planCall'[d].origin = planCall[d].origin
    BY <1>1 DEF Works
  <2> QED BY <2>1 DEF AgentInv, OneEffect
<1>4. ReceiptsOK'
  BY DEF AgentInv, ReceiptsOK, ReceiptOK, RunOf
<1>5. ClientsOK'
  BY DEF AgentInv, ClientsOK, AgentClientOK, RunOf
<1>6. HandlersOK'
  BY <1>1 DEF AgentInv, HandlersOK, HandlerOK, RunOf
<1> QED BY <1>2, <1>3, <1>4, <1>5, <1>6 DEF AgentInv

\* Runs keep who they are, and finished ones do not change.
RunsStay ==
    /\ Sequence(planRuns') /\ DOMAIN planRuns \subseteq DOMAIN planRuns'
    /\ \A n \in DOMAIN planRuns' :
          /\ DOMAIN planRuns'[n] = RunKeys
          /\ planRuns'[n].results \in Nat /\ planRuns'[n].completed \in Nat /\ planRuns'[n].skipped \in Nat
    /\ \A n \in DOMAIN planRuns :
          /\ planRuns'[n].origin = planRuns[n].origin /\ planRuns'[n].plan = planRuns[n].plan
          /\ planRuns[n].status = "done" => planRuns'[n] = planRuns[n]

LEMMA RunOfStays ==
  ASSUME RunsStay, NEW n, NEW k, NEW p, RunOf(n, k, p) PROVE RunOf(n, k, p)'
  BY DEF RunsStay, RunOf

LEMMA RunsStayClients ==
  ASSUME AgentInv, RunsStay, UNCHANGED <<client, receipts>>
  PROVE  ClientsOK' /\ ReceiptsOK'
<1>1. ReceiptsOK'
  BY RunOfStays DEF AgentInv, ReceiptsOK, ReceiptOK
<1>2. ASSUME NEW a, AgentClientOK(a) PROVE AgentClientOK(a)'
  <2>1. RunOf(a.run, a.idem, a.plan) => RunOf(a.run, a.idem, a.plan)'
    BY RunOfStays
  <2>2. RunOf(a.run, a.idem, a.plan) /\ planRuns[a.run].status = "done" => planRuns'[a.run] = planRuns[a.run]
    BY DEF RunOf, RunsStay
  <2> QED BY <1>2, <2>1, <2>2 DEF AgentClientOK
<1>3. ClientsOK'
  BY <1>2 DEF AgentInv, ClientsOK
<1> QED BY <1>1, <1>3

\* The worker changes a run that is not finished.
LEMMA RunStep ==
  ASSUME AgentInv, UNCHANGED <<planCall, receipts, client, serves>>, NEW n \in DOMAIN planRuns, RunActive(n),
         NEW r, planRuns' = [planRuns EXCEPT ![n] = r], DOMAIN r = RunKeys,
         r.results \in Nat, r.completed \in Nat, r.skipped \in Nat,
         r.origin = planRuns[n].origin, r.plan = planRuns[n].plan
  PROVE  AgentInv'
<1>1. Sequence(planRuns)
  BY DEF AgentInv, AgentTypes
<1>2. Sequence(planRuns') /\ DOMAIN planRuns' = DOMAIN planRuns
      /\ \A m \in DOMAIN planRuns : planRuns'[m] = IF m = n THEN r ELSE planRuns[m]
  BY <1>1, Updated
<1>3. planRuns[n].status # "done"
  BY DEF RunActive
<1>4. RunsStay
  BY <1>2, <1>3 DEF RunsStay, AgentInv, AgentTypes
<1>5. AgentTypes'
  BY <1>4 DEF AgentInv, AgentTypes, RunsStay
<1>6. OneEffect'
  BY <1>2, <1>4 DEF AgentInv, OneEffect, RunsStay, Works
<1>7. HandlersOK'
  BY <1>4, RunOfStays DEF AgentInv, HandlersOK, HandlerOK
<1> QED BY <1>4, <1>5, <1>6, <1>7, RunsStayClients DEF AgentInv

-----------------------------------------------------------------------------
(* The client.                                                             *)

\* What the invariant says of one client ...
LEMMA ClientFields ==
  ASSUME AgentInv, NEW a \in Clients
  PROVE  /\ AgentClientOK(client[a]) /\ DOMAIN client[a] = ClientKeys
         /\ client[a].step # "ended" => client[a].exit # "completed"
         /\ client[a].step # "new" => client[a].idem \in Idems /\ ReceiptOK(client[a].idem)
  BY DEF AgentInv, ClientsOK, AgentClientOK, ReceiptsOK

LEMMA ClientExits ==
  ASSUME AgentInv, UNCHANGED <<planCall, planRuns, receipts, serves>>,
         NEW a \in Clients, client[a].step # "new", NEW code, code # "completed", Exit(a, code)
  PROVE  AgentInv'
<1>1. PICK n : n = [client[a] EXCEPT !.step = "ended", !.seen = "none", !.exit = code]
  OBVIOUS
<1>2. DOMAIN n = ClientKeys /\ n.step = "ended" /\ n.exit = code /\ n.idem = client[a].idem /\ n.plan = client[a].plan
  BY <1>1, ClientFields DEF ClientKeys
<1>3. AgentClientOK(n)
  BY <1>2, ClientFields DEF AgentClientOK
<1>4. client' = [client EXCEPT ![a] = n]
  BY <1>1 DEF Exit
<1> QED BY <1>2, <1>3, <1>4, ClientStep

LEMMA ClientGoes ==
  ASSUME AgentInv, UNCHANGED <<planCall, planRuns, receipts, serves>>,
         NEW a \in Clients, client[a].step \notin {"new", "ended"}, NEW step, Goto(a, step),
         step \in {"preflight", "submit", "poll"}, step = "poll" => client[a].step = "count"
  PROVE  AgentInv'
<1>1. PICK n : n = [client[a] EXCEPT !.step = step]
  OBVIOUS
<1>2. DOMAIN n = ClientKeys /\ n.step = step /\ n.exit = client[a].exit /\ n.run = client[a].run
      /\ n.idem = client[a].idem /\ n.plan = client[a].plan
  BY <1>1, ClientFields DEF ClientKeys
<1>3. AgentClientOK(n)
  BY <1>2, ClientFields DEF AgentClientOK
<1>4. client' = [client EXCEPT ![a] = n]
  BY <1>1 DEF Goto
<1> QED BY <1>2, <1>3, <1>4, ClientStep

\* A client that was told of a run of its own waits for it.
LEMMA WaitsIs ==
  ASSUME AgentInv, NEW a \in Clients, client[a].step \notin {"new", "ended"}, NEW run,
         RunOf(run, client[a].idem, client[a].plan), Waits(a, run)
  PROVE  \E n : /\ client' = [client EXCEPT ![a] = n] /\ AgentClientOK(n) /\ n.step # "new"
                /\ n.idem = client[a].idem /\ n.plan = client[a].plan
<1>1. PICK n : n = [client[a] EXCEPT !.step = "poll", !.run = run]
  OBVIOUS
<1>2. DOMAIN n = ClientKeys /\ n.step = "poll" /\ n.exit = client[a].exit /\ n.run = run
      /\ n.idem = client[a].idem /\ n.plan = client[a].plan
  BY <1>1, ClientFields DEF ClientKeys
<1>3. AgentClientOK(n)
  BY <1>2, ClientFields DEF AgentClientOK
<1>4. client' = [client EXCEPT ![a] = n]
  BY <1>1 DEF Waits
<1> QED BY <1>2, <1>3, <1>4

LEMMA StartClientKeeps ==
  ASSUME AgentInv, NEW a \in Clients, NEW k \in Idems, NEW p, StartClient(a, k, p)
  PROVE  AgentInv'
<1>1. PICK n : n = [client[a] EXCEPT !.idem = k, !.plan = p, !.step = "receipt"]
  OBVIOUS
<1>2. client[a].step = "new" /\ client' = [client EXCEPT ![a] = n] /\ UNCHANGED <<planCall, planRuns, receipts, serves>>
  BY <1>1 DEF StartClient, planVars
<1>3. DOMAIN n = ClientKeys /\ n.step = "receipt" /\ n.exit = client[a].exit /\ n.idem = k
  BY <1>1, ClientFields DEF ClientKeys
<1>4. AgentClientOK(n)
  BY <1>2, <1>3, ClientFields DEF AgentClientOK
<1> QED BY <1>2, <1>4, ClientStep

\* A receipt and a record answer the same: their own run, or none.
LEMMA RecordAnswers ==
  ASSUME AgentInv, UNCHANGED <<planCall, planRuns, receipts, serves>>, NEW a \in Clients,
         client[a].step \notin {"new", "ended"},
         FromReceipt(a, receipts[client[a].idem]) \/ AnsweredFromRecord(a)
  PROVE  AgentInv'
<1>1. PICK r : r = receipts[client[a].idem]
  OBVIOUS
<1>2. \/ Exit(a, "conflict") \/ Exit(a, "uncertain")
      \/ r.plan = client[a].plan /\ r.state = "done" /\ Waits(a, r.run)
  BY <1>1 DEF FromReceipt, AnsweredFromRecord
<1>3. CASE r.plan = client[a].plan /\ r.state = "done" /\ Waits(a, r.run)
  <2>1. RunOf(r.run, client[a].idem, client[a].plan)
    BY <1>1, <1>3, ClientFields DEF ReceiptOK
  <2>2. PICK n : /\ client' = [client EXCEPT ![a] = n] /\ AgentClientOK(n) /\ n.step # "new"
                 /\ n.idem = client[a].idem /\ n.plan = client[a].plan
    BY <1>3, <2>1, WaitsIs
  <2> QED BY <2>2, ClientStep
<1>4. CASE Exit(a, "conflict") \/ Exit(a, "uncertain")
  BY <1>4, ClientExits
<1> QED BY <1>2, <1>3, <1>4

LEMMA ClientReads ==
  ASSUME AgentInv, NEW a \in Clients, LookupReceipt(a) \/ ClientPreflight(a) \/ ConnectionFails(a)
  PROVE  AgentInv'
<1>1. UNCHANGED <<planCall, planRuns, receipts, serves>> /\ client[a].step \notin {"new", "ended"}
  BY DEF LookupReceipt, ClientPreflight, ConnectionFails, planVars
<1>2. CASE LookupReceipt(a)
  <2>1. Exit(a, "error") \/ Goto(a, "preflight") \/ FromReceipt(a, receipts[client[a].idem])
    BY <1>2 DEF LookupReceipt, Denied
  <2> QED BY <1>1, <2>1, ClientExits, ClientGoes, RecordAnswers
<1>3. CASE ClientPreflight(a)
  <2>1. Exit(a, "error") \/ Exit(a, "blocked") \/ Goto(a, "submit")
    BY <1>3 DEF ClientPreflight, Denied
  <2> QED BY <1>1, <2>1, ClientExits, ClientGoes
<1>4. CASE ConnectionFails(a)
  <2>1. PICK code \in {"timeout", "error"} : Exit(a, code)
    BY <1>4 DEF ConnectionFails
  <2> QED BY <1>1, <2>1, ClientExits
<1> QED BY <1>2, <1>3, <1>4

LEMMA PollRunKeeps ==
  ASSUME AgentInv, NEW a \in Clients, PollRun(a)
  PROVE  AgentInv'
<1>1. UNCHANGED <<planCall, planRuns, receipts, serves>> /\ client[a].step = "poll"
  BY DEF PollRun, planVars
<1>2. PICK n : n = [client[a] EXCEPT !.step = "count", !.seen = planRuns[client[a].run].status]
  OBVIOUS
<1>3. Exit(a, "error") \/ Exit(a, "run failed") \/ client' = [client EXCEPT ![a] = n]
  BY <1>2 DEF PollRun, Denied
<1>4. DOMAIN n = ClientKeys /\ n.step = "count" /\ n.exit = client[a].exit /\ n.run = client[a].run
      /\ n.idem = client[a].idem /\ n.plan = client[a].plan /\ n.seen = planRuns[n.run].status
  BY <1>2, ClientFields DEF ClientKeys
<1>5. AgentClientOK(n)
  BY <1>1, <1>4, ClientFields DEF AgentClientOK
<1> QED BY <1>1, <1>3, <1>4, <1>5, ClientExits, ClientStep

LEMMA CountResultsKeeps ==
  ASSUME AgentInv, NEW a \in Clients, CountResults(a)
  PROVE  AgentInv'
<1>1. UNCHANGED <<planCall, planRuns, receipts, serves>> /\ client[a].step = "count"
  BY DEF CountResults, planVars
<1>2. CASE Goto(a, "poll") \/ Exit(a, "incomplete")
  BY <1>1, <1>2, ClientExits, ClientGoes
<1>3. CASE ResultsComplete(a) /\ Exit(a, "completed")
  <2>1. PICK n : n = [client[a] EXCEPT !.step = "ended", !.seen = "none", !.exit = "completed"]
    OBVIOUS
  <2>2. DOMAIN n = ClientKeys /\ n.step = "ended" /\ n.run = client[a].run /\ n.exit = "completed"
        /\ n.idem = client[a].idem /\ n.plan = client[a].plan
    BY <2>1, ClientFields DEF ClientKeys
  <2>3. PICK r : r = planRuns[client[a].run]
    OBVIOUS
  <2>4. RunOf(client[a].run, client[a].idem, client[a].plan) /\ client[a].seen = "done" /\ r.status = "done"
        /\ client[a].idem \in Idems
    BY <1>1, <1>3, <2>3, ClientFields DEF AgentClientOK, ResultsComplete
  <2>5. r.completed \in Nat /\ r.skipped \in Nat /\ r.results \in Nat
    BY <2>3, <2>4 DEF AgentInv, AgentTypes, RunOf
  <2>6. r.completed + r.skipped = RunCases /\ r.completed > 0 /\ r.results = r.completed
    BY <1>3, <2>3 DEF ResultsComplete
  <2>7. r.results = RunCases - r.skipped /\ r.results > 0
    BY <2>5, <2>6, AgentAssumption
  <2>8. AgentClientOK(n)
    BY <2>2, <2>3, <2>4, <2>7 DEF AgentClientOK
  <2>9. client' = [client EXCEPT ![a] = n]
    BY <1>3, <2>1 DEF Exit
  <2> QED BY <1>1, <2>2, <2>8, <2>9, ClientStep
<1> QED BY <1>2, <1>3 DEF CountResults

-----------------------------------------------------------------------------
(* The server.                                                             *)

\* ... and of one handler.
LEMMA HandlerFields ==
  ASSUME AgentInv, NEW c \in PlanCalls
  PROVE  /\ HandlerOK(planCall[c], serves[c]) /\ DOMAIN planCall[c] = PlanCallKeys
         /\ DOMAIN serves = PlanCalls
  BY DEF AgentInv, AgentTypes, HandlersOK, HandlerOK

\* A handler at a step of its call goes to the next one.
LEMMA HandlerMoves ==
  ASSUME AgentInv, NEW c \in PlanCalls, planCall[c].step # "idle",
         UNCHANGED <<planRuns, receipts, client, serves>>,
         NEW n, planCall' = [planCall EXCEPT ![c] = n], DOMAIN n = PlanCallKeys,
         n.op = planCall[c].op, n.origin = planCall[c].origin, n.plan = planCall[c].plan, n.step # "idle",
         n.step \in {"read", "schedule", "queue"} => planCall[c].step \in {"read", "schedule", "queue"},
         n.op = "execute" /\ n.result = "ok" => n.result = planCall[c].result /\ n.run = planCall[c].run
  PROVE  AgentInv'
<1>1. HandlerOK(n, serves[c])
  BY HandlerFields DEF HandlerOK
<1>2. Works(n) => Works(planCall[c]) /\ n.origin = planCall[c].origin
  BY DEF Works
<1>3. DOMAIN serves' = PlanCalls /\ \A d \in PlanCalls : serves'[d] = IF d = c THEN serves[c] ELSE serves[d]
  BY HandlerFields
<1> QED BY <1>1, <1>2, <1>3, HandlerStep

LEMMA PlanCallMoves ==
  ASSUME AgentInv, NEW c \in PlanCalls, UNCHANGED <<planRuns, receipts, client, serves>>,
         PlanCallStep(c), planCall[c].step # "queue"
  PROVE  AgentInv'
<1>1. PICK old : old = planCall[c]
  OBVIOUS
<1>2. DOMAIN old = PlanCallKeys
  BY <1>1, HandlerFields
<1>3. CASE \E step : PlanStep(c, step) /\ old.step # "idle" /\ step \in {"archive others", "save", "schedule", "queue"}
                     /\ (step \in {"schedule", "queue"} => old.step \in {"read", "schedule"})
  <2>1. PICK step : PlanStep(c, step) /\ old.step # "idle" /\ step \in {"archive others", "save", "schedule", "queue"}
                     /\ (step \in {"schedule", "queue"} => old.step \in {"read", "schedule"})
    BY <1>3
  <2>2. PICK n : n = [old EXCEPT !.step = step]
    OBVIOUS
  <2>3. DOMAIN n = PlanCallKeys /\ n.op = old.op /\ n.origin = old.origin /\ n.plan = old.plan /\ n.step = step
        /\ n.result = old.result /\ n.run = old.run
    BY <1>2, <2>2 DEF PlanCallKeys
  <2>4. planCall' = [planCall EXCEPT ![c] = n]
    BY <1>1, <2>1, <2>2 DEF PlanStep
  <2> QED BY <1>1, <2>1, <2>3, <2>4, HandlerMoves
<1>4. CASE PlanFails(c) /\ old.step # "idle"
  <2>1. PICK n : n = [old EXCEPT !.step = "answer", !.result = "error"]
    OBVIOUS
  <2>2. DOMAIN n = PlanCallKeys /\ n.op = old.op /\ n.origin = old.origin /\ n.plan = old.plan /\ n.step = "answer"
        /\ n.result = "error"
    BY <1>2, <2>1 DEF PlanCallKeys
  <2>3. planCall' = [planCall EXCEPT ![c] = n]
    BY <1>1, <1>4, <2>1 DEF PlanFails
  <2> QED BY <1>1, <1>4, <2>2, <2>3, HandlerMoves
<1>5. CASE PlanSucceeds(c, 0) /\ old.step # "idle" /\ old.op # "execute"
  <2>1. PICK n : n = [old EXCEPT !.step = "answer", !.result = "ok", !.run = 0]
    OBVIOUS
  <2>2. DOMAIN n = PlanCallKeys /\ n.op = old.op /\ n.origin = old.origin /\ n.plan = old.plan /\ n.step = "answer"
    BY <1>2, <2>1 DEF PlanCallKeys
  <2>3. planCall' = [planCall EXCEPT ![c] = n]
    BY <1>1, <1>5, <2>1 DEF PlanSucceeds
  <2> QED BY <1>1, <1>5, <2>2, <2>3, HandlerMoves
<1>6. CASE ReadForArchive(c)
  <2>1. PICK s : s = plans[planCall[c].plan].status
    OBVIOUS
  <2>2. PICK n : n = [old EXCEPT !.step = "save", !.seen = s]
    OBVIOUS
  <2>3. DOMAIN n = PlanCallKeys /\ n.op = old.op /\ n.origin = old.origin /\ n.plan = old.plan /\ n.step = "save"
        /\ n.result = old.result /\ n.run = old.run
    BY <1>2, <2>2 DEF PlanCallKeys
  <2>4. planCall' = [planCall EXCEPT ![c] = n] /\ old.step = "read"
    BY <1>1, <1>6, <2>1, <2>2 DEF ReadForArchive, PlanAt
  <2> QED BY <1>1, <2>3, <2>4, HandlerMoves
<1>7. CASE ReadLatest(c)
  <2>1. PICK n : n = [old EXCEPT !.step = "insert", !.run = Len(plans)]
    OBVIOUS
  <2>2. DOMAIN n = PlanCallKeys /\ n.op = old.op /\ n.origin = old.origin /\ n.plan = old.plan /\ n.step = "insert"
    BY <1>2, <2>1 DEF PlanCallKeys
  <2>3. planCall' = [planCall EXCEPT ![c] = n] /\ old.step = "read" /\ old.op = "version"
    BY <1>1, <1>7, <2>1 DEF ReadLatest, PlanAt
  <2> QED BY <1>1, <2>2, <2>3, HandlerMoves
<1>8. CASE ReadForActivation(c) \/ ArchiveOthers(c) \/ CheckReadiness(c) \/ ReadActive(c)
  <2>1. old.step \in {"read", "archive others", "schedule"}
    BY <1>1, <1>8 DEF ReadForActivation, ArchiveOthers, CheckReadiness, ReadActive, PlanAt
  <2>2. CASE ReadForActivation(c)
    <3>1. PlanFails(c) \/ PlanStep(c, "archive others")
      BY <2>2 DEF ReadForActivation
    <3> QED BY <1>3, <1>4, <2>1, <3>1
  <2>3. CASE ArchiveOthers(c)
    <3>1. PICK step : step = "save" /\ PlanStep(c, step)
      BY <2>3 DEF ArchiveOthers
    <3>2. step \in {"archive others", "save", "schedule", "queue"} /\ step \notin {"schedule", "queue"}
      BY <3>1
    <3>3. old.step # "idle"
      BY <2>1
    <3> QED BY <1>3, <3>1, <3>2, <3>3
  <2>4. CASE CheckReadiness(c)
    <3>1. old.step = "read" /\ (PlanFails(c) \/ PlanStep(c, "schedule"))
      BY <1>1, <2>4 DEF CheckReadiness, PlanAt
    <3> QED BY <1>3, <1>4, <3>1
  <2>5. CASE ReadActive(c)
    <3>1. old.step = "schedule" /\ (PlanFails(c) \/ PlanStep(c, "queue"))
      BY <1>1, <2>5 DEF ReadActive, PlanAt
    <3> QED BY <1>3, <1>4, <3>1
  <2> QED BY <1>8, <2>2, <2>3, <2>4, <2>5
<1>9. CASE SaveActive(c) \/ SaveArchived(c) \/ InsertVersion(c)
  BY <1>1, <1>4, <1>5, <1>9 DEF SaveActive, SaveArchived, InsertVersion, PlanAt
<1> QED BY <1>6, <1>7, <1>8, <1>9 DEF PlanCallStep, QueueRun, PlanAt

\* The run of a key is queued by its only handler.
LEMMA QueueRunKeeps ==
  ASSUME AgentInv, NEW c \in PlanCalls, UNCHANGED <<receipts, client, serves>>, QueueRun(c)
  PROVE  AgentInv'
<1>1. PICK old : old = planCall[c]
  OBVIOUS
<1>2. DOMAIN old = PlanCallKeys /\ old.op = "execute" /\ old.step = "queue"
  BY <1>1, HandlerFields DEF QueueRun, PlanAt
<1>3. CASE PlanFails(c) /\ UNCHANGED planRuns
  <2>1. PICK n : n = [old EXCEPT !.step = "answer", !.result = "error"]
    OBVIOUS
  <2>2. DOMAIN n = PlanCallKeys /\ n.op = old.op /\ n.origin = old.origin /\ n.plan = old.plan /\ n.step = "answer"
        /\ n.result = "error"
    BY <1>2, <2>1 DEF PlanCallKeys
  <2>3. planCall' = [planCall EXCEPT ![c] = n]
    BY <1>1, <1>3, <2>1 DEF PlanFails
  <2> QED BY <1>1, <1>2, <1>3, <2>2, <2>3, HandlerMoves
<1>4. CASE planRuns' = Append(planRuns, QueuedRun(c)) /\ PlanSucceeds(c, Len(planRuns) + 1)
  <2>1. PICK r : r = QueuedRun(c)
    OBVIOUS
  <2>2. DOMAIN r = RunKeys /\ r.plan = old.plan /\ r.origin = old.origin
        /\ r.results \in Nat /\ r.completed \in Nat /\ r.skipped \in Nat
    BY <1>1, <2>1 DEF QueuedRun, RunKeys
  <2>3. PICK q : q = Len(planRuns) + 1
    OBVIOUS
  <2>4. Extended(planRuns, r, planRuns')
    BY <1>4, <2>1, Appended DEF AgentInv, AgentTypes
  <2>5. /\ Sequence(planRuns') /\ DOMAIN planRuns' = DOMAIN planRuns \cup {q} /\ q \notin DOMAIN planRuns
        /\ planRuns'[q] = r /\ \A m \in DOMAIN planRuns : planRuns'[m] = planRuns[m]
    BY <2>3, <2>4 DEF Extended
  <2>6. RunsStay
    BY <2>2, <2>5 DEF RunsStay, AgentInv, AgentTypes
  <2>7. PICK n : n = [old EXCEPT !.step = "answer", !.result = "ok", !.run = q]
    OBVIOUS
  <2>8. DOMAIN n = PlanCallKeys /\ n.op = old.op /\ n.origin = old.origin /\ n.plan = old.plan /\ n.step = "answer"
        /\ n.run = q
    BY <1>2, <2>7 DEF PlanCallKeys
  <2>9. planCall' = [planCall EXCEPT ![c] = n]
    BY <1>1, <1>4, <2>3, <2>7 DEF PlanSucceeds
  <2>10. DOMAIN planCall' = PlanCalls /\ \A d \in PlanCalls : planCall'[d] = IF d = c THEN n ELSE planCall[d]
    BY <2>9 DEF AgentInv, AgentTypes
  <2>11. AgentTypes'
    BY <2>6, <2>10 DEF AgentInv, AgentTypes, RunsStay
  <2>12. old.origin \in Idems => Works(old) /\ receipts[old.origin].state # "none"
    BY <1>1, <1>2, HandlerFields DEF Works, HandlerOK
  <2>13. OneEffect'
    <3>1. \A d \in PlanCalls : Works(planCall[d])' => d # c /\ Works(planCall[d])
      BY <2>8, <2>10 DEF Works
    <3>2. \A d \in PlanCalls : Works(planCall[d]) /\ old.origin \in Idems /\ d # c => planCall[d].origin # old.origin
      BY <1>1, <2>12 DEF AgentInv, OneEffect
    <3>3. \A m \in DOMAIN planRuns : old.origin \in Idems => planRuns[m].origin # old.origin
      BY <1>1, <2>12 DEF AgentInv, OneEffect
    <3>4. \A n1, m \in DOMAIN planRuns' :
             planRuns'[n1].origin \in Idems /\ planRuns'[n1].origin = planRuns'[m].origin => n1 = m
      BY <2>2, <2>5, <3>3 DEF AgentInv, OneEffect
    <3>5. \A m \in DOMAIN planRuns' :
             planRuns'[m].origin \in Idems => receipts'[planRuns'[m].origin].state # "none"
      BY <2>2, <2>5, <2>12 DEF AgentInv, OneEffect
    <3>6. \A d \in PlanCalls, e \in PlanCalls :
             Works(planCall[d])' /\ Works(planCall[e])' /\ planCall'[d].origin = planCall'[e].origin => d = e
      BY <2>10, <3>1 DEF AgentInv, OneEffect
    <3>7. \A d \in PlanCalls : \A m \in DOMAIN planRuns' :
             Works(planCall[d])' => planRuns'[m].origin # planCall'[d].origin
      <4>1. ASSUME NEW d \in PlanCalls, NEW m \in DOMAIN planRuns', Works(planCall[d])'
            PROVE  planRuns'[m].origin # planCall'[d].origin
        <5>1. d # c /\ Works(planCall[d]) /\ planCall'[d] = planCall[d] /\ planCall[d].origin \in Idems
          BY <2>10, <3>1, <4>1 DEF Works
        <5>2. CASE m = q
          BY <2>2, <2>5, <3>2, <5>1, <5>2
        <5>3. CASE m # q
          BY <2>5, <5>1, <5>3 DEF AgentInv, OneEffect
        <5> QED BY <5>2, <5>3
      <4> QED BY <4>1
    <3> QED BY <3>4, <3>5, <3>6, <3>7 DEF OneEffect
  <2>14. HandlersOK'
    <3>1. SUFFICES ASSUME NEW d \in PlanCalls PROVE HandlerOK(planCall[d], serves[d])'
      BY DEF HandlersOK
    <3>2. HandlerOK(planCall[d], serves[d]) /\ HandlerOK(old, serves[c])
      BY <1>1, HandlerFields
    <3>3. CASE d # c
      BY <2>6, <2>10, <3>2, <3>3, RunOfStays DEF HandlerOK
    <3>4. CASE d = c
      <4>1. RunOf(q, old.origin, old.plan)'
        BY <2>2, <2>5 DEF RunOf
      <4> QED BY <1>2, <2>8, <2>10, <3>2, <3>4, <4>1 DEF HandlerOK
    <3> QED BY <3>3, <3>4
  <2> QED BY <2>6, <2>11, <2>13, <2>14, RunsStayClients DEF AgentInv
<1> QED BY <1>3, <1>4 DEF QueueRun

\* A call of the console begins, or a handler is free again.
LEMMA HandlerBegins ==
  ASSUME AgentInv, NEW c \in PlanCalls, UNCHANGED <<planRuns, receipts, client>>,
         \/ (\E op, p : BeginPlanCall(c, op, p, "web")) /\ UNCHANGED serves
         \/ planCall' = [planCall EXCEPT ![c] = NoPlanCall] /\ UNCHANGED serves /\ serves[c] \notin Clients
         \/ planCall' = [planCall EXCEPT ![c] = NoPlanCall] /\ serves' = [serves EXCEPT ![c] = "nobody"]
  PROVE  AgentInv'
<1>1. PICK e : e = NoPlanCall
  OBVIOUS
<1>2. DOMAIN e = PlanCallKeys /\ e.step = "idle" /\ e.result = "none"
  BY <1>1 DEF NoPlanCall, PlanCallKeys
<1>3. CASE (\E op, p : BeginPlanCall(c, op, p, "web")) /\ UNCHANGED serves
  <2>1. PICK op, p : BeginPlanCall(c, op, p, "web")
    BY <1>3
  <2>2. PICK n : n = [e EXCEPT !.op = op, !.plan = p, !.origin = "web", !.step = "read"]
    OBVIOUS
  <2>3. planCall' = [planCall EXCEPT ![c] = n] /\ planCall[c].step = "idle"
    BY <1>1, <2>1, <2>2 DEF BeginPlanCall
  <2>4. DOMAIN n = PlanCallKeys /\ n.origin \notin Idems /\ n.result = "none"
    BY <1>2, <2>2, AgentAssumption DEF PlanCallKeys
  <2>5. serves[c] \notin Clients
    BY <2>3, HandlerFields DEF HandlerOK
  <2>6. HandlerOK(n, serves[c]) /\ ~Works(n)
    BY <2>4, <2>5 DEF HandlerOK, Works
  <2>7. DOMAIN serves' = PlanCalls /\ \A d \in PlanCalls : serves'[d] = IF d = c THEN serves[c] ELSE serves[d]
    BY <1>3, HandlerFields
  <2> QED BY <2>3, <2>6, <2>7, HandlerStep
<1>4. CASE planCall' = [planCall EXCEPT ![c] = NoPlanCall] /\ UNCHANGED serves /\ serves[c] \notin Clients
  <2>1. HandlerOK(e, serves[c]) /\ ~Works(e)
    BY <1>2, <1>4 DEF HandlerOK, Works
  <2>2. DOMAIN serves' = PlanCalls /\ \A d \in PlanCalls : serves'[d] = IF d = c THEN serves[c] ELSE serves[d]
    BY <1>4, HandlerFields
  <2> QED BY <1>1, <1>4, <2>1, <2>2, HandlerStep
<1>5. CASE planCall' = [planCall EXCEPT ![c] = NoPlanCall] /\ serves' = [serves EXCEPT ![c] = "nobody"]
  <2>1. HandlerOK(e, "nobody") /\ ~Works(e)
    BY <1>2, AgentAssumption DEF HandlerOK, Works
  <2>2. DOMAIN serves' = PlanCalls /\ \A d \in PlanCalls : serves'[d] = IF d = c THEN "nobody" ELSE serves[d]
    BY <1>5, HandlerFields
  <2> QED BY <1>1, <1>5, <2>1, <2>2, HandlerStep
<1> QED BY <1>3, <1>4, <1>5

\* A new call of a client: its key had no receipt, so nothing was done for it.
LEMMA SubmitKeeps ==
  ASSUME AgentInv, NEW a \in Clients, NEW c \in PlanCalls, ServeSubmit(a, c)
  PROVE  AgentInv'
<1>1. UNCHANGED planRuns /\ client[a].step = "submit"
  BY DEF ServeSubmit
<1>2. CASE UNCHANGED <<receipts, planCall, serves>> /\ (Exit(a, "error") \/ AnsweredFromRecord(a))
  BY <1>1, <1>2, ClientExits, RecordAnswers
<1>3. CASE NewToRecord(a) /\ BeginPlanCall(c, "execute", client[a].plan, client[a].idem)
           /\ receipts' = [receipts EXCEPT ![client[a].idem] = [state |-> "pending", plan |-> client[a].plan, run |-> 0]]
           /\ serves' = [serves EXCEPT ![c] = a] /\ Goto(a, "sent")
  <2>1. PICK k, p : k = client[a].idem /\ p = client[a].plan
    OBVIOUS
  <2>2. k \in Idems /\ receipts[k].state = "none"
    BY <1>1, <1>3, <2>1, ClientFields DEF NewToRecord
  <2>3. PICK r : r = [state |-> "pending", plan |-> p, run |-> 0]
    OBVIOUS
  <2>4. DOMAIN r = {"state", "plan", "run"} /\ r.state = "pending" /\ r.plan = p
    BY <2>3
  <2>5. DOMAIN receipts' = Idems /\ \A j \in Idems : receipts'[j] = IF j = k THEN r ELSE receipts[j]
    BY <1>3, <2>1, <2>3 DEF AgentInv, AgentTypes
  <2>6. PICK e : e = NoPlanCall
    OBVIOUS
  <2>7. DOMAIN e = PlanCallKeys /\ e.result = "none"
    BY <2>6 DEF NoPlanCall, PlanCallKeys
  <2>8. PICK n : n = [e EXCEPT !.op = "execute", !.plan = p, !.origin = k, !.step = "read"]
    OBVIOUS
  <2>9. DOMAIN n = PlanCallKeys /\ n.op = "execute" /\ n.plan = p /\ n.origin = k /\ n.step = "read" /\ n.result = "none"
    BY <2>7, <2>8 DEF PlanCallKeys
  <2>10. planCall[c].step = "idle" /\ planCall' = [planCall EXCEPT ![c] = n]
    BY <1>3, <2>1, <2>6, <2>8 DEF BeginPlanCall
  <2>11. DOMAIN planCall' = PlanCalls /\ \A d \in PlanCalls : planCall'[d] = IF d = c THEN n ELSE planCall[d]
    BY <2>10 DEF AgentInv, AgentTypes
  <2>12. DOMAIN serves' = PlanCalls /\ \A d \in PlanCalls : serves'[d] = IF d = c THEN a ELSE serves[d]
    BY <1>3, HandlerFields
  <2>13. PICK l : l = [client[a] EXCEPT !.step = "sent"]
    OBVIOUS
  <2>14. DOMAIN l = ClientKeys /\ l.step = "sent" /\ l.exit = client[a].exit /\ l.idem = k /\ l.plan = p
    BY <2>1, <2>13, ClientFields DEF ClientKeys
  <2>15. DOMAIN client' = Clients /\ \A b \in Clients : client'[b] = IF b = a THEN l ELSE client[b]
    BY <1>3, <2>13 DEF Goto, AgentInv, AgentTypes
  <2>16. AgentTypes'
    BY <1>1, <2>5, <2>11, <2>12, <2>15 DEF AgentInv, AgentTypes
  <2>17. \A d \in PlanCalls : planCall[d].step # "idle" => planCall[d].origin # k
    BY <2>2, HandlerFields DEF HandlerOK
  <2>18. \A m \in DOMAIN planRuns : planRuns[m].origin # k
    BY <2>2 DEF AgentInv, OneEffect
  <2>19. OneEffect'
    <3>1. \A d \in PlanCalls : d # c /\ Works(planCall[d])' =>
             planCall'[d] = planCall[d] /\ Works(planCall[d]) /\ planCall[d].origin # k
      BY <2>11, <2>17 DEF Works
    <3>2. \A m \in DOMAIN planRuns : planRuns[m].origin \in Idems => receipts'[planRuns[m].origin].state # "none"
      BY <2>4, <2>5 DEF AgentInv, OneEffect
    <3>3. \A d, f \in PlanCalls :
             Works(planCall[d])' /\ Works(planCall[f])' /\ planCall'[d].origin = planCall'[f].origin => d = f
      BY <2>9, <2>11, <3>1 DEF AgentInv, OneEffect
    <3>4. \A d \in PlanCalls : \A m \in DOMAIN planRuns : Works(planCall[d])' => planRuns[m].origin # planCall'[d].origin
      BY <2>9, <2>11, <2>18, <3>1 DEF AgentInv, OneEffect
    <3> QED BY <1>1, <3>2, <3>3, <3>4 DEF AgentInv, OneEffect
  <2>20. HandlersOK'
    <3>1. SUFFICES ASSUME NEW d \in PlanCalls PROVE HandlerOK(planCall[d], serves[d])'
      BY DEF HandlersOK
    <3>2. HandlerOK(planCall[d], serves[d])
      BY HandlerFields
    <3>3. CASE d = c
      BY <2>2, <2>4, <2>5, <2>9, <2>11, <2>12, <2>14, <2>15, <3>3 DEF HandlerOK
    <3>4. CASE d # c
      <4>1. planCall'[d] = planCall[d] /\ serves'[d] = serves[d]
        BY <2>11, <2>12, <3>4
      <4>2. planCall[d].step # "idle" /\ planCall[d].origin \in Idems =>
               receipts'[planCall[d].origin] = receipts[planCall[d].origin]
        BY <2>5, <2>17
      <4>3. serves[d] \in Clients => /\ client'[serves[d]].step # "new" /\ client'[serves[d]].idem = client[serves[d]].idem
                                     /\ client'[serves[d]].plan = client[serves[d]].plan
        BY <2>1, <2>14, <2>15, <3>2 DEF HandlerOK
      <4> QED BY <1>1, <3>2, <4>1, <4>2, <4>3 DEF HandlerOK, RunOf
    <3> QED BY <3>3, <3>4
  <2>21. ReceiptsOK'
    BY <1>1, <2>4, <2>5 DEF AgentInv, ReceiptsOK, ReceiptOK, RunOf
  <2>22. ClientsOK'
    <3>1. AgentClientOK(l)
      BY <1>1, <2>2, <2>14, ClientFields DEF AgentClientOK
    <3>2. \A b \in Clients : AgentClientOK(client'[b])
      BY <2>15, <3>1 DEF AgentInv, ClientsOK
    <3> QED BY <1>1, <3>2 DEF ClientsOK, AgentClientOK, RunOf
  <2> QED BY <2>16, <2>19, <2>20, <2>21, <2>22 DEF AgentInv
<1> QED BY <1>2, <1>3 DEF ServeSubmit, Denied

\* The result is stored in the receipt of the key, and the client is told of it.
LEMMA AnswerCallKeeps ==
  ASSUME AgentInv, NEW c \in PlanCalls, AnswerCall(c)
  PROVE  AgentInv'
<1>1. PICK a, old : a = serves[c] /\ old = planCall[c]
  OBVIOUS
<1>2. a \in Clients /\ old.step = "answer" /\ UNCHANGED planRuns
  BY <1>1 DEF AnswerCall
<1>3. PICK k : k = old.origin
  OBVIOUS
<1>4. /\ k \in Idems /\ old.op = "execute" /\ receipts[k].state # "none" /\ receipts[k].plan = old.plan
      /\ client[a].step # "new" /\ client[a].idem = k /\ client[a].plan = old.plan
      /\ old.result = "ok" => RunOf(old.run, k, old.plan)
  BY <1>1, <1>2, <1>3, HandlerFields DEF HandlerOK
<1>5. PICK s : s = IF old.result = "ok" THEN "done" ELSE "failed"
  OBVIOUS
<1>6. PICK r : r = [receipts[k] EXCEPT !.state = s, !.run = old.run]
  OBVIOUS
<1>7. ReceiptOK(k)
  BY <1>4 DEF AgentInv, ReceiptsOK
<1>8. DOMAIN r = {"state", "plan", "run"} /\ r.state = s /\ r.run = old.run /\ r.plan = old.plan
  BY <1>4, <1>6, <1>7 DEF ReceiptOK
<1>9. receipts' = [receipts EXCEPT ![k].state = s, ![k].run = old.run]
  BY <1>1, <1>3, <1>5 DEF AnswerCall
<1>10. DOMAIN receipts' = Idems /\ \A j \in Idems : receipts'[j] = IF j = k THEN r ELSE receipts[j]
  BY <1>4, <1>6, <1>9 DEF AgentInv, AgentTypes
<1>11. r.state # "none" /\ (r.state = "done" => old.result = "ok")
  BY <1>5, <1>8
<1>12. PICK l : /\ DOMAIN client' = Clients /\ \A b \in Clients : client'[b] = IF b = a THEN l ELSE client[b]
                /\ AgentClientOK(l) /\ l.step # "new"
                /\ l.idem = client[a].idem /\ l.plan = client[a].plan
  <2> USE DEF AgentTypes
  <2>1. CASE UNCHANGED client
    BY <1>2, <1>4, <2>1, ClientFields DEF AgentInv
  <2>2. CASE client[a].step = "sent" /\ old.result = "ok" /\ Waits(a, old.run)
    <3>1. PICK l : /\ client' = [client EXCEPT ![a] = l] /\ AgentClientOK(l) /\ l.step # "new"
                   /\ l.idem = client[a].idem /\ l.plan = client[a].plan
      BY <1>2, <1>4, <2>2, WaitsIs
    <3> QED BY <3>1 DEF AgentInv
  <2>3. CASE client[a].step = "sent" /\ Exit(a, "error")
    <3>1. PICK l : l = [client[a] EXCEPT !.step = "ended", !.seen = "none", !.exit = "error"]
      OBVIOUS
    <3>2. DOMAIN l = ClientKeys /\ l.step = "ended" /\ l.exit = "error" /\ l.idem = client[a].idem
          /\ l.plan = client[a].plan
      BY <1>2, <3>1, ClientFields DEF ClientKeys
    <3>3. AgentClientOK(l)
      BY <1>2, <1>4, <3>2 DEF AgentClientOK
    <3> QED BY <2>3, <3>1, <3>2, <3>3 DEF Exit, AgentInv
  <2> QED BY <1>1, <2>1, <2>2, <2>3 DEF AnswerCall
<1>13. \A b \in Clients : client'[b] = IF b = a THEN l ELSE client[b]
  BY <1>12
<1>14. PICK e : e = NoPlanCall
  OBVIOUS
<1>15. DOMAIN e = PlanCallKeys /\ e.step = "idle" /\ e.result = "none"
  BY <1>14 DEF NoPlanCall, PlanCallKeys
<1>16. DOMAIN planCall' = PlanCalls /\ \A d \in PlanCalls : planCall'[d] = IF d = c THEN e ELSE planCall[d]
  BY <1>14 DEF AnswerCall, AgentInv, AgentTypes
<1>17. DOMAIN serves' = PlanCalls /\ \A d \in PlanCalls : serves'[d] = IF d = c THEN "nobody" ELSE serves[d]
  BY HandlerFields DEF AnswerCall
<1>18. AgentTypes'
  BY <1>2, <1>10, <1>12, <1>16, <1>17 DEF AgentInv, AgentTypes
<1>19. OneEffect'
  <2>1. \A d \in PlanCalls : Works(planCall[d])' => planCall'[d] = planCall[d] /\ Works(planCall[d])
    BY <1>15, <1>16 DEF Works
  <2>2. \A j \in Idems : receipts[j].state # "none" => receipts'[j].state # "none"
    BY <1>10, <1>11
  <2> QED BY <1>2, <2>1, <2>2 DEF AgentInv, OneEffect
<1>20. HandlersOK'
  <2>1. SUFFICES ASSUME NEW d \in PlanCalls PROVE HandlerOK(planCall[d], serves[d])'
    BY DEF HandlersOK
  <2>2. HandlerOK(planCall[d], serves[d])
    BY HandlerFields
  <2>3. CASE d = c
    BY <1>15, <1>16, <1>17, <2>3, AgentAssumption DEF HandlerOK
  <2>4. CASE d # c
    <3>1. planCall'[d] = planCall[d] /\ serves'[d] = serves[d]
      BY <1>16, <1>17, <2>4
    <3>2. \A j \in Idems : receipts[j].state # "none" => receipts'[j].state # "none"
      BY <1>10, <1>11
    <3>3. \A j \in Idems : receipts'[j].plan = receipts[j].plan
      BY <1>4, <1>8, <1>10
    <3>4. serves[d] \in Clients => /\ client'[serves[d]].step # "new" /\ client'[serves[d]].idem = client[serves[d]].idem
                                   /\ client'[serves[d]].plan = client[serves[d]].plan
      BY <1>12, <1>13, <2>2 DEF HandlerOK
    <3> QED BY <1>2, <2>2, <3>1, <3>2, <3>3, <3>4 DEF HandlerOK, RunOf
  <2> QED BY <2>3, <2>4
<1>21. ReceiptsOK'
  <2>1. RunOf(r.run, k, r.plan) \/ r.state # "done"
    BY <1>4, <1>8, <1>11
  <2> QED BY <1>2, <1>8, <1>10, <2>1 DEF AgentInv, ReceiptsOK, ReceiptOK, RunOf
<1>22. ClientsOK'
  <2>1. \A b \in Clients : AgentClientOK(client'[b])
    BY <1>12, <1>13 DEF AgentInv, ClientsOK
  <2> QED BY <1>2, <2>1 DEF ClientsOK, AgentClientOK, RunOf
<1> QED BY <1>18, <1>19, <1>20, <1>21, <1>22 DEF AgentInv

-----------------------------------------------------------------------------
LEMMA WorkerKeeps ==
  ASSUME AgentInv, NEW n \in 1..Len(planRuns),
         RecordResult(n) \/ CountCase(n, TRUE) \/ CountCase(n, FALSE) \/ RunFails(n)
  PROVE  AgentInv'
<1>1. n \in DOMAIN planRuns /\ RunActive(n) /\ UNCHANGED <<planCall, receipts, client, serves>>
  BY SequenceIs DEF AgentInv, AgentTypes, RecordResult, CountCase, RunFails
<1>2. PICK old : old = planRuns[n]
  OBVIOUS
<1>3. DOMAIN old = RunKeys /\ old.results \in Nat /\ old.completed \in Nat /\ old.skipped \in Nat
  BY <1>1, <1>2 DEF AgentInv, AgentTypes
<1>4. CASE RecordResult(n)
  <2>1. PICK m : m = old.results + 1
    OBVIOUS
  <2>2. PICK r : r = [old EXCEPT !.status = "running", !.results = m]
    OBVIOUS
  <2>3. DOMAIN r = RunKeys /\ r.results = m /\ r.completed = old.completed /\ r.skipped = old.skipped
        /\ r.origin = old.origin /\ r.plan = old.plan
    BY <1>3, <2>2 DEF RunKeys
  <2>4. planRuns' = [planRuns EXCEPT ![n] = r]
    BY <1>2, <1>4, <2>1, <2>2 DEF RecordResult
  <2>5. m \in Nat
    BY <1>3, <2>1
  <2> QED BY <1>1, <1>2, <1>3, <2>3, <2>4, <2>5, RunStep
<1>5. CASE CountCase(n, TRUE) \/ CountCase(n, FALSE)
  <2>1. PICK m, l, s : /\ m \in Nat /\ l \in Nat
                       /\ planRuns' = [planRuns EXCEPT ![n].completed = m, ![n].skipped = l, ![n].status = s]
    <3>1. CASE CountCase(n, TRUE)
      <4>1. planRuns' = [planRuns EXCEPT ![n].completed = old.completed, ![n].skipped = old.skipped + 1,
                         ![n].status = IF Counted(n) + 1 = RunCases THEN "done" ELSE "running"]
        BY <1>2, <3>1 DEF CountCase
      <4>2. old.skipped + 1 \in Nat
        BY <1>3
      <4> QED BY <1>3, <4>1, <4>2
    <3>2. CASE CountCase(n, FALSE)
      <4>1. planRuns' = [planRuns EXCEPT ![n].completed = old.completed + 1, ![n].skipped = old.skipped,
                         ![n].status = IF Counted(n) + 1 = RunCases THEN "done" ELSE "running"]
        BY <1>2, <3>2 DEF CountCase
      <4>2. old.completed + 1 \in Nat
        BY <1>3
      <4> QED BY <1>3, <4>1, <4>2
    <3> QED BY <1>5, <3>1, <3>2
  <2>2. PICK r : r = [old EXCEPT !.completed = m, !.skipped = l, !.status = s]
    OBVIOUS
  <2>3. DOMAIN r = RunKeys /\ r.results = old.results /\ r.completed = m /\ r.skipped = l
        /\ r.origin = old.origin /\ r.plan = old.plan
    BY <1>3, <2>2 DEF RunKeys
  <2>4. planRuns' = [planRuns EXCEPT ![n] = r]
    BY <1>2, <2>1, <2>2
  <2> QED BY <1>1, <1>2, <1>3, <2>1, <2>3, <2>4, RunStep
<1>6. CASE RunFails(n)
  <2>1. PICK r : r = [old EXCEPT !.status = "failed"]
    OBVIOUS
  <2>2. DOMAIN r = RunKeys /\ r.results = old.results /\ r.completed = old.completed /\ r.skipped = old.skipped
        /\ r.origin = old.origin /\ r.plan = old.plan
    BY <1>3, <2>1 DEF RunKeys
  <2>3. planRuns' = [planRuns EXCEPT ![n] = r]
    BY <1>2, <1>6, <2>1 DEF RunFails
  <2> QED BY <1>1, <1>2, <1>3, <2>2, <2>3, RunStep
<1> QED BY <1>4, <1>5, <1>6

\* There is a handler to take a call.
LEMMA FreeHandlerIs == FreeHandler \in PlanCalls
<1>1. \E c \in PlanCalls : planCall[c].step = "idle" \/ \A d \in PlanCalls : planCall[d].step # "idle"
  BY PlanAssumption
<1> QED BY <1>1 DEF FreeHandler

LEMMA Undisturbed ==
  ASSUME AgentInv, UNCHANGED <<planCall, planRuns, receipts, client, serves>> PROVE AgentInv'
  BY DEF AgentInv, AgentTypes, OneEffect, Works, HandlersOK, HandlerOK, ReceiptsOK, ReceiptOK,
         ClientsOK, AgentClientOK, RunOf

LEMMA ConsoleKeeps ==
  ASSUME AgentInv, Console PROVE AgentInv'
<1>1. UNCHANGED <<receipts, client, serves>>
  BY DEF Console
<1>2. CASE \E executable \in BOOLEAN : CreatePlan(executable)
  BY <1>1, <1>2, Undisturbed DEF CreatePlan
<1>3. CASE \E c \in PlanCalls : PlanCallStep(c)
  <2>1. PICK c \in PlanCalls : PlanCallStep(c)
    BY <1>3
  <2>2. CASE QueueRun(c)
    BY <1>1, <2>2, QueueRunKeeps
  <2>3. CASE ~QueueRun(c)
    <3>1. planCall[c].step # "queue" /\ UNCHANGED planRuns
      BY <2>1, <2>3 DEF PlanCallStep, PlanAt, ReadForActivation, ArchiveOthers, SaveActive, ReadForArchive,
                        SaveArchived, ReadLatest, InsertVersion, CheckReadiness, ReadActive
    <3> QED BY <1>1, <2>1, <3>1, PlanCallMoves
  <2> QED BY <2>2, <2>3
<1>4. CASE \E world \in [environment : BOOLEAN, assets : BOOLEAN] : PrerequisitesChange(world)
  BY <1>1, <1>4, Undisturbed DEF PrerequisitesChange
<1> QED BY <1>2, <1>3, <1>4 DEF Console

LEMMA NextAgent == AgentInv /\ [AgentNext]_agentVars => AgentInv'
<1> SUFFICES ASSUME AgentInv, [AgentNext]_agentVars PROVE AgentInv'
  OBVIOUS
<1>1. CASE Console
  BY <1>1, ConsoleKeeps
<1>2. CASE \E c \in PlanCalls : WebAnswer(c) \/ AnswerCall(c) \/ ServerDies(c)
  <2>1. PICK c \in PlanCalls : WebAnswer(c) \/ AnswerCall(c) \/ ServerDies(c)
    BY <1>2
  <2>2. CASE WebAnswer(c)
    BY <2>2, HandlerBegins DEF WebAnswer
  <2>3. CASE ServerDies(c)
    BY <2>3, HandlerBegins DEF ServerDies
  <2> QED BY <2>1, <2>2, <2>3, AnswerCallKeeps
<1>3. CASE \E op \in {"activate", "archive", "version", "execute"}, p \in 1..Len(plans) : WebCall(FreeHandler, op, p)
  <2>1. PICK op, p : WebCall(FreeHandler, op, p)
    BY <1>3
  <2>2. BeginPlanCall(FreeHandler, op, p, "web") /\ UNCHANGED <<planRuns, receipts, client, serves>>
    BY <2>1 DEF WebCall
  <2> QED BY <2>2, FreeHandlerIs, HandlerBegins
<1>4. CASE RevokeKey
  BY <1>4, Undisturbed DEF RevokeKey, planVars
<1>5. CASE \E a \in Clients, k \in Idems, p \in 1..Len(plans) : StartClient(a, k, p)
  BY <1>5, StartClientKeeps
<1>6. CASE \E a \in Clients : ServeSubmit(a, FreeHandler)
  BY <1>6, FreeHandlerIs, SubmitKeeps
<1>7. CASE \E a \in Clients : LookupReceipt(a) \/ ClientPreflight(a) \/ ConnectionFails(a) \/ PollRun(a) \/ CountResults(a)
  BY <1>7, ClientReads, PollRunKeeps, CountResultsKeeps
<1>8. CASE \E n \in 1..Len(planRuns) : RecordResult(n) \/ CountCase(n, TRUE) \/ CountCase(n, FALSE) \/ RunFails(n)
  BY <1>8, WorkerKeeps
<1>9. CASE UNCHANGED agentVars
  BY <1>9, Undisturbed DEF agentVars, planVars
<1> QED BY <1>1, <1>2, <1>3, <1>4, <1>5, <1>6, <1>7, <1>8, <1>9 DEF AgentNext

LEMMA AgentInvSound == AgentInv => AgentCallsExact
<1> SUFFICES ASSUME AgentInv PROVE AgentCallsExact
  OBVIOUS
<1>1. EffectOnce
  <2>1. SUFFICES ASSUME NEW k \in Idems
                 PROVE  Cardinality({n \in 1..Len(planRuns) : planRuns[n].origin = k}) <= 1
    BY DEF EffectOnce
  <2>2. PICK S : S = {n \in 1..Len(planRuns) : planRuns[n].origin = k}
    OBVIOUS
  <2>3. \A n, m \in S : n = m
    BY <2>2, SequenceIs DEF AgentInv, AgentTypes, OneEffect
  <2>4. Cardinality(S) <= 1
    <3>1. CASE S = {}
      BY <3>1, FS_EmptySet
    <3>2. CASE S # {}
      <4>1. PICK n : S = {n}
        BY <2>3, <3>2
      <4>2. Cardinality({n}) = 1
        BY FS_Singleton
      <4> QED BY <4>1, <4>2
    <3> QED BY <3>1, <3>2
  <2> QED BY <2>2, <2>4
<1>2. CompletionIsReal
  BY DEF AgentInv, ClientsOK, AgentClientOK, RunOf, CompletionIsReal
<1> QED BY <1>1, <1>2 DEF AgentCallsExact

\* For any clients, keys, handlers, lost requests and replies, handlers that die and
\* commands that are repeated (views_ai_access.py, authcheck_cli/workflow.py): a key queues
\* one run at most, and a client exits with success only for a finished run of its
\* own key and plan with a result for every case that was not skipped.
THEOREM AgentsExact == AgentSpec => []AgentCallsExact
<1>1. AgentSpec => []AgentInv
  BY InitAgent, NextAgent, PTL DEF AgentSpec
<1> QED BY <1>1, AgentInvSound, PTL
=============================================================================
