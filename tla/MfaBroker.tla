------------------------------ MODULE MfaBroker ------------------------------
(***************************************************************************)
(* apiAnalysis/tool/mfa_receiver.py: the inbox a login waits at for a      *)
(* one-time verification code.  A wait opens a transaction and blocks; a   *)
(* deliver from another thread or process puts one code into it.           *)
(* MfaPushBroker keeps the transactions in memory under one condition      *)
(* variable; RedisMfaPushBroker keeps them in Redis, which the waiter      *)
(* polls and may fail to reach.  Clocks are discrete and agree.            *)
(***************************************************************************)
EXTENDS Integers, FiniteSets

CONSTANTS
    Waiters,      \* waits, each opening a transaction of its own
    MfaCodes,     \* verification codes
    MaxPending,   \* MfaPushBroker.max_pending
    MfaTimeout,   \* timeout_seconds of a wait
    RedisGrace,   \* how much longer Redis keeps a transaction (5 s)
    MaxMfaTime,   \* bound on the clock
    NoCode

ASSUME MfaAssumption ==
    /\ MaxPending \in Nat \ {0} /\ MfaTimeout \in Nat \ {0}
    /\ RedisGrace \in Nat /\ MaxMfaTime \in Nat /\ NoCode \notin MfaCodes
    /\ MfaCodes \cap {"timeout", "full", "error"} = {}   \* those are exceptions

VARIABLES
    mfaKind,     \* the broker default_mfa_push_broker returns
    mfaNow,      \* time
    mfaInbox,    \* the stored transactions: waiter -> [code, expires]
    mfaLocal,    \* memory: the code of the transaction object the waiter holds
    mfaWait,     \* each waiter: [pc, deadline]
    mfaOutcome,  \* what wait returned: a code, "timeout", "full", "error", or NoCode
    mfaAccepted  \* codes for which deliver returned True, per transaction

mfaVars == <<mfaKind, mfaNow, mfaInbox, mfaLocal, mfaWait, mfaOutcome, mfaAccepted>>

MfaOpen == DOMAIN mfaInbox
Without(ws) == [w \in MfaOpen \ ws |-> mfaInbox[w]]

StoredCode(w) == IF w \in MfaOpen THEN mfaInbox[w].code ELSE NoCode

\* _cleanup_locked, and the expiry of Redis keys.
MfaExpired == {w \in MfaOpen : mfaInbox[w].expires <= mfaNow}

MfaGo(w, pc) == mfaWait' = [mfaWait EXCEPT ![w].pc = pc]
MfaEnd(w, outcome) ==
    /\ mfaWait' = [mfaWait EXCEPT ![w].pc = "done"]
    /\ mfaOutcome' = [mfaOutcome EXCEPT ![w] = outcome]

-----------------------------------------------------------------------------
(* wait                                                                    *)

\* The transaction is stored; in memory the queue must have room for it, and in
\* Redis the write may fail.
MfaOpenTransaction(w) ==
    /\ mfaWait[w].pc = "idle"
    /\ LET kept  == IF mfaKind = "memory" THEN Without(MfaExpired) ELSE mfaInbox
           entry == [code |-> NoCode,
                     expires |-> mfaNow + MfaTimeout + IF mfaKind = "redis" THEN RedisGrace ELSE 0]
       IN \/ /\ mfaKind = "memory" => Cardinality(DOMAIN kept) < MaxPending
             /\ mfaInbox' = [x \in DOMAIN kept \cup {w} |-> IF x = w THEN entry ELSE kept[x]]
             /\ mfaWait' = [mfaWait EXCEPT ![w] = [pc |-> "check", deadline |-> mfaNow + MfaTimeout]]
             /\ UNCHANGED mfaOutcome
          \/ /\ mfaKind = "memory" /\ Cardinality(DOMAIN kept) >= MaxPending
             /\ mfaInbox' = kept
             /\ MfaEnd(w, "full")
          \/ /\ mfaKind = "redis"
             /\ MfaEnd(w, "error")
             /\ UNCHANGED mfaInbox
    /\ UNCHANGED <<mfaKind, mfaNow, mfaLocal, mfaAccepted>>

\* Mutant: the deadline is looked at before the code.
MemoryWaitDeadlineFirst(w) ==
    /\ mfaKind = "memory" /\ mfaWait[w].pc = "check"
    /\ mfaInbox' = Without({w})
    /\ \/ mfaWait[w].deadline <= mfaNow /\ MfaEnd(w, "timeout")
       \/ mfaWait[w].deadline > mfaNow /\ mfaLocal[w] # NoCode /\ MfaEnd(w, mfaLocal[w])
    /\ UNCHANGED <<mfaKind, mfaNow, mfaLocal, mfaAccepted>>

\* MfaPushBroker.wait after a wake-up, with the condition held: the code of the
\* transaction object first, though the inbox may have dropped it; then the
\* deadline; otherwise it waits on.
MemoryWait(w) ==
    /\ mfaKind = "memory" /\ mfaWait[w].pc = "check"
    /\ mfaInbox' = Without({w})
    /\ \/ mfaLocal[w] # NoCode /\ MfaEnd(w, mfaLocal[w])
       \/ mfaLocal[w] = NoCode /\ mfaWait[w].deadline <= mfaNow /\ MfaEnd(w, "timeout")
    /\ UNCHANGED <<mfaKind, mfaNow, mfaLocal, mfaAccepted>>

\* RedisMfaPushBroker.wait: time first, then the stored code; both are steps of
\* their own.
RedisCheckTime(w) ==
    /\ mfaKind = "redis" /\ mfaWait[w].pc = "check"
    /\ IF mfaNow < mfaWait[w].deadline THEN MfaGo(w, "read") /\ UNCHANGED mfaOutcome
       ELSE /\ mfaWait' = [mfaWait EXCEPT ![w].pc = "finally"]
            /\ mfaOutcome' = [mfaOutcome EXCEPT ![w] = "timeout"]
    /\ UNCHANGED <<mfaKind, mfaNow, mfaInbox, mfaLocal, mfaAccepted>>

\* hget answers or fails; what it answers is decrypted with this transaction's id.
RedisRead(w) ==
    /\ mfaKind = "redis" /\ mfaWait[w].pc = "read"
    /\ \/ /\ StoredCode(w) # NoCode
          /\ mfaWait' = [mfaWait EXCEPT ![w].pc = "finally"]
          /\ mfaOutcome' = [mfaOutcome EXCEPT ![w] = StoredCode(w)]
       \/ /\ StoredCode(w) = NoCode
          /\ MfaGo(w, "check") /\ UNCHANGED mfaOutcome
       \/ /\ mfaWait' = [mfaWait EXCEPT ![w].pc = "finally"]
          /\ mfaOutcome' = [mfaOutcome EXCEPT ![w] = "error"]
    /\ UNCHANGED <<mfaKind, mfaNow, mfaInbox, mfaLocal, mfaAccepted>>

\* The finally clause: the transaction is deleted, or stays until it expires.
RedisFinally(w) ==
    /\ mfaKind = "redis" /\ mfaWait[w].pc = "finally"
    /\ MfaGo(w, "done")
    /\ mfaInbox' \in {Without({w}), mfaInbox}
    /\ UNCHANGED <<mfaKind, mfaNow, mfaLocal, mfaOutcome, mfaAccepted>>

-----------------------------------------------------------------------------
(* deliver, clear and time                                                 *)

\* deliver that returns True: the transaction is there and has no code yet.
\* A deliver that returns False or cannot reach Redis changes nothing.
MfaDeliver(w, code) ==
    LET live == Without(MfaExpired) IN
    /\ w \in DOMAIN live /\ live[w].code = NoCode
    /\ mfaInbox' = [live EXCEPT ![w].code = code]
    /\ mfaLocal' = IF mfaKind = "memory" THEN [mfaLocal EXCEPT ![w] = code] ELSE mfaLocal
    /\ mfaAccepted' = [mfaAccepted EXCEPT ![w] = @ \cup {code}]
    /\ UNCHANGED <<mfaKind, mfaNow, mfaWait, mfaOutcome>>

\* clear: the inbox is emptied, the waiters wait on.  Redis drops its keys.
MfaClear ==
    /\ MfaOpen # {}
    /\ mfaInbox' = Without(MfaOpen)
    /\ UNCHANGED <<mfaKind, mfaNow, mfaLocal, mfaWait, mfaOutcome, mfaAccepted>>

\* The clock.  Redis expires by itself, memory when the lock is next taken.
MfaTick ==
    /\ mfaNow < MaxMfaTime
    /\ mfaNow' = mfaNow + 1
    /\ mfaInbox' = IF mfaKind = "redis" THEN [w \in {x \in MfaOpen : mfaInbox[x].expires > mfaNow + 1}
                                                |-> mfaInbox[w]]
                   ELSE mfaInbox
    /\ UNCHANGED <<mfaKind, mfaLocal, mfaWait, mfaOutcome, mfaAccepted>>

MfaInit ==
    /\ mfaKind \in {"memory", "redis"} /\ mfaNow = 0
    /\ mfaInbox = [w \in {} |-> 0]
    /\ mfaLocal = [w \in Waiters |-> NoCode]
    /\ mfaWait = [w \in Waiters |-> [pc |-> "idle", deadline |-> 0]]
    /\ mfaOutcome = [w \in Waiters |-> NoCode]
    /\ mfaAccepted = [w \in Waiters |-> {}]

MfaNext ==
    \/ \E w \in Waiters :
          \/ MfaOpenTransaction(w)
          \/ MemoryWait(w)
          \/ RedisCheckTime(w)
          \/ RedisRead(w)
          \/ RedisFinally(w)
          \/ \E code \in MfaCodes : MfaDeliver(w, code)
    \/ MfaClear
    \/ MfaTick

MfaSpec == MfaInit /\ [][MfaNext]_mfaVars

-----------------------------------------------------------------------------
(* Properties.                                                             *)

\* MfaPushBroker: a wait whose transaction took a code never times out, and a
\* wait that was refused for a full queue opened no transaction: the code is
\* looked at before the deadline, and the waiter keeps the transaction object
\* that expiry or clear took out of the inbox.  (Redis gives no such promise: a
\* code accepted after the last poll is deleted with the transaction.)
AcceptedCodeArrives ==
    \A w \in Waiters :
       mfaKind = "memory" /\ mfaAccepted[w] # {} => mfaOutcome[w] \in mfaAccepted[w] \cup {NoCode}

\* A transaction takes one code, and a wait returns no code but the one that a
\* deliver to its own transaction was told is accepted.
OneCodePerWait ==
    \A w \in Waiters :
       /\ Cardinality(mfaAccepted[w]) <= 1
       /\ mfaOutcome[w] \in MfaCodes => mfaOutcome[w] \in mfaAccepted[w]

\* A code and the wait it is meant for meet exactly once, up to the deadline.
CodeMeetsItsWait == OneCodePerWait /\ AcceptedCodeArrives
=============================================================================
