---------------------------- MODULE RunContract ----------------------------
(***************************************************************************)
(* What the execution scheduler promises to its callers, with no worker,   *)
(* lease, attempt or crash in sight: an accepted run stays open until it   *)
(* closes, and stays closed; it may be paused and resumed in between; each *)
(* checkpoint settles once, each execution key gets one result, and no     *)
(* checkpoint is reported done without a result.                           *)
(***************************************************************************)
CONSTANTS Runs, Checkpoints, RunOf, Orphans

VARIABLES phase,    \* of each run: absent, open, paused or closed
          outcome,  \* of each checkpoint: open, or the status it settled with
          result    \* under each execution key: none, ok or err

contractVars == <<phase, outcome, result>>

ContractInit ==
    /\ phase = [r \in Runs |-> IF r \in Orphans THEN "open" ELSE "absent"]
    /\ outcome = [c \in Checkpoints |-> "open"]
    /\ result = [c \in Checkpoints |-> "none"]

Move(r, from, to) ==
    /\ phase[r] \in from
    /\ phase' = [phase EXCEPT ![r] = to]
    /\ UNCHANGED <<outcome, result>>

Accept(r) == Move(r, {"absent"}, "open")
Pause(r)  == Move(r, {"open"}, "paused")
Resume(r) == Move(r, {"paused"}, "open")
Close(r)  == Move(r, {"open", "paused"}, "closed")

\* Some open checkpoints of one accepted run settle together.
Settle(r, S, status) ==
    /\ phase[r] # "absent"
    /\ \A c \in S : RunOf[c] = r /\ outcome[c] = "open"
    /\ status = "done" => \A c \in S : result[c] # "none"
    /\ outcome' = [c \in Checkpoints |-> IF c \in S THEN status ELSE outcome[c]]
    /\ UNCHANGED <<phase, result>>

Record(c, o) ==
    /\ phase[RunOf[c]] # "absent"
    /\ result[c] = "none"
    /\ result' = [result EXCEPT ![c] = o]
    /\ UNCHANGED <<phase, outcome>>

ContractNext ==
    \/ \E r \in Runs : Accept(r) \/ Pause(r) \/ Resume(r) \/ Close(r)
    \/ \E r \in Runs, S \in SUBSET Checkpoints,
          status \in {"done", "error", "skipped", "cancelled"} : Settle(r, S, status)
    \/ \E c \in Checkpoints, o \in {"ok", "err"} : Record(c, o)

ContractSpec == ContractInit /\ [][ContractNext]_contractVars
=============================================================================
