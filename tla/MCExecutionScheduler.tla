------------------------ MODULE MCExecutionScheduler ------------------------
(* Small instances of the execution scheduler for TLC.                     *)
EXTENDS ExecutionScheduler, TLC

CONSTANTS r1, r2, c1, c2, w1, w2, a1, a2

\* One run with one or two checkpoints.
OneRunTwoCases == c1 :> r1 @@ c2 :> r1
OneRunOneCase  == c1 :> r1
TwoRunsOneCase == c1 :> r1 @@ c2 :> r2

SamePriority == [r \in Runs |-> 100]
Ranked == r1 :> 100 @@ r2 :> 200
OneDispatch == [r \in Runs |-> 1]
TwoDispatches == [r \in Runs |-> 2]

\* Workers are interchangeable, and so are the checkpoints of one run.
CaseSymmetry == Permutations({w1, w2}) \cup Permutations({c1, c2})
AgentSymmetry == Permutations({w1, w2}) \cup Permutations({a1, a2})
=============================================================================
