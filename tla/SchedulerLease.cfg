\* Two workers and one agent on one run with two checkpoints.
SPECIFICATION Spec
CONSTANTS
    r1 = r1  r2 = r2  c1 = c1  c2 = c2  w1 = w1  w2 = w2  a1 = a1  a2 = a2
    NoRun = NoRun
    Runs = {r1}
    Checkpoints = {c1, c2}
    RunOf <- OneRunTwoCases
    Priority <- SamePriority
    MaxDispatchAttempts <- TwoDispatches
    Orphans = {}
    Workers = {w1, w2}
    Agents = {a1}
    MaxFaults = 1
SYMMETRY CaseSymmetry
INVARIANTS
    LeaseIsExclusive ExclusiveExecution SendsBoundedByDispatch DoneIsRecorded
PROPERTIES SettledCheckpointStays ResultWrittenOnce
CHECK_DEADLOCK FALSE
