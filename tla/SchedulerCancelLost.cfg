\* docs/execution_scheduler.md against the code: CancelRequestedOnlyCancels.
SPECIFICATION Spec
CONSTANTS
    r1 = r1  r2 = r2  c1 = c1  c2 = c2  w1 = w1  w2 = w2  a1 = a1  a2 = a2
    NoRun = NoRun
    Runs = {r1}
    Checkpoints = {c1}
    RunOf <- OneRunOneCase
    Priority <- SamePriority
    MaxDispatchAttempts <- OneDispatch
    Orphans = {}
    Workers = {w1}
    Agents = {a1, a2}
    MaxFaults = 0
PROPERTIES CancelRequestedOnlyCancels
CHECK_DEADLOCK FALSE
