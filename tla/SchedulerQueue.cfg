\* An orphan of an older worker and a new run of higher priority.
SPECIFICATION LiveSpec
CONSTANTS
    r1 = r1  r2 = r2  c1 = c1  c2 = c2  w1 = w1  w2 = w2  a1 = a1  a2 = a2
    NoRun = NoRun
    Runs = {r1, r2}
    Checkpoints = {c1, c2}
    RunOf <- TwoRunsOneCase
    Priority <- Ranked
    MaxDispatchAttempts <- TwoDispatches
    Orphans = {r1}
    Workers = {w1}
    Agents = {a1}
    MaxFaults = 1
PROPERTIES AcceptedRunSettles
CHECK_DEADLOCK FALSE
