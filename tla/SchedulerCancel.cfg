\* Two agents (cancel, resume, recovery, enqueue) against two workers.
SPECIFICATION Spec
CONSTANTS
    r1 = r1  r2 = r2  c1 = c1  c2 = c2  w1 = w1  w2 = w2  a1 = a1  a2 = a2
    NoRun = NoRun
    Runs = {r1}
    Checkpoints = {c1}
    RunOf <- OneRunOneCase
    Priority <- SamePriority
    MaxDispatchAttempts <- TwoDispatches
    Orphans = {}
    Workers = {w1, w2}
    Agents = {a1, a2}
    MaxFaults = 1
SYMMETRY AgentSymmetry
PROPERTIES FinalRunStaysFinal ImplementsContract
CHECK_DEADLOCK FALSE
