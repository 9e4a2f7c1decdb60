\* One run, two workers: cursors, watermarks, lost leases and progress.
CONSTANTS
    NumRuns = 1
    Workers = {k1, k2}
    Clients = {c1}
    NumItems = 4
    Batch = 2
    MaxFaults = 3
    None = None
SPECIFICATION LiveSpec
INVARIANTS DoneIsComplete CursorIsPersisted
PROPERTIES FinalStays CancelOnlyCancels AnalysisSettles
CHECK_DEADLOCK FALSE
