\* Two managers, maintenance, a retest and a crash on one finding.
CONSTANTS
    Findings = {1}
    Snapshots = {"s1"}
    Origin <- MCOneOrigin
    Managers = {"m1", "m2"}
    Maintenance = "maintenance"
    Limit = 100
    MaxRuns = 2
    MaxCrashes = 1
    None = None
SPECIFICATION LiveSpec
INVARIANTS FindingSound
PROPERTIES DecisiveRetestSettles
CHECK_DEADLOCK FALSE
