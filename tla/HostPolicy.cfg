\* Three threads of one host, two permits, one redispatch and one stale write.
CONSTANTS
    Threads = {"t1", "t2", "t3"}
    Hosts = {"h1"}
    HostOf <- MCOneHost
    PerHostWorkers = 2
    MinInterval = 1
    Threshold <- MCThreshold
    Answers = {"rate_limit", "server_error"}
    MaxRequests = 1
    MaxDispatches = 1
    None = None
SPECIFICATION LiveSpec
INVARIANTS CoordinatorSound
PROPERTIES PersistedStopStays AcquireReturns
CHECK_DEADLOCK FALSE
